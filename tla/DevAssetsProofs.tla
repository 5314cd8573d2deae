--------------------------- MODULE DevAssetsProofs ---------------------------
(***************************************************************************)
(* What generate-dev-assets.sh and render-runtime-env.py leave on disk is  *)
(* consistent, for any identities and roles and however often a command is *)
(* stopped and started again.                                              *)
(***************************************************************************)
EXTENDS DevAssets, SequenceTheorems, TLAPS

L == Len(identities)
R == Len(roles)
I == 1 .. L
K == 1 .. R

(***************************************************************************)
(* The inductive invariant.                                                *)
(***************************************************************************)
\* The command that runs is at a step, or behind its last part.
Types ==
    /\ disk = [f \in Files |-> disk[f]]
    /\ cmd \in {"none", "assets", "env"} /\ done \in {"none", "assets", "env"}
    /\ part \in Nat /\ at \in Nat /\ made \in Nat /\ runs \in Nat /\ stops \in Nat /\ halved \subseteq Files
    /\ cmd # "none" => /\ done = "none" /\ part >= 1 /\ at >= 1
                       /\ part <= Len(Steps[cmd]) => at <= Len(Steps[cmd][part])

\* A file is absent, cut, or a text; so is what the open output will hold.
Shapes ==
    /\ \A f \in Files : disk[f] = Absent \/ disk[f] = Cut \/ disk[f] = Text(disk[f].of)
    /\ opened = Absent \/ opened = Text(opened.of)

\* The output that is open is the one of the current step: it is cut, and what it
\* will hold still follows from its inputs.  Only runtime.env is its own input.
Opened ==
    opened # Absent =>
        /\ cmd # "none" /\ part <= Len(Steps[cmd]) /\ Step.do = "write"
        /\ disk[Step.file] = Cut /\ Usable(Step.file) /\ opened.is = "whole"
        /\ Step.file # RuntimeEnv => opened = Content(Step.file)

\* A part that its guard let through has not written its later files.
InsideCa ==
    cmd = "assets" /\ part = 1 =>
        /\ at = 2 => ~Whole(CaKey) /\ ~exists(CaCrt)
        /\ at = 3 => Whole(CaKey) /\ ~Whole(CaCrt)
Requested(n) == disk[Leaf("csr", n)] = Text([key |-> disk[Leaf("key", n)]])
InsideLeaf(i) ==
    LET n == identities[i]
    IN  cmd = "assets" /\ part = 1 + i =>
            /\ at = 2 => ~Whole(Leaf("key", n)) /\ ~exists(Leaf("crt", n))
            /\ at = 3 => Whole(Leaf("key", n)) /\ ~exists(Leaf("crt", n))
            /\ at = 4 => Whole(Leaf("key", n)) /\ ~exists(Leaf("crt", n)) /\ Requested(n)
            /\ at = 5 => Whole(Leaf("key", n)) /\ ~Whole(Leaf("crt", n)) /\ Requested(n) /\ exists(Leaf("ext", n))
            /\ at = 6 => Matches(n) /\ Requested(n) /\ exists(Leaf("ext", n))
            /\ at = 7 => Matches(n) /\ ~exists(Leaf("csr", n)) /\ exists(Leaf("ext", n))
InsidePkj ==
    cmd = "assets" /\ part = L + 2 =>
        /\ at = 2 => ~Whole(PkjKey)
        /\ at = 3 => Whole(PkjKey) /\ ~Whole(PkjPub)
InsideSecrets == cmd = "assets" /\ part = L + 4 /\ at = 2 => ~Whole(Secrets)
Inside == InsideCa /\ (\A i \in I : InsideLeaf(i)) /\ InsidePkj /\ InsideSecrets

\* The files that are kept fit together.
CaFits == Whole(CaCrt) => Whole(CaKey) /\ disk[CaCrt] = Text([key |-> disk[CaKey]])
LeafFits(n) ==
    exists(Leaf("crt", n)) =>
        /\ Whole(CaCrt) /\ Whole(Leaf("key", n))
        /\ Matches(n) \/ (exists(Leaf("csr", n)) /\ exists(Leaf("ext", n)))
\* A cut public key was left by a stop, or is being written.
PubFits ==
    exists(PkjPub) =>
        /\ Whole(PkjKey)
        /\ \/ disk[PkjPub] = Text([key |-> disk[PkjKey]])
           \/ disk[PkjPub] = Cut /\ (PkjPub \in halved \/ (cmd = "assets" /\ part = L + 2 /\ opened # Absent))
RoleFits(r) ==
    /\ exists(Role(r)) =>
         /\ Whole(CaCrt) /\ \A n \in OfRole(r) : LeafAccepted(n)
         /\ disk[Role(r)] = Text([ca |-> disk[CaCrt], pair |-> Pairs(r)])
    /\ exists(RoleEnv(r)) =>
         /\ exists(Role(r)) /\ Whole(RoleEnv(r))
         /\ disk[RoleEnv(r)].of.keys = Keys(r)
Fits == CaFits /\ (\A n \in Names : LeafFits(n)) /\ PubFits /\ \A r \in Roles : RoleFits(r)

\* generate-dev-assets.sh has done step k of part p, or has succeeded.
Past(p, k) == (cmd = "assets" /\ (part > p \/ (part = p /\ at > k))) \/ done = "assets"
PastLeaves == \A i \in I : Past(1 + i, 7) => LeafAccepted(identities[i])
PastJwk ==
    /\ Past(L + 3, 1) => Whole(PkjKey) /\ disk[Jwk] = Text([key |-> disk[PkjKey]])
    /\ Past(L + 3, 2) => disk[JwkEnv] = Text([key |-> disk[PkjKey]])
PastRealm ==
    /\ Past(L + 5, 1) => /\ exists(PkjPub)
                         /\ disk[Realm] = Text([users |-> disk[Secrets], pub |-> disk[PkjPub], kid |-> disk[JwkEnv]])
    /\ Past(L + 5, 2) => Whole(Secrets) /\ disk[DeckEnv] = Text([secrets |-> disk[Secrets], kid |-> disk[JwkEnv]])
PastSecrets == Past(L + 6, 1) => disk[RuntimeEnv] = Text([admin |-> disk[Secrets], hosts |-> Absent])
PastRoles ==
    \A k \in K :
        /\ Past(L + 7, k) => exists(Role(roles[k]))
        /\ Past(L + 8, k) => exists(RoleEnv(roles[k])) /\ disk[RoleEnv(roles[k])].of.jwk \in {Absent, disk[Jwk]}
PastUsers == Past(L + 9, 1) => disk[Users] = Text([users |-> disk[Secrets]])
Progress == PastLeaves /\ PastJwk /\ PastRealm /\ PastSecrets /\ PastRoles /\ PastUsers

\* Once a role file was rendered, runtime.env has the credentials or is being
\* written with them, unless a stop cut it.
Credentials ==
    (\E r \in Roles : exists(Role(r))) =>
        /\ Whole(Secrets)
        /\ RuntimeEnv \notin halved =>
              \/ Whole(RuntimeEnv) /\ disk[RuntimeEnv].of.admin = disk[Secrets]
              \/ cmd = "env" /\ part = 1 /\ at = 2 /\ opened # Absent /\ opened.of.admin = disk[Secrets]

IInv == Types /\ Shapes /\ Opened /\ Inside /\ Fits /\ Progress /\ Credentials
-----------------------------------------------------------------------------
(***************************************************************************)
(* The steps of the two commands.                                          *)
(***************************************************************************)
LEMMA Constants ==
    /\ L \in Nat \ {0} /\ R \in Nat \ {0}
    /\ \A i \in I : identities[i] \in Names
    /\ \A k \in K : roles[k] \in Roles
    /\ \A n \in Names : \E i \in I : identities[i] = n
    /\ \A r \in Roles : \E k \in K : roles[k] = r
    /\ \A i, j \in I : identities[i] = identities[j] => i = j
    /\ \A k, l \in K : roles[k] = roles[l] => k = l
    /\ \A n \in Names : n # "ca" /\ n # "pkj" /\ n # "secrets"
<1>1. L \in Nat \ {0} /\ R \in Nat \ {0} /\ DOMAIN identities = I /\ DOMAIN roles = K
  BY AssetsAssumption DEF L, R, I, K
<1>2. /\ \A i, j \in DOMAIN identities : identities[i] = identities[j] => i = j
      /\ \A k, l \in DOMAIN roles : roles[k] = roles[l] => k = l
  BY AssetsAssumption DEF IsInjective
<1> QED BY <1>1, <1>2, AssetsAssumption DEF Names, Roles, Range

LEMMA Concatenation ==
    ASSUME NEW S, NEW s \in Seq(S), NEW t \in Seq(S)
    PROVE  /\ s \o t \in Seq(S) /\ Len(s \o t) = Len(s) + Len(t)
           /\ \A i \in 1 .. Len(s) : (s \o t)[i] = s[i]
           /\ \A i \in 1 .. Len(t) : (s \o t)[Len(s) + i] = t[i]
OBVIOUS

\* The parts of generate-dev-assets.sh.
LEMMA Parts ==
    /\ Len(Steps["assets"]) = L + 9
    /\ Steps["assets"][1] = ensure_ca
    /\ \A i \in I : Steps["assets"][1 + i] = issue(identities[i])
    /\ Steps["assets"][L + 2] = route_b_pkj
    /\ Steps["assets"][L + 3] = export_rsa_jwk
    /\ Steps["assets"][L + 4] = secrets_env
    /\ Steps["assets"][L + 5] = render_realm
    /\ Steps["assets"][L + 6] = <<safe_write(RuntimeEnv)>>
    /\ Steps["assets"][L + 7] = [k \in K |-> safe_write(Role(roles[k]))]
    /\ Steps["assets"][L + 8] = [k \in K |-> safe_write(RoleEnv(roles[k]))]
    /\ Steps["assets"][L + 9] = <<Write(Users)>>
<1> DEFINE T == {ensure_ca, route_b_pkj, export_rsa_jwk, secrets_env, render_realm, <<safe_write(RuntimeEnv)>>,
                 [k \in K |-> safe_write(Role(roles[k]))], [k \in K |-> safe_write(RoleEnv(roles[k]))],
                 <<Write(Users)>>} \cup {issue(identities[i]) : i \in I}
           a == <<ensure_ca>>
           b == [i \in 1 .. L |-> issue(identities[i])]
           c == <<route_b_pkj, export_rsa_jwk, secrets_env, render_realm>>
           d == <<<<safe_write(RuntimeEnv)>>, [k \in K |-> safe_write(Role(roles[k]))],
                  [k \in K |-> safe_write(RoleEnv(roles[k]))]>>
           e == <<<<Write(Users)>>>>
<1> HIDE DEF T
<1>0. L \in Nat /\ I = 1 .. L
  BY Constants DEF I
<1>1. a \in Seq(T) /\ Len(a) = 1 /\ a[1] = ensure_ca
  BY DEF T
<1>2. b \in Seq(T) /\ Len(b) = L /\ \A i \in I : b[i] = issue(identities[i])
  <2>1. \A i \in 1 .. L : issue(identities[i]) \in T
    BY <1>0 DEF T
  <2> HIDE DEF b
  <2>2. b = [i \in 1 .. L |-> issue(identities[i])]
    BY DEF b
  <2> QED BY <1>0, <2>1, <2>2
<1>3. /\ c \in Seq(T) /\ Len(c) = 4
      /\ c[1] = route_b_pkj /\ c[2] = export_rsa_jwk /\ c[3] = secrets_env /\ c[4] = render_realm
  BY DEF T
<1>4. /\ d \in Seq(T) /\ Len(d) = 3 /\ d[1] = <<safe_write(RuntimeEnv)>>
      /\ d[2] = [k \in K |-> safe_write(Role(roles[k]))] /\ d[3] = [k \in K |-> safe_write(RoleEnv(roles[k]))]
  BY DEF T
<1>5. e \in Seq(T) /\ Len(e) = 1 /\ e[1] = <<Write(Users)>>
  BY DEF T
<1>6. Steps["assets"] = ((a \o b) \o c) \o d \o e
  BY DEF Steps, generate_dev_assets, generate_pki, render_runtime_secrets, L, R, K
<1> HIDE DEF a, b, c, d, e
<1>7. /\ a \o b \in Seq(T) /\ Len(a \o b) = 1 + L
      /\ (a \o b)[1] = ensure_ca /\ \A i \in I : (a \o b)[1 + i] = issue(identities[i])
  <2>1. /\ a \o b \in Seq(T) /\ Len(a \o b) = 1 + L
        /\ \A i \in 1 .. 1 : (a \o b)[i] = a[i]
        /\ \A i \in 1 .. L : (a \o b)[1 + i] = b[i]
    <3>0. a \in Seq(T) /\ b \in Seq(T)
      BY <1>1, <1>2
    <3>1. /\ a \o b \in Seq(T) /\ Len(a \o b) = Len(a) + Len(b)
          /\ \A i \in 1 .. Len(a) : (a \o b)[i] = a[i]
          /\ \A i \in 1 .. Len(b) : (a \o b)[Len(a) + i] = b[i]
      BY <3>0, Concatenation
    <3> QED BY <1>1, <1>2, <3>1
  <2> HIDE DEF T
  <2> QED BY <1>0, <1>1, <1>2, <2>1
<1> DEFINE ab == a \o b
           abc == ab \o c
           abcd == abc \o d
<1> HIDE DEF ab
<1>8. /\ abc \in Seq(T) /\ Len(abc) = L + 5
      /\ \A i \in 1 .. L + 1 : abc[i] = ab[i]
      /\ abc[L + 2] = route_b_pkj /\ abc[L + 3] = export_rsa_jwk
      /\ abc[L + 4] = secrets_env /\ abc[L + 5] = render_realm
  <2> DEFINE m == 1 + L
  <2>1. ab \in Seq(T) /\ Len(ab) = m /\ m \in Nat
    BY <1>0, <1>7 DEF ab
  <2> HIDE DEF m
  <2>2. /\ abc \in Seq(T) /\ Len(abc) = m + 4
        /\ \A i \in 1 .. m : abc[i] = ab[i]
        /\ \A i \in 1 .. 4 : abc[m + i] = c[i]
    <3>0. ab \in Seq(T) /\ c \in Seq(T)
      BY <1>3, <2>1
    <3>1. /\ ab \o c \in Seq(T) /\ Len(ab \o c) = Len(ab) + Len(c)
          /\ \A i \in 1 .. Len(ab) : (ab \o c)[i] = ab[i]
          /\ \A i \in 1 .. Len(c) : (ab \o c)[Len(ab) + i] = c[i]
      BY <3>0, Concatenation
    <3> QED BY <1>3, <2>1, <3>1 DEF abc
  <2> HIDE DEF abc
  <2>3. abc[m + 1] = c[1] /\ abc[m + 2] = c[2] /\ abc[m + 3] = c[3] /\ abc[m + 4] = c[4]
    BY <2>2
  <2>4. m + 4 = L + 5 /\ m + 1 = L + 2 /\ m + 2 = L + 3 /\ m + 3 = L + 4 /\ m = L + 1
    BY <1>0 DEF m
  <2> QED BY <1>3, <2>2, <2>3, <2>4
<1> HIDE DEF abc
<1>9. /\ abcd \in Seq(T) /\ Len(abcd) = L + 8
      /\ \A i \in 1 .. L + 5 : abcd[i] = abc[i]
      /\ abcd[L + 6] = d[1] /\ abcd[L + 7] = d[2] /\ abcd[L + 8] = d[3]
  <2> DEFINE m == L + 5
  <2>1. abc \in Seq(T) /\ Len(abc) = m /\ m \in Nat
    BY <1>0, <1>8
  <2> HIDE DEF m
  <2>2. /\ abcd \in Seq(T) /\ Len(abcd) = m + 3
        /\ \A i \in 1 .. m : abcd[i] = abc[i]
        /\ \A i \in 1 .. 3 : abcd[m + i] = d[i]
    <3>0. abc \in Seq(T) /\ d \in Seq(T)
      BY <1>4, <2>1
    <3>1. /\ abc \o d \in Seq(T) /\ Len(abc \o d) = Len(abc) + Len(d)
          /\ \A i \in 1 .. Len(abc) : (abc \o d)[i] = abc[i]
          /\ \A i \in 1 .. Len(d) : (abc \o d)[Len(abc) + i] = d[i]
      BY <3>0, Concatenation
    <3> QED BY <1>4, <2>1, <3>1 DEF abcd
  <2> HIDE DEF abcd
  <2>3. abcd[m + 1] = d[1] /\ abcd[m + 2] = d[2] /\ abcd[m + 3] = d[3]
    BY <2>2
  <2>4. m + 3 = L + 8 /\ m + 1 = L + 6 /\ m + 2 = L + 7 /\ m = L + 5
    BY <1>0 DEF m
  <2> QED BY <2>2, <2>3, <2>4
<1> HIDE DEF abcd
<1>10. /\ Len(Steps["assets"]) = L + 9
       /\ \A i \in 1 .. L + 8 : Steps["assets"][i] = abcd[i]
       /\ Steps["assets"][L + 9] = e[1]
  <2>1. Steps["assets"] = abcd \o e
    <3>1. Steps["assets"] = abc \o d \o e
      BY <1>6 DEF abc, ab
    <3> QED BY <3>1 DEF abcd
  <2> DEFINE m == L + 8
  <2>2. Len(abcd) = m /\ m \in Nat
    BY <1>0, <1>9
  <2> HIDE DEF m
  <2>3. /\ Len(abcd \o e) = m + 1
        /\ \A i \in 1 .. m : (abcd \o e)[i] = abcd[i]
        /\ (abcd \o e)[m + 1] = e[1]
    <3>0. abcd \in Seq(T) /\ e \in Seq(T)
      BY <1>5, <1>9, <2>2
    <3>1. /\ abcd \o e \in Seq(T) /\ Len(abcd \o e) = Len(abcd) + Len(e)
          /\ \A i \in 1 .. Len(abcd) : (abcd \o e)[i] = abcd[i]
          /\ \A i \in 1 .. Len(e) : (abcd \o e)[Len(abcd) + i] = e[i]
      BY <3>0, Concatenation
    <3>2. Len(abcd) = m /\ Len(e) = 1 /\ 1 \in 1 .. Len(e)
      BY <1>5, <2>2
    <3>3. (abcd \o e)[Len(abcd) + 1] = e[1]
      BY <3>1, <3>2, Zenon
    <3> QED BY <3>1, <3>2, <3>3, Zenon
  <2>4. m + 1 = L + 9 /\ m = L + 8
    BY <1>0 DEF m
  <2> QED BY <2>1, <2>3, <2>4, Zenon
<1>11. \A i \in 1 .. L + 1 : Steps["assets"][i] = ab[i]
  BY <1>0, <1>8, <1>9, <1>10
<1>12. /\ Steps["assets"][1] = ensure_ca
       /\ \A i \in I : Steps["assets"][1 + i] = issue(identities[i])
  <2>1. 1 \in 1 .. L + 1 /\ \A i \in I : 1 + i \in 1 .. L + 1
    BY <1>0
  <2> QED BY <1>7, <1>11, <2>1 DEF ab
<1>13. \A i \in {L + 2, L + 3, L + 4, L + 5} : Steps["assets"][i] = abc[i]
  BY <1>0, <1>9, <1>10
<1>14. \A i \in {L + 6, L + 7, L + 8} : Steps["assets"][i] = abcd[i]
  BY <1>0, <1>10
<1> QED BY <1>4, <1>5, <1>8, <1>9, <1>10, <1>12, <1>13, <1>14

LEMMA EnvParts ==
    /\ Len(Steps["env"]) = 1 /\ Len(Steps["env"][1]) = 2
    /\ Steps["env"][1][1] = Write(Manifest) /\ Steps["env"][1][2] = Write(RuntimeEnv)
BY DEF Steps, render_runtime_env

\* Where a command is: the command, the part with its size, the step.
Here(c, p, size, k, s) == cmd = c /\ part = p /\ at = k /\ Len(Steps[c][p]) = size /\ Step = s
AtEnv == Here("env", 1, 2, 1, Write(Manifest)) \/ Here("env", 1, 2, 2, Write(RuntimeEnv))
AtCa ==
    \/ Here("assets", 1, 3, 1, Guard("ca")) \/ Here("assets", 1, 3, 2, Write(CaKey))
    \/ Here("assets", 1, 3, 3, Write(CaCrt))
AtLeaf(i) ==
    LET n == identities[i]
    IN  \/ Here("assets", 1 + i, 7, 1, Guard(n))
        \/ Here("assets", 1 + i, 7, 2, Write(Leaf("key", n))) \/ Here("assets", 1 + i, 7, 3, Write(Leaf("csr", n)))
        \/ Here("assets", 1 + i, 7, 4, Write(Leaf("ext", n))) \/ Here("assets", 1 + i, 7, 5, Write(Leaf("crt", n)))
        \/ Here("assets", 1 + i, 7, 6, unlink(Leaf("csr", n))) \/ Here("assets", 1 + i, 7, 7, unlink(Leaf("ext", n)))
AtPkj ==
    \/ Here("assets", L + 2, 3, 1, Guard("pkj")) \/ Here("assets", L + 2, 3, 2, Write(PkjKey))
    \/ Here("assets", L + 2, 3, 3, Write(PkjPub))
AtJwk == Here("assets", L + 3, 2, 1, Write(Jwk)) \/ Here("assets", L + 3, 2, 2, Write(JwkEnv))
AtSecrets == Here("assets", L + 4, 2, 1, Guard("secrets")) \/ Here("assets", L + 4, 2, 2, Write(Secrets))
AtRealm == Here("assets", L + 5, 2, 1, Write(Realm)) \/ Here("assets", L + 5, 2, 2, Write(DeckEnv))
AtRuntime == Here("assets", L + 6, 1, 1, safe_write(RuntimeEnv))
AtRole(k) == Here("assets", L + 7, R, k, safe_write(Role(roles[k])))
AtRoleEnv(k) == Here("assets", L + 8, R, k, safe_write(RoleEnv(roles[k])))
AtUsers == Here("assets", L + 9, 1, 1, Write(Users))

LEMMA Where ==
    ASSUME Types, cmd # "none", part <= Len(Steps[cmd])
    PROVE  \/ AtEnv \/ AtCa \/ (\E i \in I : AtLeaf(i)) \/ AtPkj \/ AtJwk \/ AtSecrets \/ AtRealm \/ AtRuntime
           \/ (\E k \in K : AtRole(k)) \/ (\E k \in K : AtRoleEnv(k)) \/ AtUsers
<1>1. part \in Nat /\ at \in Nat /\ part >= 1 /\ at >= 1 /\ at <= Len(Steps[cmd][part])
  BY DEF Types
<1>2. CASE cmd = "env"
  <2>1. part = 1
    BY <1>1, <1>2, EnvParts
  <2>2. at = 1 \/ at = 2
    BY <1>1, <1>2, <2>1, EnvParts
  <2> QED BY <1>2, <2>1, <2>2, EnvParts DEF AtEnv, Here, Step
<1>3. CASE cmd = "assets"
  <2>0. L \in Nat /\ R \in Nat
    BY Constants
  <2>1. \/ part = 1 \/ (\E i \in I : part = 1 + i) \/ part = L + 2 \/ part = L + 3 \/ part = L + 4 \/ part = L + 5
        \/ part = L + 6 \/ part = L + 7 \/ part = L + 8 \/ part = L + 9
    <3>1. part <= L + 9
      BY <1>3, Parts
    <3>2. part > 1 /\ part <= L + 1 => part - 1 \in I /\ part = 1 + (part - 1)
      BY <1>1, <2>0 DEF I
    <3> QED BY <1>1, <2>0, <3>1, <3>2
  <2>2. CASE part = 1
    <3>1. Steps[cmd][part] = ensure_ca /\ Len(ensure_ca) = 3
      BY <1>3, <2>2, Parts DEF ensure_ca
    <3>2. at = 1 \/ at = 2 \/ at = 3
      BY <1>1, <3>1
    <3>3. ensure_ca[1] = Guard("ca") /\ ensure_ca[2] = Write(CaKey) /\ ensure_ca[3] = Write(CaCrt)
      BY DEF ensure_ca
    <3> QED BY <1>3, <2>2, <3>1, <3>2, <3>3 DEF AtCa, Here, Step
  <2>3. ASSUME NEW i \in I, part = 1 + i PROVE AtLeaf(i)
    <3> DEFINE n == identities[i]
               s == issue(n)
    <3>1. Steps[cmd][part] = s
      BY <1>3, <2>3, Parts
    <3>2. /\ Len(s) = 7 /\ s[1] = Guard(n) /\ s[2] = Write(Leaf("key", n)) /\ s[3] = Write(Leaf("csr", n))
          /\ s[4] = Write(Leaf("ext", n)) /\ s[5] = Write(Leaf("crt", n))
          /\ s[6] = unlink(Leaf("csr", n)) /\ s[7] = unlink(Leaf("ext", n))
      BY DEF issue
    <3> HIDE DEF s
    <3>3. at = 1 \/ at = 2 \/ at = 3 \/ at = 4 \/ at = 5 \/ at = 6 \/ at = 7
      BY <1>1, <3>1, <3>2
    <3> QED BY <1>3, <2>3, <3>1, <3>2, <3>3 DEF AtLeaf, Here, Step
  <2>4. CASE part = L + 2
    <3>1. Steps[cmd][part] = route_b_pkj /\ Len(route_b_pkj) = 3
      BY <1>3, <2>4, Parts DEF route_b_pkj
    <3>2. at = 1 \/ at = 2 \/ at = 3
      BY <1>1, <3>1
    <3>3. route_b_pkj[1] = Guard("pkj") /\ route_b_pkj[2] = Write(PkjKey) /\ route_b_pkj[3] = Write(PkjPub)
      BY DEF route_b_pkj
    <3> QED BY <1>3, <2>4, <3>1, <3>2, <3>3 DEF AtPkj, Here, Step
  <2>5. CASE part = L + 3
    <3>1. Steps[cmd][part] = export_rsa_jwk /\ Len(export_rsa_jwk) = 2
      BY <1>3, <2>5, Parts DEF export_rsa_jwk
    <3>2. at = 1 \/ at = 2
      BY <1>1, <3>1
    <3>3. export_rsa_jwk[1] = Write(Jwk) /\ export_rsa_jwk[2] = Write(JwkEnv)
      BY DEF export_rsa_jwk
    <3> QED BY <1>3, <2>5, <3>1, <3>2, <3>3 DEF AtJwk, Here, Step
  <2>6. CASE part = L + 4
    <3>1. Steps[cmd][part] = secrets_env /\ Len(secrets_env) = 2
      BY <1>3, <2>6, Parts DEF secrets_env
    <3>2. at = 1 \/ at = 2
      BY <1>1, <3>1
    <3>3. secrets_env[1] = Guard("secrets") /\ secrets_env[2] = Write(Secrets)
      BY DEF secrets_env
    <3> QED BY <1>3, <2>6, <3>1, <3>2, <3>3 DEF AtSecrets, Here, Step
  <2>7. CASE part = L + 5
    <3>1. Steps[cmd][part] = render_realm /\ Len(render_realm) = 2
      BY <1>3, <2>7, Parts DEF render_realm
    <3>2. at = 1 \/ at = 2
      BY <1>1, <3>1
    <3>3. render_realm[1] = Write(Realm) /\ render_realm[2] = Write(DeckEnv)
      BY DEF render_realm
    <3> QED BY <1>3, <2>7, <3>1, <3>2, <3>3 DEF AtRealm, Here, Step
  <2>8. CASE part = L + 6
    <3> DEFINE s == <<safe_write(RuntimeEnv)>>
    <3>1. Steps[cmd][part] = s /\ Len(s) = 1 /\ s[1] = safe_write(RuntimeEnv)
      BY <1>3, <2>8, Parts
    <3> HIDE DEF s
    <3>2. at = 1
      BY <1>1, <3>1
    <3> QED BY <1>3, <2>8, <3>1, <3>2 DEF AtRuntime, Here, Step
  <2>9. CASE part = L + 7
    <3> DEFINE s == [k \in K |-> safe_write(Role(roles[k]))]
    <3>1. Steps[cmd][part] = s
      BY <1>3, <2>9, Parts
    <3>2. Len(s) = R /\ \A k \in K : s[k] = safe_write(Role(roles[k]))
      BY <2>0 DEF K
    <3> HIDE DEF s
    <3>3. at \in K
      BY <1>1, <2>0, <3>1, <3>2 DEF K
    <3>4. Step = safe_write(Role(roles[at])) /\ Len(Steps["assets"][L + 7]) = R
      BY <1>3, <2>9, <3>1, <3>2, <3>3 DEF Step
    <3> QED BY <1>3, <2>9, <3>3, <3>4 DEF AtRole, Here
  <2>10. CASE part = L + 8
    <3> DEFINE s == [k \in K |-> safe_write(RoleEnv(roles[k]))]
    <3>1. Steps[cmd][part] = s
      BY <1>3, <2>10, Parts
    <3>2. Len(s) = R /\ \A k \in K : s[k] = safe_write(RoleEnv(roles[k]))
      BY <2>0 DEF K
    <3> HIDE DEF s
    <3>3. at \in K
      BY <1>1, <2>0, <3>1, <3>2 DEF K
    <3>4. Step = safe_write(RoleEnv(roles[at])) /\ Len(Steps["assets"][L + 8]) = R
      BY <1>3, <2>10, <3>1, <3>2, <3>3 DEF Step
    <3> QED BY <1>3, <2>10, <3>3, <3>4 DEF AtRoleEnv, Here
  <2>11. CASE part = L + 9
    <3> DEFINE s == <<Write(Users)>>
    <3>1. Steps[cmd][part] = s /\ Len(s) = 1 /\ s[1] = Write(Users)
      BY <1>3, <2>11, Parts
    <3> HIDE DEF s
    <3>2. at = 1
      BY <1>1, <3>1
    <3> QED BY <1>3, <2>11, <3>1, <3>2 DEF AtUsers, Here, Step
  <2> QED BY <2>1, <2>2, <2>3, <2>4, <2>5, <2>6, <2>7, <2>8, <2>9, <2>10, <2>11
<1> QED BY <1>2, <1>3 DEF Types
-----------------------------------------------------------------------------
(***************************************************************************)
(* What a step writes, and where it stands in its command.                 *)
(***************************************************************************)
\* Files differ by their kind, or by the identity or role they belong to.
LEMMA Kinds ==
    /\ CaKey[1] = "ca.key" /\ CaCrt[1] = "ca.crt" /\ PkjKey[1] = "route-b-pkj.key" /\ PkjPub[1] = "route-b-pkj.pub"
    /\ Jwk[1] = "route-b-private.jwk" /\ JwkEnv[1] = "route-b-jwk.env" /\ Secrets[1] = "secrets.env"
    /\ Realm[1] = "realm.json" /\ DeckEnv[1] = "deck.env" /\ RuntimeEnv[1] = "runtime.env"
    /\ Users[1] = "demo-users.txt" /\ Manifest[1] = "gateway_targets.json"
    /\ \A k, n : Leaf(k, n)[1] = k /\ Leaf(k, n)[2] = n
    /\ \A r : Role(r)[1] = "role" /\ Role(r)[2] = r /\ RoleEnv(r)[1] = "env" /\ RoleEnv(r)[2] = r
BY DEF CaKey, CaCrt, PkjKey, PkjPub, Jwk, JwkEnv, Secrets, Realm, DeckEnv, RuntimeEnv, Users, Manifest, Single,
       Leaf, Role, RoleEnv

LEMMA FileSet ==
    /\ {CaKey, CaCrt, PkjKey, PkjPub, Jwk, JwkEnv, Secrets, Realm, DeckEnv, RuntimeEnv, Users, Manifest} \subseteq Files
    /\ \A n \in Names : /\ Leaf("key", n) \in Files /\ Leaf("csr", n) \in Files
                         /\ Leaf("ext", n) \in Files /\ Leaf("crt", n) \in Files
    /\ \A r \in Roles : Role(r) \in Files /\ RoleEnv(r) \in Files
<1>1. {CaKey, CaCrt, PkjKey, PkjPub, Jwk, JwkEnv, Secrets, Realm, DeckEnv, RuntimeEnv, Users, Manifest} \subseteq Files
  BY DEF Files
<1>2. \A n \in Names : \A k \in LeafKinds : Leaf(k, n) \in Files
  BY DEF Files
<1>3. \A r \in Roles : Role(r) \in Files /\ RoleEnv(r) \in Files
  BY DEF Files
<1> QED BY <1>1, <1>2, <1>3 DEF LeafKinds

\* Each file is written in one place, runtime.env in two; the request and the
\* extensions of an identity are also removed.
PlacedOnce(f) ==
    /\ f = CaKey => Here("assets", 1, 3, 2, Write(CaKey))
    /\ f = CaCrt => Here("assets", 1, 3, 3, Write(CaCrt))
    /\ f = PkjKey => Here("assets", L + 2, 3, 2, Write(PkjKey))
    /\ f = PkjPub => Here("assets", L + 2, 3, 3, Write(PkjPub))
    /\ f = Jwk => Here("assets", L + 3, 2, 1, Write(Jwk))
    /\ f = JwkEnv => Here("assets", L + 3, 2, 2, Write(JwkEnv))
    /\ f = Secrets => Here("assets", L + 4, 2, 2, Write(Secrets))
    /\ f = Realm => Here("assets", L + 5, 2, 1, Write(Realm))
    /\ f = DeckEnv => Here("assets", L + 5, 2, 2, Write(DeckEnv))
    /\ f = RuntimeEnv => AtRuntime \/ Here("env", 1, 2, 2, Write(RuntimeEnv))
    /\ f = Users => AtUsers
    /\ f = Manifest => Here("env", 1, 2, 1, Write(Manifest))
PlacedLeaf(f, i) ==
    LET n == identities[i]
    IN  /\ f = Leaf("key", n) => Here("assets", 1 + i, 7, 2, Write(f))
        /\ f = Leaf("csr", n) => Here("assets", 1 + i, 7, 3, Write(f)) \/ Here("assets", 1 + i, 7, 6, unlink(f))
        /\ f = Leaf("ext", n) => Here("assets", 1 + i, 7, 4, Write(f)) \/ Here("assets", 1 + i, 7, 7, unlink(f))
        /\ f = Leaf("crt", n) => Here("assets", 1 + i, 7, 5, Write(f))
PlacedRole(f, k) == (f = Role(roles[k]) => AtRole(k)) /\ (f = RoleEnv(roles[k]) => AtRoleEnv(k))

LEMMA Placed ==
    ASSUME Types, cmd # "none", part <= Len(Steps[cmd]), Step.do # "guard"
    PROVE  /\ Step.file \in Files
           /\ PlacedOnce(Step.file)
           /\ \A i \in I : PlacedLeaf(Step.file, i)
           /\ \A k \in K : PlacedRole(Step.file, k)
<1> USE Kinds, FileSet
<1>1. CASE AtEnv
  BY <1>1 DEF AtEnv, Here, Write, PlacedOnce, PlacedLeaf, PlacedRole
<1>2. CASE AtCa
  BY <1>2 DEF AtCa, Here, Write, Guard, PlacedOnce, PlacedLeaf, PlacedRole
<1>3. ASSUME NEW i \in I, AtLeaf(i)
      PROVE  /\ Step.file \in Files /\ PlacedOnce(Step.file)
             /\ \A j \in I : PlacedLeaf(Step.file, j)
             /\ \A k \in K : PlacedRole(Step.file, k)
  <2> DEFINE n == identities[i]
  <2>1. n \in Names /\ \A j \in I : identities[j] = n => j = i
    BY Constants
  <2> HIDE DEF n
  <2>2. \/ Here("assets", 1 + i, 7, 2, Write(Leaf("key", n))) /\ Step.file = Leaf("key", n)
        \/ Here("assets", 1 + i, 7, 3, Write(Leaf("csr", n))) /\ Step.file = Leaf("csr", n)
        \/ Here("assets", 1 + i, 7, 4, Write(Leaf("ext", n))) /\ Step.file = Leaf("ext", n)
        \/ Here("assets", 1 + i, 7, 5, Write(Leaf("crt", n))) /\ Step.file = Leaf("crt", n)
        \/ Here("assets", 1 + i, 7, 6, unlink(Leaf("csr", n))) /\ Step.file = Leaf("csr", n)
        \/ Here("assets", 1 + i, 7, 7, unlink(Leaf("ext", n))) /\ Step.file = Leaf("ext", n)
    BY <1>3 DEF AtLeaf, Here, Write, unlink, Guard, n
  <2>3. Step.file \in Files /\ PlacedOnce(Step.file)
    BY <2>1, <2>2 DEF PlacedOnce
  <2>4. \A k \in K : PlacedRole(Step.file, k)
    BY <2>2 DEF PlacedRole
  <2>5. ASSUME NEW j \in I PROVE PlacedLeaf(Step.file, j)
    <3>1. CASE identities[j] # n
      BY <2>2, <3>1 DEF PlacedLeaf
    <3>2. CASE identities[j] = n
      BY <2>1, <2>2, <3>2 DEF PlacedLeaf
    <3> QED BY <3>1, <3>2
  <2> QED BY <2>3, <2>4, <2>5
<1>4. CASE AtPkj
  BY <1>4 DEF AtPkj, Here, Write, Guard, PlacedOnce, PlacedLeaf, PlacedRole
<1>5. CASE AtJwk
  BY <1>5 DEF AtJwk, Here, Write, PlacedOnce, PlacedLeaf, PlacedRole
<1>6. CASE AtSecrets
  BY <1>6 DEF AtSecrets, Here, Write, Guard, PlacedOnce, PlacedLeaf, PlacedRole
<1>7. CASE AtRealm
  BY <1>7 DEF AtRealm, Here, Write, PlacedOnce, PlacedLeaf, PlacedRole
<1>8. CASE AtRuntime
  BY <1>8 DEF AtRuntime, Here, safe_write, PlacedOnce, PlacedLeaf, PlacedRole
<1>9. ASSUME NEW k \in K, AtRole(k)
      PROVE  /\ Step.file \in Files /\ PlacedOnce(Step.file)
             /\ \A i \in I : PlacedLeaf(Step.file, i)
             /\ \A l \in K : PlacedRole(Step.file, l)
  <2>1. roles[k] \in Roles /\ \A l \in K : roles[l] = roles[k] => l = k
    BY Constants
  <2>2. Step.file = Role(roles[k])
    BY <1>9 DEF AtRole, Here, safe_write
  <2>3. Step.file \in Files /\ PlacedOnce(Step.file) /\ \A i \in I : PlacedLeaf(Step.file, i)
    BY <2>1, <2>2 DEF PlacedOnce, PlacedLeaf
  <2> QED BY <1>9, <2>1, <2>2, <2>3 DEF PlacedRole
<1>10. ASSUME NEW k \in K, AtRoleEnv(k)
       PROVE  /\ Step.file \in Files /\ PlacedOnce(Step.file)
              /\ \A i \in I : PlacedLeaf(Step.file, i)
              /\ \A l \in K : PlacedRole(Step.file, l)
  <2>1. roles[k] \in Roles /\ \A l \in K : roles[l] = roles[k] => l = k
    BY Constants
  <2>2. Step.file = RoleEnv(roles[k])
    BY <1>10 DEF AtRoleEnv, Here, safe_write
  <2>3. Step.file \in Files /\ PlacedOnce(Step.file) /\ \A i \in I : PlacedLeaf(Step.file, i)
    BY <2>1, <2>2 DEF PlacedOnce, PlacedLeaf
  <2> QED BY <1>10, <2>1, <2>2, <2>3 DEF PlacedRole
<1>11. CASE AtUsers
  BY <1>11 DEF AtUsers, Here, Write, PlacedOnce, PlacedLeaf, PlacedRole
<1> QED BY <1>1, <1>2, <1>3, <1>4, <1>5, <1>6, <1>7, <1>8, <1>9, <1>10, <1>11, Where

\* A step changes at most the file of its place, by one of five actions.
LEMMA Wrote ==
    ASSUME Types, [Next]_vars, NEW f \in Files, disk'[f] # disk[f]
    PROVE  /\ cmd # "none" /\ part <= Len(Steps[cmd]) /\ f = Step.file /\ Step.do # "guard"
           /\ PlacedOnce(f) /\ (\A i \in I : PlacedLeaf(f, i)) /\ (\A k \in K : PlacedRole(f, k))
           /\ \/ Open /\ Step.do = "write" /\ disk'[f] = Cut
              \/ Fill /\ Step.do = "write" /\ opened # Absent /\ disk'[f] = opened
              \/ Replace /\ Step.do = "replace" /\ disk'[f] = Content(f)
              \/ Unlink /\ Step.do = "remove" /\ disk'[f] = Absent
              \/ Unusable /\ (f = DeckEnv \/ f = Users) /\ disk'[f] = Cut
           /\ \A g \in Files : g # f => disk'[g] = disk[g]
<1>1. disk = [g \in Files |-> disk[g]]
  BY DEF Types
<1>2. \/ Open \/ Fill \/ Replace \/ Unlink \/ Unusable
  BY DEF Next, vars, Start, Check, Ends, Stopped
<1>3. /\ cmd # "none" /\ part <= Len(Steps[cmd]) /\ f = Step.file /\ Step.do # "guard"
      /\ \/ Open /\ Step.do = "write" /\ disk'[f] = Cut
         \/ Fill /\ Step.do = "write" /\ opened # Absent /\ disk'[f] = opened
         \/ Replace /\ Step.do = "replace" /\ disk'[f] = Content(f)
         \/ Unlink /\ Step.do = "remove" /\ disk'[f] = Absent
         \/ Unusable /\ (f = DeckEnv \/ f = Users) /\ disk'[f] = Cut
      /\ \A g \in Files : g # f => disk'[g] = disk[g]
  <2>1. CASE Open
    BY <1>1, <2>1 DEF Open, Running
  <2>2. CASE Fill
    BY <1>1, <2>2 DEF Fill, Running
  <2>3. CASE Replace
    BY <1>1, <2>3 DEF Replace, Running
  <2>4. CASE Unlink
    BY <1>1, <2>4 DEF Unlink, Running
  <2>5. CASE Unusable
    BY <1>1, <2>5 DEF Unusable, Running
  <2> QED BY <1>2, <2>1, <2>2, <2>3, <2>4, <2>5
<1> QED BY <1>3, Placed
-----------------------------------------------------------------------------
(***************************************************************************)
(* What each file is rendered from, and what its rendering needs.          *)
(***************************************************************************)
Contents ==
    /\ \A f : Content(f).is = "whole"
    /\ Content(CaKey) = Text(made) /\ Content(PkjKey) = Text(made) /\ Content(Secrets) = Text(made)
    /\ Content(CaCrt) = Text([key |-> disk[CaKey]])
    /\ \A n \in Names :
         /\ Content(Leaf("key", n)) = Text(made)
         /\ Content(Leaf("csr", n)) = Text([key |-> disk[Leaf("key", n)]])
         /\ Content(Leaf("ext", n)) = Text("extensions")
         /\ Content(Leaf("crt", n)) = Text([key |-> disk[Leaf("csr", n)].of.key, ca |-> disk[CaCrt]])
    /\ Content(PkjPub) = Text([key |-> disk[PkjKey]])
    /\ Content(Jwk) = Text([key |-> disk[PkjKey]]) /\ Content(JwkEnv) = Text([key |-> disk[PkjKey]])
    /\ Content(Realm) = Text([users |-> disk[Secrets], pub |-> disk[PkjPub], kid |-> disk[JwkEnv]])
    /\ Content(DeckEnv) = Text([secrets |-> disk[Secrets], kid |-> disk[JwkEnv]])
    /\ Content(Users) = Text([users |-> disk[Secrets]])
    /\ \A r \in Roles :
         /\ Content(Role(r)) = Text([ca |-> disk[CaCrt], pair |-> Pairs(r)])
         /\ Content(RoleEnv(r)) = Text([keys |-> Keys(r),
                                        jwk |-> IF r = "third-party" THEN disk[Jwk] ELSE Absent])
    /\ Content(Manifest) = Text(Targets)
    /\ cmd = "assets" => Content(RuntimeEnv) = Text([admin |-> disk[Secrets], hosts |-> Absent])
    /\ cmd = "env" => Content(RuntimeEnv) = Text([admin |-> Kept, hosts |-> disk[Manifest]])

LEMMA RenderedFrom == Contents
<1> USE Kinds
<1>1. \A f : Content(f).is = "whole"
  BY DEF Content, Text
<1>2. /\ CaCrt \notin Fresh /\ PkjPub \notin Fresh /\ Jwk \notin Fresh /\ JwkEnv \notin Fresh /\ Realm \notin Fresh
      /\ DeckEnv \notin Fresh /\ Users \notin Fresh /\ Manifest \notin Fresh /\ RuntimeEnv \notin Fresh
      /\ \A r : Role(r) \notin Fresh /\ RoleEnv(r) \notin Fresh
      /\ \A n : Leaf("csr", n) \notin Fresh /\ Leaf("ext", n) \notin Fresh /\ Leaf("crt", n) \notin Fresh
  BY DEF Fresh
<1>3. CaKey \in Fresh /\ PkjKey \in Fresh /\ Secrets \in Fresh /\ \A n \in Names : Leaf("key", n) \in Fresh
  BY DEF Fresh
<1>4. /\ Content(CaKey) = Text(made) /\ Content(PkjKey) = Text(made) /\ Content(Secrets) = Text(made)
      /\ \A n \in Names : Content(Leaf("key", n)) = Text(made)
  BY <1>3 DEF Content
<1>5. Content(CaCrt) = Text([key |-> disk[CaKey]])
  BY <1>2 DEF Content
<1>6. \A n \in Names :
        /\ Content(Leaf("csr", n)) = Text([key |-> disk[Leaf("key", n)]])
        /\ Content(Leaf("ext", n)) = Text("extensions")
        /\ Content(Leaf("crt", n)) = Text([key |-> disk[Leaf("csr", n)].of.key, ca |-> disk[CaCrt]])
  BY <1>2 DEF Content
<1>7. /\ Content(PkjPub) = Text([key |-> disk[PkjKey]])
      /\ Content(Jwk) = Text([key |-> disk[PkjKey]]) /\ Content(JwkEnv) = Text([key |-> disk[PkjKey]])
  BY <1>2 DEF Content
<1>8. /\ Content(Realm) = Text([users |-> disk[Secrets], pub |-> disk[PkjPub], kid |-> disk[JwkEnv]])
      /\ Content(DeckEnv) = Text([secrets |-> disk[Secrets], kid |-> disk[JwkEnv]])
      /\ Content(Users) = Text([users |-> disk[Secrets]])
  BY <1>2 DEF Content
<1>9. ASSUME NEW r \in Roles
      PROVE  /\ Content(Role(r)) = Text([ca |-> disk[CaCrt], pair |-> Pairs(r)])
             /\ Content(RoleEnv(r)) = Text([keys |-> Keys(r),
                                            jwk |-> IF r = "third-party" THEN disk[Jwk] ELSE Absent])
  BY <1>2 DEF Content
<1>10. /\ Content(Manifest) = Text(Targets)
       /\ cmd = "assets" => Content(RuntimeEnv) = Text([admin |-> disk[Secrets], hosts |-> Absent])
       /\ cmd = "env" => Content(RuntimeEnv) = Text([admin |-> Kept, hosts |-> disk[Manifest]])
  <2>1. Content(Manifest) = Text(Targets)
    BY <1>2 DEF Content
  <2>2. Content(RuntimeEnv) = Text(IF cmd = "assets" THEN [admin |-> disk[Secrets], hosts |-> Absent]
                                   ELSE [admin |-> Kept, hosts |-> disk[Manifest]])
    BY <1>2 DEF Content
  <2> QED BY <2>1, <2>2
<1> QED BY <1>1, <1>4, <1>5, <1>6, <1>7, <1>8, <1>9, <1>10 DEF Contents

Needs ==
    /\ \A n \in Names :
         /\ Usable(Leaf("csr", n)) <=> Whole(Leaf("key", n))
         /\ Usable(Leaf("crt", n)) <=> /\ Whole(CaKey) /\ Whole(CaCrt)
                                       /\ Whole(Leaf("csr", n)) /\ Whole(Leaf("ext", n))
         /\ Usable(Leaf("key", n)) /\ Usable(Leaf("ext", n))
    /\ Usable(CaKey) /\ Usable(CaCrt) /\ Usable(PkjKey) /\ Usable(Secrets) /\ Usable(Manifest)
    /\ Usable(PkjPub) <=> Whole(PkjKey)
    /\ Usable(Jwk) <=> Whole(PkjKey)
    /\ Usable(JwkEnv) <=> Whole(PkjKey)
    /\ Usable(Realm) <=> exists(PkjPub) /\ Whole(JwkEnv)
    /\ Usable(DeckEnv) <=> Whole(Secrets) /\ Whole(JwkEnv)
    /\ Usable(Users) <=> Whole(Secrets)
    /\ Usable(RuntimeEnv) <=> (cmd = "assets" => Whole(Secrets) /\ Whole(Jwk))

LEMMA NeededFor == Needs
<1> USE Kinds
<1>1. \A n \in Names :
        /\ Inputs(Leaf("csr", n)) = {Leaf("key", n)} /\ Inputs(Leaf("key", n)) = {} /\ Inputs(Leaf("ext", n)) = {}
        /\ Inputs(Leaf("crt", n)) = {CaKey, CaCrt, Leaf("csr", n), Leaf("ext", n)}
        /\ Leaf("csr", n) # Realm /\ Leaf("key", n) # Realm /\ Leaf("ext", n) # Realm /\ Leaf("crt", n) # Realm
  BY DEF Inputs
<1>2. /\ Inputs(CaKey) = {} /\ Inputs(CaCrt) = {} /\ Inputs(PkjKey) = {} /\ Inputs(Secrets) = {}
      /\ Inputs(Manifest) = {} /\ Inputs(Realm) = {}
  BY DEF Inputs
<1>3. Inputs(PkjPub) = {PkjKey} /\ Inputs(Jwk) = {PkjKey} /\ Inputs(JwkEnv) = {PkjKey}
  BY DEF Inputs
<1>4. Inputs(DeckEnv) = {Secrets, JwkEnv} /\ Inputs(Users) = {Secrets}
  BY DEF Inputs
<1>5. Inputs(RuntimeEnv) = IF cmd = "assets" THEN {Secrets, Jwk} ELSE {}
  BY DEF Inputs
<1>6. /\ CaKey # Realm /\ CaCrt # Realm /\ PkjKey # Realm /\ Secrets # Realm /\ Manifest # Realm /\ PkjPub # Realm
      /\ Jwk # Realm /\ JwkEnv # Realm /\ DeckEnv # Realm /\ Users # Realm /\ RuntimeEnv # Realm
  OBVIOUS
<1>7. \A n \in Names :
         /\ Usable(Leaf("csr", n)) <=> Whole(Leaf("key", n))
         /\ Usable(Leaf("crt", n)) <=> /\ Whole(CaKey) /\ Whole(CaCrt)
                                       /\ Whole(Leaf("csr", n)) /\ Whole(Leaf("ext", n))
         /\ Usable(Leaf("key", n)) /\ Usable(Leaf("ext", n))
  <2>1. \A n \in Names : (Usable(Leaf("csr", n)) <=> Whole(Leaf("key", n))) /\ Usable(Leaf("key", n)) /\ Usable(Leaf("ext", n))
    BY <1>1 DEF Usable
  <2>2. \A n \in Names : Usable(Leaf("crt", n)) <=> /\ Whole(CaKey) /\ Whole(CaCrt)
                                                   /\ Whole(Leaf("csr", n)) /\ Whole(Leaf("ext", n))
    BY <1>1 DEF Usable
  <2> QED BY <2>1, <2>2
<1>8. /\ Usable(CaKey) /\ Usable(CaCrt) /\ Usable(PkjKey) /\ Usable(Secrets) /\ Usable(Manifest)
      /\ Usable(PkjPub) <=> Whole(PkjKey)
      /\ Usable(Jwk) <=> Whole(PkjKey)
      /\ Usable(JwkEnv) <=> Whole(PkjKey)
  BY <1>2, <1>3, <1>6 DEF Usable
<1>9. /\ Usable(Realm) <=> exists(PkjPub) /\ Whole(JwkEnv)
      /\ Usable(DeckEnv) <=> Whole(Secrets) /\ Whole(JwkEnv)
      /\ Usable(Users) <=> Whole(Secrets)
      /\ Usable(RuntimeEnv) <=> (cmd = "assets" => Whole(Secrets) /\ Whole(Jwk))
  BY <1>2, <1>4, <1>5, <1>6 DEF Usable
<1> QED BY <1>7, <1>8, <1>9 DEF Needs

LEMMA NextRendered == Contents' /\ Needs'
BY RenderedFrom, NeededFor, PTL
-----------------------------------------------------------------------------
(***************************************************************************)
(* Types, and the files that are kept.                                     *)
(***************************************************************************)
LEMMA NoEmptyPart ==
    ASSUME NEW c \in {"assets", "env"}, NEW p \in Nat, p >= 1, p <= Len(Steps[c])
    PROVE  Len(Steps[c][p]) \in Nat /\ Len(Steps[c][p]) >= 1
<1>1. CASE c = "env"
  BY <1>1, EnvParts
<1>2. CASE c = "assets"
  <2>0. L \in Nat /\ R \in Nat \ {0}
    BY Constants
  <2>1. \/ p = 1 \/ (\E i \in I : p = 1 + i) \/ p = L + 2 \/ p = L + 3 \/ p = L + 4 \/ p = L + 5
        \/ p = L + 6 \/ p = L + 7 \/ p = L + 8 \/ p = L + 9
    <3>1. p <= L + 9
      BY <1>2, Parts
    <3>2. p > 1 /\ p <= L + 1 => p - 1 \in I /\ p = 1 + (p - 1)
      BY <2>0 DEF I
    <3> QED BY <2>0, <3>1, <3>2
  <2>2. Len(ensure_ca) = 3 /\ Len(route_b_pkj) = 3 /\ Len(export_rsa_jwk) = 2 /\ Len(secrets_env) = 2 /\ Len(render_realm) = 2
    BY DEF ensure_ca, route_b_pkj, export_rsa_jwk, secrets_env, render_realm
  <2>3. Len(<<safe_write(RuntimeEnv)>>) = 1 /\ Len(<<Write(Users)>>) = 1 /\ \A n : Len(issue(n)) = 7
    BY DEF issue
  <2>4. Len([k \in K |-> safe_write(Role(roles[k]))]) = R /\ Len([k \in K |-> safe_write(RoleEnv(roles[k]))]) = R
    BY <2>0 DEF K
  <2>5. p \in {1, L + 2, L + 3, L + 4, L + 5} \/ (\E i \in I : p = 1 + i) => Len(Steps["assets"][p]) \in {2, 3, 7}
    <3>1. (p = 1 \/ p = L + 2) => Len(Steps["assets"][p]) = 3
      BY <2>2, Parts
    <3>2. (p = L + 3 \/ p = L + 4 \/ p = L + 5) => Len(Steps["assets"][p]) = 2
      BY <2>2, Parts
    <3>3. ASSUME NEW i \in I, p = 1 + i PROVE Len(Steps["assets"][p]) = 7
      <4>1. Steps["assets"][1 + i] = issue(identities[i])
        BY Parts, Zenon
      <4> QED BY <2>3, <3>3, <4>1
    <3> QED BY <3>1, <3>2, <3>3
  <2>6. p \in {L + 6, L + 9} => Len(Steps["assets"][p]) = 1
    BY <2>3, Parts
  <2>7. p \in {L + 7, L + 8} => Len(Steps["assets"][p]) = R
    BY <2>4, Parts
  <2>8. Len(Steps["assets"][p]) \in {1, 2, 3, 7, R}
    BY <2>1, <2>5, <2>6, <2>7
  <2> DEFINE z == Len(Steps["assets"][p])
  <2>9. z = 1 \/ z = 2 \/ z = 3 \/ z = 7 \/ z = R
    BY <2>8
  <2>10. z = Len(Steps[c][p])
    BY <1>2
  <2> HIDE DEF z
  <2>11. z \in Nat /\ z >= 1
    BY <2>0, <2>9
  <2> QED BY <2>10, <2>11
<1> QED BY <1>1, <1>2

LEMMA AdvanceTypes ==
    ASSUME Types, cmd # "none", part <= Len(Steps[cmd]), Advance \/ SkipPart, UNCHANGED <<cmd, done>>
    PROVE  /\ part' \in Nat /\ at' \in Nat /\ part' >= 1 /\ at' >= 1 /\ done' = "none"
           /\ part' <= Len(Steps[cmd']) => at' <= Len(Steps[cmd'][part'])
<1>1. /\ cmd \in {"assets", "env"} /\ part \in Nat /\ at \in Nat /\ part >= 1 /\ at >= 1
      /\ at <= Len(Steps[cmd][part]) /\ done = "none"
  BY DEF Types
<1>2. CASE SkipPart
  BY <1>1, <1>2, NoEmptyPart DEF SkipPart
<1>3. CASE Advance
  <2>1. Len(Steps[cmd][part]) \in Nat
    BY <1>1, NoEmptyPart
  <2>2. CASE at < Len(Steps[cmd][part])
    BY <1>1, <1>3, <2>1, <2>2 DEF Advance
  <2>3. CASE ~(at < Len(Steps[cmd][part]))
    BY <1>2, <1>3, <2>3 DEF Advance
  <2> QED BY <2>2, <2>3
<1> QED BY <1>2, <1>3

LEMMA TypesStep ==
    ASSUME Types, Opened, [Next]_vars
    PROVE  Types'
<1>1. disk' = [f \in Files |-> disk'[f]]
  BY DEF Types, Next, vars, Start, Check, Ends, Stopped, Open, Fill, Replace, Unlink, Unusable
<1>2. /\ made \in Nat /\ runs \in Nat /\ stops \in Nat /\ halved \subseteq Files /\ part \in Nat /\ at \in Nat
      /\ cmd \in {"none", "assets", "env"} /\ done \in {"none", "assets", "env"}
  BY DEF Types
<1>3. ASSUME NEW c \in {"assets", "env"}, Start(c) PROVE Types'
  <2>1. 1 <= Len(Steps[c]) => 1 <= Len(Steps[c][1])
    BY NoEmptyPart
  <2> QED BY <1>1, <1>2, <1>3, <2>1 DEF Start, Types
<1>4. CASE Check
  <2>1. cmd # "none" /\ part <= Len(Steps[cmd]) /\ UNCHANGED <<disk, made, runs, stops, done, halved>>
    BY <1>4 DEF Check, Running
  <2>2. Fail \/ ((Advance \/ SkipPart) /\ UNCHANGED cmd)
    BY <1>4 DEF Check
  <2>3. CASE Fail
    BY <1>1, <1>2, <2>1, <2>3 DEF Types, Fail
  <2>4. CASE (Advance \/ SkipPart) /\ UNCHANGED cmd
    BY <1>1, <1>2, <2>1, <2>4, AdvanceTypes DEF Types
  <2> QED BY <2>2, <2>3, <2>4
<1>5. CASE Open
  BY <1>1, <1>5 DEF Open, Types
<1>6. CASE Fill
  <2>1. /\ cmd # "none" /\ part <= Len(Steps[cmd]) /\ UNCHANGED <<cmd, runs, stops, done, halved>> /\ Advance
        /\ made' \in Nat
    BY <1>2, <1>6 DEF Fill, Running
  <2> QED BY <1>1, <1>2, <2>1, AdvanceTypes DEF Types
<1>7. CASE Replace \/ Unlink
  <2>1. /\ cmd # "none" /\ part <= Len(Steps[cmd]) /\ UNCHANGED <<cmd, made, runs, stops, done>> /\ Advance
        /\ halved' \subseteq Files
    BY <1>2, <1>7 DEF Replace, Unlink, Running
  <2> QED BY <1>1, <1>2, <2>1, AdvanceTypes DEF Types
<1>8. CASE Unusable
  BY <1>1, <1>2, <1>8 DEF Unusable, Fail, Types
<1>9. CASE Ends
  BY <1>1, <1>2, <1>9 DEF Ends, Types
<1>10. CASE UNCHANGED vars
  BY <1>10 DEF vars, Types
<1>11. CASE Stopped
  <2>1. /\ UNCHANGED <<disk, made, runs, done>> /\ Fail /\ stops' \in Nat /\ cmd # "none"
        /\ halved' = halved \/ (opened # Absent /\ halved' = halved \cup {Step.file})
    BY <1>2, <1>11 DEF Stopped
  <2>2. opened # Absent => Step.file \in Files
    BY <2>1, Placed DEF Opened
  <2> QED BY <1>1, <1>2, <2>1, <2>2 DEF Types, Fail
<1> QED BY <1>3, <1>4, <1>5, <1>6, <1>7, <1>8, <1>9, <1>10, <1>11 DEF Next

LEMMA ShapesStep ==
    ASSUME Types, Shapes, [Next]_vars
    PROVE  Shapes'
<1>1. \A f : Content(f) = Text(Content(f).of)
  BY DEF Content, Text
<1>2. \A f \in Files : disk'[f] = disk[f] \/ disk'[f] = Absent \/ disk'[f] = Cut \/ disk'[f] = opened \/ disk'[f] = Content(f)
  BY Wrote
<1>3. ASSUME NEW f \in Files PROVE disk'[f] = Absent \/ disk'[f] = Cut \/ disk'[f] = Text(disk'[f].of)
  BY <1>1, <1>2 DEF Shapes
<1>4. opened' = Absent \/ opened' = opened \/ opened' = Content(Step.file)
  BY DEF Next, vars, Start, Check, Fail, Open, Fill, Replace, Unlink, Unusable, Ends, Stopped
<1>5. opened' = Absent \/ opened' = Text(opened'.of)
  BY <1>1, <1>4 DEF Shapes
<1> QED BY <1>3, <1>5 DEF Shapes

\* No key, certificate or password that is whole is written again.
LEMMA KeptStep ==
    ASSUME Types, Opened, Inside, [Next]_vars, NEW f \in Private, Whole(f)
    PROVE  disk'[f] = disk[f]
<1> SUFFICES ASSUME disk'[f] # disk[f] PROVE FALSE
  OBVIOUS
<1>1. /\ f \in {CaKey, CaCrt, PkjKey, Secrets} \/ \E n \in Names : f = Leaf("key", n) \/ f = Leaf("crt", n)
  BY DEF Private, Fresh
<1>2. f \in Files
  BY <1>1, FileSet
<1>3. \A n \in Names : \E i \in I : identities[i] = n
  BY Constants
<1>4. Step.do = "write" /\ disk[Step.file].is = "whole" /\ f = Step.file
  <2>1. f = Step.file /\ (Step.do = "write" \/ Step.do = "replace" \/ Step.do = "remove" \/ f = DeckEnv \/ f = Users)
        /\ PlacedOnce(f) /\ (\A i \in I : PlacedLeaf(f, i))
    BY <1>2, Wrote
  <2>2. Step.do = "write"
    <3>1. CASE f \in {CaKey, CaCrt, PkjKey, Secrets}
      BY <2>1, <3>1 DEF PlacedOnce, Here, Write
    <3>2. CASE \E n \in Names : f = Leaf("key", n) \/ f = Leaf("crt", n)
      <4>1. PICK i \in I : f = Leaf("key", identities[i]) \/ f = Leaf("crt", identities[i])
        BY <1>3, <3>2
      <4> QED BY <2>1, <4>1 DEF PlacedLeaf, Here, Write
    <3> QED BY <1>1, <3>1, <3>2
  <2> QED BY <2>1, <2>2 DEF Whole
<1>5. Open
  <2>1. \/ Open \/ (Fill /\ opened # Absent) \/ (Replace /\ Step.do = "replace") \/ (Unlink /\ Step.do = "remove")
        \/ (Unusable /\ (f = DeckEnv \/ f = Users))
    BY <1>2, Wrote
  <2>2. opened # Absent => disk[Step.file].is = "cut"
    BY DEF Opened, Cut
  <2>3. f # DeckEnv /\ f # Users
    BY <1>1, Kinds
  <2> QED BY <1>4, <2>1, <2>2, <2>3
<1>6. PlacedOnce(f) /\ \A i \in I : PlacedLeaf(f, i)
  BY <1>2, Wrote
<1>7. CASE f \in {CaKey, CaCrt, PkjKey, Secrets}
  BY <1>6, <1>7 DEF PlacedOnce, Here, Inside, InsideCa, InsidePkj, InsideSecrets
<1>8. CASE \E n \in Names : f = Leaf("key", n) \/ f = Leaf("crt", n)
  <2>1. PICK i \in I : f = Leaf("key", identities[i]) \/ f = Leaf("crt", identities[i])
    BY <1>3, <1>8
  <2>2. /\ cmd = "assets" /\ part = 1 + i
        /\ \/ at = 2 /\ f = Leaf("key", identities[i])
           \/ at = 5 /\ f = Leaf("crt", identities[i])
    BY <1>6, <2>1 DEF PlacedLeaf, Here
  <2>3. InsideLeaf(i)
    BY DEF Inside
  <2> QED BY <2>2, <2>3 DEF InsideLeaf
<1> QED BY <1>1, <1>7, <1>8

\* A write cuts its file, or fills it with what follows from its inputs.
LEMMA Written ==
    ASSUME IInv, [Next]_vars, NEW f \in Files, disk'[f] # disk[f], Step.do = "write", f # DeckEnv, f # Users
    PROVE  \/ Open /\ disk'[f] = Cut /\ Usable(f)
           \/ /\ Fill /\ disk[f] = Cut /\ Usable(f) /\ disk'[f].is = "whole"
              /\ f # RuntimeEnv => disk'[f] = Content(f)
<1>1. /\ f = Step.file
      /\ (Open /\ disk'[f] = Cut) \/ (Fill /\ opened # Absent /\ disk'[f] = opened)
  BY Wrote DEF IInv
<1>2. Open => Usable(f)
  BY <1>1 DEF Open
<1>3. opened # Absent => /\ disk[f] = Cut /\ Usable(f) /\ opened.is = "whole"
                         /\ f # RuntimeEnv => opened = Content(f)
  BY <1>1 DEF IInv, Opened
<1> QED BY <1>1, <1>2, <1>3

\* The same for the other two outputs: a refused step cuts them too.
LEMMA WrittenPlain ==
    ASSUME IInv, [Next]_vars, NEW f \in {DeckEnv, Users}, disk'[f] # disk[f]
    PROVE  (Open /\ disk'[f] = Cut) \/ (Unusable /\ disk'[f] = Cut) \/ (Fill /\ Usable(f) /\ disk'[f] = Content(f))
<1>1. f \in Files /\ f # RuntimeEnv
  BY FileSet, Kinds
<1>2. Step.do = "write" /\ f = Step.file
  BY <1>1, Wrote DEF IInv, PlacedOnce, Here, Write, AtUsers
<1>3. (Open /\ disk'[f] = Cut) \/ (Unusable /\ disk'[f] = Cut) \/ (Fill /\ opened # Absent /\ disk'[f] = opened)
  BY <1>1, <1>2, Wrote DEF IInv
<1> QED BY <1>1, <1>2, <1>3 DEF IInv, Opened

LEMMA Private1 ==
    /\ CaKey \in Private /\ CaCrt \in Private /\ PkjKey \in Private /\ Secrets \in Private
    /\ \A n \in Names : Leaf("key", n) \in Private /\ Leaf("crt", n) \in Private
BY DEF Private, Fresh

\* What is whole among them stays as it is.
LEMMA Keeps ==
    ASSUME IInv, [Next]_vars
    PROVE  /\ Whole(CaKey) => disk'[CaKey] = disk[CaKey]
           /\ Whole(CaCrt) => disk'[CaCrt] = disk[CaCrt]
           /\ Whole(PkjKey) => disk'[PkjKey] = disk[PkjKey]
           /\ Whole(Secrets) => disk'[Secrets] = disk[Secrets]
           /\ \A n \in Names : /\ Whole(Leaf("key", n)) => disk'[Leaf("key", n)] = disk[Leaf("key", n)]
                               /\ Whole(Leaf("crt", n)) => disk'[Leaf("crt", n)] = disk[Leaf("crt", n)]
<1>1. \A f \in Private : Whole(f) => disk'[f] = disk[f]
  BY KeptStep DEF IInv
<1> QED BY <1>1, Private1

\* What the steps of an identity's part find.
LEMMA LeafPart ==
    ASSUME IInv, NEW i \in I, cmd = "assets", part = 1 + i, NEW n, n = identities[i]
    PROVE  /\ at = 2 => ~Whole(Leaf("key", n)) /\ ~exists(Leaf("crt", n))
           /\ at = 3 => Whole(Leaf("key", n)) /\ ~exists(Leaf("crt", n))
           /\ at = 4 => Whole(Leaf("key", n)) /\ ~exists(Leaf("crt", n)) /\ Requested(n)
           /\ at = 5 => Whole(Leaf("key", n)) /\ ~Whole(Leaf("crt", n)) /\ Requested(n) /\ exists(Leaf("ext", n))
           /\ at = 6 => Matches(n) /\ Requested(n) /\ exists(Leaf("ext", n))
           /\ at = 7 => Matches(n) /\ ~exists(Leaf("csr", n)) /\ exists(Leaf("ext", n))
BY DEF IInv, Inside, InsideLeaf

LEMMA RequestedIsWhole ==
    ASSUME NEW n, Requested(n)
    PROVE  Whole(Leaf("csr", n)) /\ exists(Leaf("csr", n)) /\ disk[Leaf("csr", n)].of.key = disk[Leaf("key", n)]
BY DEF Requested, Text, Whole, exists

LEMMA CaFitsStep ==
    ASSUME IInv, [Next]_vars
    PROVE  CaFits'
<1> SUFFICES ASSUME Whole(CaCrt)' PROVE Whole(CaKey)' /\ disk'[CaCrt] = Text([key |-> disk'[CaKey]])
  BY DEF CaFits
<1>0. CaCrt \in Files /\ CaKey \in Files /\ CaCrt # CaKey /\ CaCrt # RuntimeEnv /\ CaCrt # DeckEnv /\ CaCrt # Users
  BY FileSet, Kinds
<1>1. CASE disk'[CaCrt] = disk[CaCrt]
  BY <1>1, Keeps DEF IInv, Fits, CaFits, Whole
<1>2. CASE disk'[CaCrt] # disk[CaCrt]
  <2>1. /\ Here("assets", 1, 3, 3, Write(CaCrt)) /\ disk'[CaKey] = disk[CaKey]
    BY <1>0, <1>2, Wrote DEF IInv, PlacedOnce
  <2>2. Whole(CaKey) /\ Step.do = "write"
    BY <2>1 DEF IInv, Inside, InsideCa, Here, Write
  <2>3. disk'[CaCrt] = Content(CaCrt)
    BY <1>0, <1>2, <2>2, Written DEF Whole, Cut
  <2> QED BY <2>1, <2>2, <2>3, RenderedFrom DEF Contents, Whole
<1> QED BY <1>1, <1>2

\* An identity that a run accepts as complete is never touched again.
LEMMA AcceptedKept ==
    ASSUME IInv, [Next]_vars, NEW n \in Names, LeafAccepted(n)
    PROVE  /\ LeafAccepted(n)' /\ Matches(n) /\ Matches(n)'
           /\ disk'[Leaf("key", n)] = disk[Leaf("key", n)] /\ disk'[Leaf("crt", n)] = disk[Leaf("crt", n)]
           /\ Whole(CaCrt) /\ disk'[CaCrt] = disk[CaCrt]
<1>0. PICK i \in I : identities[i] = n
  BY Constants
<1>1. Leaf("csr", n) \in Files /\ Leaf("ext", n) \in Files
  BY FileSet
<1>2. Matches(n) /\ Whole(CaCrt)
  BY DEF IInv, Fits, LeafFits, LeafAccepted
<1>3. /\ disk'[Leaf("key", n)] = disk[Leaf("key", n)] /\ disk'[Leaf("crt", n)] = disk[Leaf("crt", n)]
      /\ disk'[CaCrt] = disk[CaCrt]
  BY <1>2, Keeps DEF Matches
<1>5. disk'[Leaf("csr", n)] = disk[Leaf("csr", n)]
  <2> SUFFICES ASSUME disk'[Leaf("csr", n)] # disk[Leaf("csr", n)] PROVE FALSE
    OBVIOUS
  <2>1. cmd = "assets" /\ part = 1 + i /\ (at = 3 \/ at = 6)
    BY <1>0, <1>1, Wrote DEF IInv, PlacedLeaf, Here
  <2> QED BY <1>0, <2>1, LeafPart, RequestedIsWhole DEF LeafAccepted
<1>6. disk'[Leaf("ext", n)] = disk[Leaf("ext", n)]
  <2> SUFFICES ASSUME disk'[Leaf("ext", n)] # disk[Leaf("ext", n)] PROVE FALSE
    OBVIOUS
  <2>1. cmd = "assets" /\ part = 1 + i /\ (at = 4 \/ at = 7)
    BY <1>0, <1>1, Wrote DEF IInv, PlacedLeaf, Here
  <2> QED BY <1>0, <2>1, LeafPart, RequestedIsWhole DEF LeafAccepted
<1> QED BY <1>2, <1>3, <1>5, <1>6 DEF LeafAccepted, Matches, exists, Whole

LEMMA LeafFitsStep ==
    ASSUME IInv, [Next]_vars, NEW n \in Names
    PROVE  LeafFits(n)'
<1> SUFFICES ASSUME exists(Leaf("crt", n))'
             PROVE  /\ Whole(CaCrt)' /\ Whole(Leaf("key", n))'
                    /\ Matches(n)' \/ (exists(Leaf("csr", n))' /\ exists(Leaf("ext", n))')
  BY DEF LeafFits
<1>0. PICK i \in I : identities[i] = n
  BY Constants
<1>1. /\ Leaf("csr", n) \in Files /\ Leaf("ext", n) \in Files /\ Leaf("crt", n) \in Files /\ Leaf("key", n) \in Files
      /\ CaCrt \in Files
  BY FileSet
<1>2. CASE exists(Leaf("crt", n))
  <2>1. /\ Whole(CaCrt) /\ Whole(Leaf("key", n))
        /\ Matches(n) \/ (exists(Leaf("csr", n)) /\ exists(Leaf("ext", n)))
    BY <1>2 DEF IInv, Fits, LeafFits
  <2>2. disk'[CaCrt] = disk[CaCrt] /\ disk'[Leaf("key", n)] = disk[Leaf("key", n)]
    BY <2>1, Keeps
  <2>3. Matches(n) => Matches(n)'
    BY <2>2, Keeps DEF Matches, Whole
  <2>4. ASSUME ~Matches(n) PROVE exists(Leaf("csr", n))' /\ exists(Leaf("ext", n))'
    <3>1. disk'[Leaf("csr", n)] = disk[Leaf("csr", n)]
      <4> SUFFICES ASSUME disk'[Leaf("csr", n)] # disk[Leaf("csr", n)] PROVE FALSE
        OBVIOUS
      <4>1. cmd = "assets" /\ part = 1 + i /\ (at = 3 \/ at = 6)
        BY <1>0, <1>1, Wrote DEF IInv, PlacedLeaf, Here
      <4> QED BY <1>0, <1>2, <2>4, <4>1, LeafPart
    <3>2. disk'[Leaf("ext", n)] = disk[Leaf("ext", n)]
      <4> SUFFICES ASSUME disk'[Leaf("ext", n)] # disk[Leaf("ext", n)] PROVE FALSE
        OBVIOUS
      <4>1. cmd = "assets" /\ part = 1 + i /\ (at = 4 \/ at = 7)
        BY <1>0, <1>1, Wrote DEF IInv, PlacedLeaf, Here
      <4> QED BY <1>0, <1>2, <2>4, <4>1, LeafPart
    <3> QED BY <2>1, <2>4, <3>1, <3>2 DEF exists
  <2> QED BY <2>1, <2>2, <2>3, <2>4 DEF Whole
<1>3. CASE ~exists(Leaf("crt", n))
  <2>1. disk'[Leaf("crt", n)] # disk[Leaf("crt", n)]
    BY <1>3 DEF exists
  <2>2. /\ Here("assets", 1 + i, 7, 5, Write(Leaf("crt", n)))
        /\ \A g \in Files : g # Leaf("crt", n) => disk'[g] = disk[g]
    BY <1>0, <1>1, <2>1, Wrote DEF IInv, PlacedLeaf
  <2>3. Step.do = "write" /\ Leaf("crt", n) # DeckEnv /\ Leaf("crt", n) # Users
    BY <2>2, Kinds DEF Here, Write
  <2>4. Usable(Leaf("crt", n))
    BY <1>1, <2>1, <2>3, Written
  <2>5. Whole(CaCrt) /\ Whole(Leaf("csr", n)) /\ Whole(Leaf("ext", n))
    BY <2>4, NeededFor DEF Needs
  <2>6. Whole(Leaf("key", n))
    BY <1>0, <2>2, LeafPart DEF Here
  <2>7. CaCrt # Leaf("crt", n) /\ \A k \in {"key", "csr", "ext"} : Leaf(k, n) # Leaf("crt", n)
    BY Kinds
  <2> QED BY <1>1, <2>2, <2>5, <2>6, <2>7 DEF Whole, exists
<1> QED BY <1>2, <1>3

LEMMA PubFitsStep ==
    ASSUME IInv, [Next]_vars
    PROVE  PubFits'
<1> SUFFICES ASSUME exists(PkjPub)'
             PROVE  /\ Whole(PkjKey)'
                    /\ \/ disk'[PkjPub] = Text([key |-> disk'[PkjKey]])
                       \/ /\ disk'[PkjPub] = Cut
                          /\ PkjPub \in halved' \/ (cmd' = "assets" /\ part' = L + 2 /\ opened' # Absent)
  BY DEF PubFits
<1>0. PkjPub \in Files /\ PkjKey \in Files /\ PkjPub # PkjKey /\ PkjPub # RuntimeEnv /\ PkjPub # DeckEnv /\ PkjPub # Users
  BY FileSet, Kinds
<1>1. CASE disk'[PkjPub] # disk[PkjPub]
  <2>1. Here("assets", L + 2, 3, 3, Write(PkjPub)) /\ disk'[PkjKey] = disk[PkjKey] /\ Step.file = PkjPub
    BY <1>0, <1>1, Wrote DEF IInv, PlacedOnce
  <2>2. Step.do = "write" /\ cmd = "assets" /\ part = L + 2
    BY <2>1 DEF Here, Write
  <2>3. Whole(PkjKey)
    BY <1>0, <1>1, <2>2, Written, NeededFor DEF Needs
  <2>4. (Open /\ disk'[PkjPub] = Cut) \/ (Fill /\ disk'[PkjPub] = Content(PkjPub))
    BY <1>0, <1>1, <2>2, Written
  <2>5. CASE Open /\ disk'[PkjPub] = Cut
    <3>1. opened'.is = "whole" /\ cmd' = cmd /\ part' = part
      BY <2>1, <2>5, RenderedFrom DEF Open, Contents
    <3> QED BY <2>1, <2>2, <2>3, <2>5, <3>1 DEF Whole, Absent
  <2>6. CASE Fill /\ disk'[PkjPub] = Content(PkjPub)
    BY <2>1, <2>3, <2>6, RenderedFrom DEF Contents, Whole
  <2> QED BY <2>4, <2>5, <2>6
<1>2. CASE disk'[PkjPub] = disk[PkjPub]
  <2>1. /\ Whole(PkjKey)
        /\ \/ disk[PkjPub] = Text([key |-> disk[PkjKey]])
           \/ disk[PkjPub] = Cut /\ (PkjPub \in halved \/ (cmd = "assets" /\ part = L + 2 /\ opened # Absent))
    BY <1>2 DEF IInv, Fits, PubFits, exists
  <2>2. disk'[PkjKey] = disk[PkjKey]
    BY <2>1, Keeps
  <2>3. ASSUME PkjPub \in halved PROVE PkjPub \in halved'
    <3>1. CASE Replace
      <4>1. cmd # "none" /\ part <= Len(Steps[cmd]) /\ Step.do = "replace" /\ halved' = halved \ {Step.file}
        BY <3>1 DEF Replace, Running
      <4>2. Step.file # PkjPub
        BY <4>1, Placed DEF IInv, PlacedOnce, Here, Write
      <4> QED BY <2>3, <4>1, <4>2
    <3>2. CASE ~Replace
      BY <2>3, <3>2 DEF Next, vars, Start, Check, Open, Fill, Unlink, Unusable, Ends, Stopped
    <3> QED BY <3>1, <3>2
  <2>4. ASSUME cmd = "assets", part = L + 2, opened # Absent, disk[PkjPub] = Cut
        PROVE  PkjPub \in halved' \/ (cmd' = "assets" /\ part' = L + 2 /\ opened' # Absent)
    <3>1. part <= Len(Steps[cmd]) /\ Step.do = "write" /\ cmd # "none"
      BY <2>4 DEF IInv, Opened
    <3>2. L \in Nat /\ Len(Steps["assets"]) = L + 9
      BY Constants, Parts
    <3>3. at # 2
      BY <2>1, <2>4 DEF IInv, Inside, InsidePkj
    <3>4. Step.file = PkjPub
      <4>1. AtPkj
        BY <2>4, <3>1, <3>2, Where
           DEF IInv, AtEnv, AtCa, AtLeaf, AtJwk, AtSecrets, AtRealm, AtRuntime, AtRole, AtRoleEnv, AtUsers, Here, I
      <4> QED BY <3>1, <3>3, <4>1 DEF AtPkj, Here, Write, Guard
    <3>5. Stopped \/ UNCHANGED vars
      <4>1. ~Fill
        <5>1. opened = Content(PkjPub)
          BY <1>0, <2>4, <3>4 DEF IInv, Opened
        <5>2. opened.is = "whole" /\ disk[PkjPub].is = "cut"
          BY <2>4, <5>1, RenderedFrom DEF Contents, Cut
        <5>3. Fill => disk'[PkjPub] = opened
          BY <1>0, <3>4 DEF Fill, IInv, Types
        <5> QED BY <1>2, <5>2, <5>3
      <4> QED BY <2>4, <3>1, <3>2, <4>1 DEF Next, Start, Check, Running, Open, Replace, Unlink, Unusable, Ends
    <3> QED BY <2>4, <3>4, <3>5 DEF Stopped, vars
  <2> QED BY <1>2, <2>1, <2>2, <2>3, <2>4 DEF Whole
<1> QED BY <1>1, <1>2
-----------------------------------------------------------------------------
(***************************************************************************)
(* How far generate-dev-assets.sh has come.                                *)
(***************************************************************************)
\* A step gets past step k of part p from there, or by skipping the part.
LEMMA GotPast ==
    ASSUME IInv, [Next]_vars, NEW p \in 2 .. L + 9, NEW k \in Nat, k >= 1, k <= Len(Steps["assets"][p]),
           Past(p, k)', ~Past(p, k)
    PROVE  /\ cmd = "assets" /\ part = p /\ part <= Len(Steps[cmd])
           /\ \/ at = k /\ (Fill \/ Replace \/ Unlink \/ (Check /\ UNCHANGED disk))
              \/ Check /\ UNCHANGED disk /\ Decide(Step.group) = "skip"
<1>1. /\ cmd \in {"none", "assets", "env"} /\ part \in Nat /\ at \in Nat /\ (cmd # "none" => done = "none")
      /\ L \in Nat /\ Len(Steps["assets"]) = L + 9
  BY Constants, Parts DEF IInv, Types
<1>2. done # "assets" /\ (cmd = "assets" => part < p \/ (part = p /\ at <= k))
  BY <1>1 DEF Past
<1>3. \/ cmd' = "assets" /\ (part' > p \/ (part' = p /\ at' > k))
      \/ done' = "assets"
  BY DEF Past
<1>4. ~Ends
  BY <1>1, <1>2, <1>3 DEF Ends
<1>5. ~Open /\ ~UNCHANGED vars
  BY <1>1, <1>2, <1>3 DEF Open, vars
<1>6. ~Stopped /\ ~Unusable
  BY <1>1, <1>2, <1>3 DEF Stopped, Unusable, Fail
<1>7. ASSUME NEW c \in {"assets", "env"}, Start(c) PROVE FALSE
  BY <1>1, <1>2, <1>3, <1>7 DEF Start
<1>8. Check \/ Fill \/ Replace \/ Unlink
  BY <1>4, <1>5, <1>6, <1>7 DEF Next
<1>9. ASSUME Advance, UNCHANGED <<cmd, done>>, part <= Len(Steps[cmd]), cmd # "none"
      PROVE  cmd = "assets" /\ part = p /\ at = k
  <2>1. cmd = "assets" /\ done' # "assets"
    BY <1>1, <1>2, <1>3, <1>9
  <2>2. at <= Len(Steps["assets"][part]) /\ Len(Steps["assets"][part]) \in Nat
    BY <1>1, <1>9, <2>1, NoEmptyPart DEF IInv, Types
  <2>3. \/ at < Len(Steps["assets"][part]) /\ at' = at + 1 /\ part' = part
        \/ at = Len(Steps["assets"][part]) /\ at' = 1 /\ part' = part + 1
    BY <1>1, <1>9, <2>1, <2>2 DEF Advance, SkipPart
  <2>4. part = p
    BY <1>1, <1>2, <1>3, <2>1, <2>3
  <2>5. at = k
    BY <1>1, <1>2, <1>3, <2>1, <2>2, <2>3, <2>4
  <2> QED BY <2>1, <2>4, <2>5
<1>10. CASE Fill \/ Replace \/ Unlink
  BY <1>9, <1>10 DEF Fill, Replace, Unlink, Running
<1>11. CASE Check
  <2>1. cmd # "none" /\ part <= Len(Steps[cmd]) /\ UNCHANGED <<disk, done>>
    BY <1>11 DEF Check, Running
  <2>2. \/ Fail
        \/ Advance /\ UNCHANGED cmd
        \/ Decide(Step.group) = "skip" /\ SkipPart /\ UNCHANGED cmd
    BY <1>11 DEF Check
  <2>3. ~Fail
    BY <1>2, <1>3, <2>1 DEF Fail
  <2>4. CASE Advance /\ UNCHANGED cmd
    BY <1>9, <1>11, <2>1, <2>4
  <2>5. CASE Decide(Step.group) = "skip" /\ SkipPart /\ UNCHANGED cmd
    <3>1. cmd = "assets" /\ part' = part + 1 /\ at' = 1
      BY <1>1, <1>2, <1>3, <2>1, <2>5 DEF SkipPart
    <3>2. part = p
      BY <1>1, <1>2, <1>3, <2>1, <3>1
    <3> QED BY <1>11, <2>1, <2>5, <3>1, <3>2
  <2> QED BY <2>2, <2>3, <2>4, <2>5
<1> QED BY <1>8, <1>10, <1>11

\* What is behind is not written again by the same run.
LEMMA Behind ==
    ASSUME IInv, [Next]_vars, NEW p \in Nat, NEW k \in Nat, Past(p, k), NEW f \in Files, disk'[f] # disk[f]
    PROVE  cmd = "assets" /\ part \in Nat /\ at \in Nat /\ (part > p \/ (part = p /\ at > k))
<1>1. cmd # "none"
  BY Wrote DEF IInv
<1> QED BY <1>1 DEF IInv, Types, Past

LEMMA Sizes ==
    /\ L \in Nat /\ R \in Nat /\ I = 1 .. L /\ K = 1 .. R
    /\ \A i \in I : Len(Steps["assets"][1 + i]) = 7 /\ 1 + i \in 2 .. L + 9
    /\ \A j \in {2, 3, 4, 5, 6, 7, 8, 9} : L + j \in 2 .. L + 9 /\ L + j \in Nat
    /\ Len(Steps["assets"][L + 3]) = 2 /\ Len(Steps["assets"][L + 5]) = 2 /\ Len(Steps["assets"][L + 6]) = 1
    /\ Len(Steps["assets"][L + 7]) = R /\ Len(Steps["assets"][L + 8]) = R /\ Len(Steps["assets"][L + 9]) = 1
<1>1. L \in Nat /\ R \in Nat /\ I = 1 .. L /\ K = 1 .. R
  BY Constants DEF I, K
<1>2. Len(export_rsa_jwk) = 2 /\ Len(render_realm) = 2
  BY DEF export_rsa_jwk, render_realm
<1>3. Len(<<safe_write(RuntimeEnv)>>) = 1 /\ Len(<<Write(Users)>>) = 1 /\ \A n : Len(issue(n)) = 7
  BY DEF issue
<1>4. Len([k \in K |-> safe_write(Role(roles[k]))]) = R /\ Len([k \in K |-> safe_write(RoleEnv(roles[k]))]) = R
  BY <1>1
<1>5. \A i \in I : Len(Steps["assets"][1 + i]) = 7
  BY <1>3, Parts
<1>6. Len(Steps["assets"][L + 3]) = 2 /\ Len(Steps["assets"][L + 5]) = 2 /\ Len(Steps["assets"][L + 6]) = 1
  BY <1>2, <1>3, Parts
<1>7. Len(Steps["assets"][L + 7]) = R /\ Len(Steps["assets"][L + 8]) = R /\ Len(Steps["assets"][L + 9]) = 1
  BY <1>3, <1>4, Parts
<1>8. /\ \A i \in I : 1 + i \in 2 .. L + 9
      /\ \A j \in {2, 3, 4, 5, 6, 7, 8, 9} : L + j \in 2 .. L + 9 /\ L + j \in Nat
  BY <1>1
<1> QED BY <1>1, <1>5, <1>6, <1>7, <1>8

LEMMA PastLeavesStep ==
    ASSUME IInv, [Next]_vars
    PROVE  PastLeaves'
<1> SUFFICES ASSUME NEW i \in I, Past(1 + i, 7)' PROVE LeafAccepted(identities[i])'
  BY DEF PastLeaves
<1> DEFINE n == identities[i]
<1>0. n \in Names /\ n # "ca" /\ n # "pkj" /\ n # "secrets"
  BY Constants
<1>1. CASE Past(1 + i, 7)
  BY <1>0, <1>1, AcceptedKept DEF IInv, Progress, PastLeaves
<1>2. CASE ~Past(1 + i, 7)
  <2>0. 1 + i \in 2 .. L + 9 /\ 7 \in Nat /\ 7 >= 1 /\ 7 <= Len(Steps["assets"][1 + i])
    <3>1. Len(Steps["assets"][1 + i]) = 7 /\ 1 + i \in 2 .. L + 9
      BY Sizes, Zenon
    <3> QED BY <3>1
  <2>1. /\ cmd = "assets" /\ part = 1 + i /\ part <= Len(Steps[cmd])
        /\ \/ at = 7 /\ (Fill \/ Replace \/ Unlink \/ (Check /\ UNCHANGED disk))
           \/ Check /\ UNCHANGED disk /\ Decide(Step.group) = "skip"
    BY <1>2, <2>0, GotPast
  <2>2. AtLeaf(i)
    <3>1. L \in Nat /\ i \in Nat /\ i >= 1 /\ i <= L
      BY Sizes
    <3> QED BY <2>1, <3>1, Where
          DEF IInv, AtEnv, AtCa, AtLeaf, AtPkj, AtJwk, AtSecrets, AtRealm, AtRuntime, AtRole, AtRoleEnv, AtUsers, Here, I
  <2>3. CASE at = 7
    <3>1. Step = unlink(Leaf("ext", n))
      BY <2>2, <2>3 DEF AtLeaf, Here
    <3>2. Unlink
      BY <2>1, <3>1 DEF unlink, Fill, Replace, Check, Running
    <3>3. disk' = [disk EXCEPT ![Leaf("ext", n)] = Absent]
      BY <3>1, <3>2 DEF Unlink, unlink
    <3>4. /\ Leaf("crt", n) \in Files /\ Leaf("key", n) \in Files /\ Leaf("csr", n) \in Files /\ Leaf("ext", n) \in Files
          /\ Leaf("crt", n) # Leaf("ext", n) /\ Leaf("key", n) # Leaf("ext", n) /\ Leaf("csr", n) # Leaf("ext", n)
      BY <1>0, FileSet, Kinds
    <3>5. /\ disk'[Leaf("crt", n)] = disk[Leaf("crt", n)] /\ disk'[Leaf("key", n)] = disk[Leaf("key", n)]
          /\ disk'[Leaf("csr", n)] = disk[Leaf("csr", n)] /\ disk'[Leaf("ext", n)] = Absent
      BY <3>3, <3>4 DEF IInv, Types
    <3>6. Matches(n) /\ ~exists(Leaf("csr", n))
      BY <2>1, <2>3, LeafPart
    <3> QED BY <3>5, <3>6 DEF LeafAccepted, Matches, Whole, exists, Absent
  <2>4. CASE Check /\ UNCHANGED disk /\ Decide(Step.group) = "skip"
    <3>1. Step.do = "guard"
      BY <2>4 DEF Check, Running
    <3>2. Step.group = n
      BY <2>2, <3>1 DEF AtLeaf, Here, Guard, Write, unlink
    <3>3. LeafAccepted(n)
      BY <1>0, <2>4, <3>2 DEF Decide, AllOrNothing
    <3> QED BY <2>4, <3>3 DEF LeafAccepted, exists
  <2> QED BY <2>1, <2>3, <2>4
<1> QED BY <1>1, <1>2

LEMMA PartIs ==
    ASSUME IInv, cmd = "assets", part <= Len(Steps[cmd])
    PROVE  /\ part = 1 => AtCa
           /\ \A i \in I : part = 1 + i => AtLeaf(i)
           /\ part = L + 2 => AtPkj
           /\ part = L + 3 => AtJwk
           /\ part = L + 4 => AtSecrets
           /\ part = L + 5 => AtRealm
           /\ part = L + 6 => AtRuntime
           /\ part = L + 7 => at \in K /\ AtRole(at)
           /\ part = L + 8 => at \in K /\ AtRoleEnv(at)
           /\ part = L + 9 => AtUsers
<1>1. L \in Nat /\ I = 1 .. L
  BY Constants DEF I
<1>2. Types
  BY DEF IInv
<1>3. \/ AtCa \/ (\E i \in I : AtLeaf(i)) \/ AtPkj \/ AtJwk \/ AtSecrets \/ AtRealm \/ AtRuntime
      \/ (at \in K /\ AtRole(at)) \/ (at \in K /\ AtRoleEnv(at)) \/ AtUsers
  <2>1. ~AtEnv
    BY DEF AtEnv, Here
  <2>2. \A k \in K : (AtRole(k) => k = at) /\ (AtRoleEnv(k) => k = at)
    BY DEF AtRole, AtRoleEnv, Here
  <2> QED BY <1>2, <2>1, <2>2, Where
<1>4. /\ AtCa => part = 1
      /\ \A i \in I : AtLeaf(i) => part = 1 + i
      /\ AtPkj => part = L + 2
      /\ AtJwk => part = L + 3
      /\ AtSecrets => part = L + 4
      /\ AtRealm => part = L + 5
      /\ AtRuntime => part = L + 6
      /\ AtRole(at) => part = L + 7
      /\ AtRoleEnv(at) => part = L + 8
      /\ AtUsers => part = L + 9
  BY DEF AtCa, AtLeaf, AtPkj, AtJwk, AtSecrets, AtRealm, AtRuntime, AtRole, AtRoleEnv, AtUsers, Here
<1> HIDE DEF AtCa, AtLeaf, AtPkj, AtJwk, AtSecrets, AtRealm, AtRuntime, AtRole, AtRoleEnv, AtUsers
<1> QED BY <1>1, <1>3, <1>4

LEMMA FillDoes ==
    ASSUME IInv, Fill, NEW f \in Files, Step = Write(f), f # RuntimeEnv
    PROVE  /\ disk'[f] = Content(f) /\ Usable(f)
           /\ \A g \in Files : g # f => disk'[g] = disk[g]
<1>1. Step.file = f /\ Step.do = "write"
  BY DEF Write
<1>2. opened # Absent /\ disk' = [disk EXCEPT ![f] = opened]
  BY <1>1 DEF Fill
<1>3. opened = Content(f) /\ Usable(f)
  BY <1>1, <1>2 DEF IInv, Opened
<1> QED BY <1>2, <1>3 DEF IInv, Types

LEMMA ReplaceDoes ==
    ASSUME IInv, Replace, NEW f \in Files, Step = safe_write(f)
    PROVE  /\ disk'[f] = Content(f) /\ Usable(f) /\ halved' = halved \ {f}
           /\ \A g \in Files : g # f => disk'[g] = disk[g]
<1>1. Step.file = f
  BY DEF safe_write
<1> QED BY <1>1 DEF Replace, IInv, Types

\* A file is filled, or replaced, when the run gets past its step.
LEMMA FilledAt ==
    ASSUME IInv, [Next]_vars, NEW p \in 2 .. L + 9, NEW k \in Nat, k >= 1, k <= Len(Steps["assets"][p]),
           NEW f, cmd = "assets" /\ part = p /\ part <= Len(Steps[cmd]) => Step.do = "write" /\ (at = k => Step = Write(f)),
           Past(p, k)', ~Past(p, k)
    PROVE  Fill /\ Step = Write(f)
<1>1. /\ cmd = "assets" /\ part = p /\ part <= Len(Steps[cmd])
      /\ \/ at = k /\ (Fill \/ Replace \/ Unlink \/ (Check /\ UNCHANGED disk))
         \/ Check /\ UNCHANGED disk /\ Decide(Step.group) = "skip"
  BY GotPast
<1>2. Step.do = "write"
  BY <1>1
<1> QED BY <1>1, <1>2 DEF Replace, Unlink, Check, Running

LEMMA ReplacedAt ==
    ASSUME IInv, [Next]_vars, NEW p \in 2 .. L + 9, NEW k \in Nat, k >= 1, k <= Len(Steps["assets"][p]),
           NEW f, cmd = "assets" /\ part = p /\ part <= Len(Steps[cmd])
                      => Step.do = "replace" /\ (at = k => Step = safe_write(f)),
           Past(p, k)', ~Past(p, k)
    PROVE  Replace /\ Step = safe_write(f) /\ cmd = "assets" /\ part = p /\ at = k
<1>1. /\ cmd = "assets" /\ part = p /\ part <= Len(Steps[cmd])
      /\ \/ at = k /\ (Fill \/ Replace \/ Unlink \/ (Check /\ UNCHANGED disk))
         \/ Check /\ UNCHANGED disk /\ Decide(Step.group) = "skip"
  BY GotPast
<1>2. Step.do = "replace"
  BY <1>1
<1> QED BY <1>1, <1>2 DEF Fill, Unlink, Check, Running

LEMMA PastJwkStep ==
    ASSUME IInv, [Next]_vars
    PROVE  PastJwk'
<1>0. /\ Jwk \in Files /\ JwkEnv \in Files /\ PkjKey \in Files /\ Jwk # RuntimeEnv /\ JwkEnv # RuntimeEnv
      /\ Jwk # PkjKey /\ JwkEnv # PkjKey
  BY FileSet, Kinds
<1>1. L \in Nat /\ L + 3 \in 2 .. L + 9 /\ L + 3 \in Nat /\ Len(Steps["assets"][L + 3]) = 2
  BY Sizes
<1>2. cmd = "assets" /\ part = L + 3 /\ part <= Len(Steps[cmd])
        => Step.do = "write" /\ (at = 1 => Step = Write(Jwk)) /\ (at = 2 => Step = Write(JwkEnv))
  BY PartIs DEF AtJwk, Here, Write
<1>3. ASSUME Past(L + 3, 1)'
      PROVE  Whole(PkjKey)' /\ disk'[Jwk] = Text([key |-> disk'[PkjKey]])
  <2>1. CASE Past(L + 3, 1)
    <3>1. Whole(PkjKey) /\ disk[Jwk] = Text([key |-> disk[PkjKey]])
      BY <2>1 DEF IInv, Progress, PastJwk
    <3>2. disk'[Jwk] = disk[Jwk]
      <4> SUFFICES ASSUME disk'[Jwk] # disk[Jwk] PROVE FALSE
        OBVIOUS
      <4>1. part = L + 3 /\ at = 1
        BY <1>0, Wrote DEF IInv, PlacedOnce, Here
      <4> QED BY <1>0, <1>1, <2>1, <4>1, Behind
    <3> QED BY <3>1, <3>2, Keeps DEF Whole
  <2>2. CASE ~Past(L + 3, 1)
    <3>0. 1 \in Nat /\ 1 >= 1 /\ 1 <= Len(Steps["assets"][L + 3])
      BY <1>1
    <3>1. Fill /\ Step = Write(Jwk)
      BY <1>1, <1>2, <1>3, <2>2, <3>0, FilledAt
    <3>2. disk'[Jwk] = Content(Jwk) /\ Usable(Jwk) /\ disk'[PkjKey] = disk[PkjKey]
      BY <1>0, <3>1, FillDoes
    <3> QED BY <3>2, RenderedFrom, NeededFor DEF Contents, Needs, Whole
  <2> QED BY <2>1, <2>2
<1>4. ASSUME Past(L + 3, 2)'
      PROVE  disk'[JwkEnv] = Text([key |-> disk'[PkjKey]])
  <2>1. CASE Past(L + 3, 2)
    <3>1. Past(L + 3, 1)
      BY <1>1, <2>1 DEF Past, IInv, Types
    <3>2. Whole(PkjKey) /\ disk[JwkEnv] = Text([key |-> disk[PkjKey]])
      BY <2>1, <3>1 DEF IInv, Progress, PastJwk
    <3>3. disk'[JwkEnv] = disk[JwkEnv]
      <4> SUFFICES ASSUME disk'[JwkEnv] # disk[JwkEnv] PROVE FALSE
        OBVIOUS
      <4>1. part = L + 3 /\ at = 2
        BY <1>0, Wrote DEF IInv, PlacedOnce, Here
      <4> QED BY <1>0, <1>1, <2>1, <4>1, Behind
    <3> QED BY <3>2, <3>3, Keeps
  <2>2. CASE ~Past(L + 3, 2)
    <3>0. 2 \in Nat /\ 2 >= 1 /\ 2 <= Len(Steps["assets"][L + 3])
      BY <1>1
    <3>1. Fill /\ Step = Write(JwkEnv)
      BY <1>1, <1>2, <1>4, <2>2, <3>0, FilledAt
    <3>2. disk'[JwkEnv] = Content(JwkEnv) /\ disk'[PkjKey] = disk[PkjKey]
      BY <1>0, <3>1, FillDoes
    <3> QED BY <3>2, RenderedFrom DEF Contents
  <2> QED BY <2>1, <2>2
<1> QED BY <1>3, <1>4 DEF PastJwk

LEMMA PastRealmStep ==
    ASSUME IInv, [Next]_vars
    PROVE  PastRealm'
<1>0. /\ Realm \in Files /\ DeckEnv \in Files /\ PkjPub \in Files /\ Secrets \in Files /\ JwkEnv \in Files
      /\ Realm # RuntimeEnv /\ DeckEnv # RuntimeEnv
      /\ Realm # PkjPub /\ Realm # Secrets /\ Realm # JwkEnv /\ DeckEnv # Secrets /\ DeckEnv # JwkEnv
  BY FileSet, Kinds
<1>1. L \in Nat /\ L + 5 \in 2 .. L + 9 /\ L + 5 \in Nat /\ Len(Steps["assets"][L + 5]) = 2
  BY Sizes
<1>2. cmd = "assets" /\ part = L + 5 /\ part <= Len(Steps[cmd])
        => Step.do = "write" /\ (at = 1 => Step = Write(Realm)) /\ (at = 2 => Step = Write(DeckEnv))
  BY PartIs DEF AtRealm, Here, Write
\* From here on the inputs of the realm are behind.
<1>3. ASSUME Past(L + 5, 1)
      PROVE  /\ disk'[PkjPub] = disk[PkjPub] /\ disk'[Secrets] = disk[Secrets] /\ disk'[JwkEnv] = disk[JwkEnv]
             /\ disk'[Realm] = disk[Realm]
  <2>1. ASSUME NEW f \in {PkjPub, Secrets, JwkEnv, Realm}, disk'[f] # disk[f] PROVE FALSE
    <3>1. part = L + 2 \/ part = L + 4 \/ part = L + 3 \/ (part = L + 5 /\ at = 1)
      BY <1>0, <2>1, Wrote DEF IInv, PlacedOnce, Here
    <3> QED BY <1>0, <1>1, <1>3, <2>1, <3>1, Behind
  <2> QED BY <2>1
<1>4. ASSUME Past(L + 5, 1)'
      PROVE  /\ exists(PkjPub)'
             /\ disk'[Realm] = Text([users |-> disk'[Secrets], pub |-> disk'[PkjPub], kid |-> disk'[JwkEnv]])
  <2>1. CASE Past(L + 5, 1)
    BY <1>3, <2>1 DEF IInv, Progress, PastRealm, exists
  <2>2. CASE ~Past(L + 5, 1)
    <3>0. 1 \in Nat /\ 1 >= 1 /\ 1 <= Len(Steps["assets"][L + 5])
      BY <1>1
    <3>1. Fill /\ Step = Write(Realm)
      BY <1>1, <1>2, <1>4, <2>2, <3>0, FilledAt
    <3>2. /\ disk'[Realm] = Content(Realm) /\ Usable(Realm)
          /\ disk'[PkjPub] = disk[PkjPub] /\ disk'[Secrets] = disk[Secrets] /\ disk'[JwkEnv] = disk[JwkEnv]
      BY <1>0, <3>1, FillDoes
    <3> QED BY <3>2, RenderedFrom, NeededFor DEF Contents, Needs, exists
  <2> QED BY <2>1, <2>2
<1>5. ASSUME Past(L + 5, 2)'
      PROVE  Whole(Secrets)' /\ disk'[DeckEnv] = Text([secrets |-> disk'[Secrets], kid |-> disk'[JwkEnv]])
  <2>1. CASE Past(L + 5, 2)
    <3>1. Past(L + 5, 1)
      BY <1>1, <2>1 DEF Past, IInv, Types
    <3>2. disk'[DeckEnv] = disk[DeckEnv]
      <4> SUFFICES ASSUME disk'[DeckEnv] # disk[DeckEnv] PROVE FALSE
        OBVIOUS
      <4>1. part = L + 5 /\ at = 2
        BY <1>0, Wrote DEF IInv, PlacedOnce, Here
      <4> QED BY <1>0, <1>1, <2>1, <4>1, Behind
    <3> QED BY <1>3, <2>1, <3>1, <3>2 DEF IInv, Progress, PastRealm, Whole
  <2>2. CASE ~Past(L + 5, 2)
    <3>0. 2 \in Nat /\ 2 >= 1 /\ 2 <= Len(Steps["assets"][L + 5])
      BY <1>1
    <3>1. Fill /\ Step = Write(DeckEnv)
      BY <1>1, <1>2, <1>5, <2>2, <3>0, FilledAt
    <3>2. /\ disk'[DeckEnv] = Content(DeckEnv) /\ Usable(DeckEnv)
          /\ disk'[Secrets] = disk[Secrets] /\ disk'[JwkEnv] = disk[JwkEnv]
      BY <1>0, <3>1, FillDoes
    <3> QED BY <3>2, RenderedFrom, NeededFor DEF Contents, Needs, Whole
  <2> QED BY <2>1, <2>2
<1> QED BY <1>4, <1>5 DEF PastRealm

\* Once deck.env was rendered the passwords are whole, and stay.
LEMMA SecretsBehind ==
    ASSUME IInv, [Next]_vars, NEW p \in {L + 6, L + 7, L + 8, L + 9}, NEW k \in Nat, k >= 1,
           Past(p, k) \/ (cmd = "assets" /\ part = p)
    PROVE  Whole(Secrets) /\ disk'[Secrets] = disk[Secrets]
<1>0. L \in Nat /\ part \in Nat /\ p \in Nat /\ p > L + 5
  <2>1. L \in Nat
    BY Constants
  <2>2. part \in Nat
    BY DEF IInv, Types
  <2> QED BY <2>1, <2>2
<1>1. Past(L + 5, 2)
  BY <1>0 DEF Past
<1>2. Whole(Secrets)
  BY <1>1 DEF IInv, Progress, PastRealm
<1> QED BY <1>2, Keeps

LEMMA PastSecretsStep ==
    ASSUME IInv, [Next]_vars
    PROVE  PastSecrets'
<1> SUFFICES ASSUME Past(L + 6, 1)' PROVE disk'[RuntimeEnv] = Text([admin |-> disk'[Secrets], hosts |-> Absent])
  BY DEF PastSecrets
<1>0. RuntimeEnv \in Files /\ Secrets \in Files /\ Secrets # RuntimeEnv
  BY FileSet, Kinds
<1>1. L \in Nat /\ L + 6 \in 2 .. L + 9 /\ L + 6 \in Nat /\ Len(Steps["assets"][L + 6]) = 1
  BY Sizes
<1>2. CASE Past(L + 6, 1)
  <2>1. disk'[RuntimeEnv] = disk[RuntimeEnv]
    <3> SUFFICES ASSUME disk'[RuntimeEnv] # disk[RuntimeEnv] PROVE FALSE
      OBVIOUS
    <3>1. cmd = "env" \/ (part = L + 6 /\ at = 1)
      BY <1>0, Wrote DEF IInv, PlacedOnce, Here, AtRuntime
    <3> QED BY <1>0, <1>1, <1>2, <3>1, Behind
  <2>2. disk'[Secrets] = disk[Secrets]
    BY <1>2, SecretsBehind
  <2> QED BY <1>2, <2>1, <2>2 DEF IInv, Progress, PastSecrets
<1>3. CASE ~Past(L + 6, 1)
  <2>1. cmd = "assets" /\ part = L + 6 /\ part <= Len(Steps[cmd])
          => Step.do = "replace" /\ (at = 1 => Step = safe_write(RuntimeEnv))
    BY PartIs DEF AtRuntime, Here, safe_write
  <2>0. 1 \in Nat /\ 1 >= 1 /\ 1 <= Len(Steps["assets"][L + 6])
    BY <1>1
  <2>2. Replace /\ Step = safe_write(RuntimeEnv) /\ cmd = "assets"
    BY <1>1, <1>3, <2>0, <2>1, ReplacedAt
  <2>3. disk'[RuntimeEnv] = Content(RuntimeEnv) /\ disk'[Secrets] = disk[Secrets]
    BY <1>0, <2>2, ReplaceDoes
  <2> QED BY <2>2, <2>3, RenderedFrom DEF Contents
<1> QED BY <1>2, <1>3

LEMMA PastUsersStep ==
    ASSUME IInv, [Next]_vars
    PROVE  PastUsers'
<1> SUFFICES ASSUME Past(L + 9, 1)' PROVE disk'[Users] = Text([users |-> disk'[Secrets]])
  BY DEF PastUsers
<1>0. Users \in Files /\ Secrets \in Files /\ Users # RuntimeEnv /\ Users # Secrets
  BY FileSet, Kinds
<1>1. L \in Nat /\ L + 9 \in 2 .. L + 9 /\ L + 9 \in Nat /\ Len(Steps["assets"][L + 9]) = 1
  BY Sizes
<1>2. CASE Past(L + 9, 1)
  <2>1. disk'[Users] = disk[Users]
    <3> SUFFICES ASSUME disk'[Users] # disk[Users] PROVE FALSE
      OBVIOUS
    <3>1. part = L + 9 /\ at = 1
      BY <1>0, Wrote DEF IInv, PlacedOnce, Here, AtUsers
    <3> QED BY <1>0, <1>1, <1>2, <3>1, Behind
  <2>2. disk'[Secrets] = disk[Secrets]
    BY <1>2, SecretsBehind
  <2> QED BY <1>2, <2>1, <2>2 DEF IInv, Progress, PastUsers
<1>3. CASE ~Past(L + 9, 1)
  <2>1. cmd = "assets" /\ part = L + 9 /\ part <= Len(Steps[cmd])
          => Step.do = "write" /\ (at = 1 => Step = Write(Users))
    BY PartIs DEF AtUsers, Here, Write
  <2>0. 1 \in Nat /\ 1 >= 1 /\ 1 <= Len(Steps["assets"][L + 9])
    BY <1>1
  <2>2. Fill /\ Step = Write(Users)
    BY <1>1, <1>3, <2>0, <2>1, FilledAt
  <2>3. disk'[Users] = Content(Users) /\ disk'[Secrets] = disk[Secrets]
    BY <1>0, <2>2, FillDoes
  <2> QED BY <2>3, RenderedFrom DEF Contents
<1> QED BY <1>2, <1>3

\* A role's files are only replaced, by the run that rendered their inputs.
LEMMA RoleWritten ==
    ASSUME IInv, [Next]_vars, NEW k \in K, NEW f \in {Role(roles[k]), RoleEnv(roles[k])}, disk'[f] # disk[f]
    PROVE  /\ f \in Files /\ Replace /\ disk'[f] = Content(f) /\ cmd = "assets" /\ at = k
           /\ f = Role(roles[k]) => part = L + 7
           /\ f = RoleEnv(roles[k]) => part = L + 8
           /\ \A g \in Files : g # f => disk'[g] = disk[g]
<1>1. f \in Files /\ f # DeckEnv /\ f # Users
  BY Constants, FileSet, Kinds
<1>2. /\ PlacedRole(f, k) /\ f = Step.file
      /\ \/ Step.do = "write"
         \/ Step.do = "remove"
         \/ Replace /\ disk'[f] = Content(f)
      /\ \A g \in Files : g # f => disk'[g] = disk[g]
  BY <1>1, Wrote DEF IInv
<1>3. Step.do = "replace"
  BY <1>2 DEF PlacedRole, AtRole, AtRoleEnv, Here, safe_write
<1> QED BY <1>1, <1>2, <1>3 DEF PlacedRole, AtRole, AtRoleEnv, Here

LEMMA RoleStays ==
    ASSUME IInv, [Next]_vars, NEW k \in K, NEW f \in {Role(roles[k]), RoleEnv(roles[k])}, exists(f)
    PROVE  exists(f)'
<1>1. CASE disk'[f] = disk[f]
  BY <1>1 DEF exists
<1>2. CASE disk'[f] # disk[f]
  BY <1>2, RoleWritten, RenderedFrom DEF Contents, exists
<1> QED BY <1>1, <1>2

LEMMA PastRolesStep ==
    ASSUME IInv, [Next]_vars
    PROVE  PastRoles'
<1> SUFFICES ASSUME NEW k \in K
             PROVE  /\ Past(L + 7, k)' => exists(Role(roles[k]))'
                    /\ Past(L + 8, k)' => /\ exists(RoleEnv(roles[k]))'
                                          /\ disk'[RoleEnv(roles[k])].of.jwk \in {Absent, disk'[Jwk]}
  BY DEF PastRoles
<1> DEFINE r == roles[k]
<1>0. /\ r \in Roles /\ Role(r) \in Files /\ RoleEnv(r) \in Files /\ Jwk \in Files /\ RoleEnv(r) # Jwk
  BY Constants, FileSet, Kinds
<1>1. /\ L \in Nat /\ L + 7 \in 2 .. L + 9 /\ L + 8 \in 2 .. L + 9
      /\ Len(Steps["assets"][L + 7]) = R /\ Len(Steps["assets"][L + 8]) = R /\ k \in Nat /\ k >= 1 /\ k <= R
  BY Sizes
<1>2. /\ k <= Len(Steps["assets"][L + 7]) /\ k <= Len(Steps["assets"][L + 8])
  BY <1>1
<1>3. ASSUME Past(L + 7, k)' PROVE exists(Role(r))'
  <2>1. CASE Past(L + 7, k)
    BY <2>1, RoleStays DEF IInv, Progress, PastRoles
  <2>2. CASE ~Past(L + 7, k)
    <3>1. cmd = "assets" /\ part = L + 7 /\ part <= Len(Steps[cmd])
            => Step.do = "replace" /\ (at = k => Step = safe_write(Role(r)))
      BY PartIs DEF AtRole, Here, safe_write
    <3>2. Replace /\ Step = safe_write(Role(r))
      BY <1>1, <1>2, <1>3, <2>2, <3>1, ReplacedAt
    <3>3. disk'[Role(r)] = Content(Role(r))
      BY <1>0, <3>2, ReplaceDoes
    <3> QED BY <3>3, RenderedFrom DEF Contents, exists
  <2> QED BY <2>1, <2>2
<1>4. ASSUME Past(L + 8, k)'
      PROVE  exists(RoleEnv(r))' /\ disk'[RoleEnv(r)].of.jwk \in {Absent, disk'[Jwk]}
  <2>1. CASE Past(L + 8, k)
    <3>0. L + 8 \in Nat /\ L + 3 \in Nat
      BY <1>1
    <3>1. disk'[RoleEnv(r)] = disk[RoleEnv(r)]
      <4> SUFFICES ASSUME disk'[RoleEnv(r)] # disk[RoleEnv(r)] PROVE FALSE
        OBVIOUS
      <4>1. part = L + 8 /\ at = k
        BY RoleWritten
      <4>2. part > L + 8 \/ at > k
        BY <1>0, <1>1, <2>1, <3>0, Behind
      <4> QED BY <1>1, <3>0, <4>1, <4>2
    <3>2. disk'[Jwk] = disk[Jwk]
      <4> SUFFICES ASSUME disk'[Jwk] # disk[Jwk] PROVE FALSE
        OBVIOUS
      <4>1. part = L + 3
        BY <1>0, Wrote DEF IInv, PlacedOnce, Here
      <4>2. part > L + 8 \/ part = L + 8
        BY <1>0, <1>1, <2>1, <3>0, Behind
      <4> QED BY <1>1, <4>1, <4>2
    <3> QED BY <2>1, <3>1, <3>2 DEF IInv, Progress, PastRoles, exists
  <2>2. CASE ~Past(L + 8, k)
    <3>1. cmd = "assets" /\ part = L + 8 /\ part <= Len(Steps[cmd])
            => Step.do = "replace" /\ (at = k => Step = safe_write(RoleEnv(r)))
      BY PartIs DEF AtRoleEnv, Here, safe_write
    <3>2. Replace /\ Step = safe_write(RoleEnv(r))
      BY <1>1, <1>2, <1>4, <2>2, <3>1, ReplacedAt
    <3>3. disk'[RoleEnv(r)] = Content(RoleEnv(r)) /\ disk'[Jwk] = disk[Jwk]
      BY <1>0, <3>2, ReplaceDoes
    <3>4. disk'[RoleEnv(r)] = Text([keys |-> Keys(r), jwk |-> IF r = "third-party" THEN disk[Jwk] ELSE Absent])
      BY <1>0, <3>3, RenderedFrom DEF Contents
    <3>5. disk'[RoleEnv(r)].is = "whole" /\ disk'[RoleEnv(r)].of.jwk \in {Absent, disk[Jwk]}
      BY <3>4 DEF Text
    <3> QED BY <3>3, <3>5 DEF exists
  <2> QED BY <2>1, <2>2
<1> QED BY <1>3, <1>4

\* Role files are rendered when every identity was accepted.
LEMMA RoleFitsStep ==
    ASSUME IInv, [Next]_vars, NEW r \in Roles
    PROVE  RoleFits(r)'
<1>0. PICK k \in K : roles[k] = r
  BY Constants
<1>1. OfRole(r) \subseteq Names /\ Role(r) \in Files /\ RoleEnv(r) \in Files /\ Role(r) # RoleEnv(r)
  BY FileSet, Kinds DEF OfRole
<1>2. L \in Nat \ {0} /\ part \in Nat
  BY Constants DEF IInv, Types
<1>3. cmd = "assets" /\ part = L + 7 => Whole(CaCrt) /\ \A n \in Names : LeafAccepted(n)
  <2> SUFFICES ASSUME cmd = "assets", part = L + 7 PROVE Whole(CaCrt) /\ \A n \in Names : LeafAccepted(n)
    OBVIOUS
  <2>1. ASSUME NEW i \in I PROVE LeafAccepted(identities[i])
    <3>1. part > 1 + i
      BY <1>2, <2>1 DEF I
    <3>2. Past(1 + i, 7)
      BY <3>1 DEF Past
    <3> QED BY <3>2 DEF IInv, Progress, PastLeaves
  <2>2. \A n \in Names : LeafAccepted(n)
    BY <2>1, Constants
  <2>3. 1 \in I /\ identities[1] \in Names
    BY <1>2, Constants DEF I
  <2> QED BY <2>2, <2>3, AcceptedKept
<1>4. ASSUME exists(Role(r)) \/ exists(Role(r))'
      PROVE  /\ Whole(CaCrt) /\ disk'[CaCrt] = disk[CaCrt]
             /\ \A n \in OfRole(r) : LeafAccepted(n)
  <2>1. CASE exists(Role(r))
    <3>1. Whole(CaCrt) /\ \A n \in OfRole(r) : LeafAccepted(n)
      BY <2>1 DEF IInv, Fits, RoleFits
    <3> QED BY <3>1, Keeps
  <2>2. CASE ~exists(Role(r)) /\ exists(Role(r))'
    <3>1. disk'[Role(r)] # disk[Role(r)]
      BY <2>2 DEF exists
    <3>2. cmd = "assets" /\ part = L + 7
      BY <1>0, <3>1, RoleWritten
    <3> QED BY <1>1, <1>3, <3>2, Keeps
  <2> QED BY <1>4, <2>1, <2>2
<1>5. ASSUME \A n \in OfRole(r) : LeafAccepted(n)
      PROVE  /\ \A n \in OfRole(r) : LeafAccepted(n)'
             /\ Pairs(r)' = Pairs(r) /\ Keys(r)' = Keys(r)
  <2>1. \A n \in OfRole(r) : /\ LeafAccepted(n)' /\ disk'[Leaf("key", n)] = disk[Leaf("key", n)]
                             /\ disk'[Leaf("crt", n)] = disk[Leaf("crt", n)]
    BY <1>1, <1>5, AcceptedKept
  <2> QED BY <2>1 DEF Pairs, Keys
<1>6. ASSUME exists(Role(r))'
      PROVE  disk'[Role(r)] = Text([ca |-> disk[CaCrt], pair |-> Pairs(r)])
  <2>1. CASE disk'[Role(r)] = disk[Role(r)]
    BY <1>6, <2>1 DEF IInv, Fits, RoleFits, exists
  <2>2. CASE disk'[Role(r)] # disk[Role(r)]
    <3>1. disk'[Role(r)] = Content(Role(r))
      BY <1>0, <2>2, RoleWritten
    <3> QED BY <3>1, RenderedFrom DEF Contents
  <2> QED BY <2>1, <2>2
<1>7. ASSUME exists(RoleEnv(r))'
      PROVE  exists(Role(r))' /\ Whole(RoleEnv(r))' /\ disk'[RoleEnv(r)].of.keys = Keys(r) /\ exists(Role(r))
  <2>1. CASE disk'[RoleEnv(r)] = disk[RoleEnv(r)]
    <3>1. exists(Role(r)) /\ Whole(RoleEnv(r)) /\ disk[RoleEnv(r)].of.keys = Keys(r)
      BY <1>7, <2>1 DEF IInv, Fits, RoleFits, exists
    <3> QED BY <1>0, <2>1, <3>1, RoleStays DEF Whole
  <2>2. CASE disk'[RoleEnv(r)] # disk[RoleEnv(r)]
    <3>1. disk'[RoleEnv(r)] = Content(RoleEnv(r)) /\ cmd = "assets" /\ part = L + 8
      BY <1>0, <2>2, RoleWritten
    <3>2. disk'[RoleEnv(r)] = Text([keys |-> Keys(r), jwk |-> IF r = "third-party" THEN disk[Jwk] ELSE Absent])
      BY <3>1, RenderedFrom DEF Contents
    <3>3. disk'[RoleEnv(r)].is = "whole" /\ disk'[RoleEnv(r)].of.keys = Keys(r)
      BY <3>2 DEF Text
    <3>4. Past(L + 7, k)
      BY <1>2, <3>1 DEF Past
    <3>5. exists(Role(r))
      BY <1>0, <3>4 DEF IInv, Progress, PastRoles
    <3> QED BY <1>0, <3>3, <3>5, RoleStays DEF Whole
  <2> QED BY <2>1, <2>2
<1>8. exists(Role(r))' =>
         /\ Whole(CaCrt)' /\ \A n \in OfRole(r) : LeafAccepted(n)'
         /\ disk'[Role(r)] = Text([ca |-> disk'[CaCrt], pair |-> Pairs(r)'])
  BY <1>4, <1>5, <1>6 DEF Whole
<1>9. exists(RoleEnv(r))' => exists(Role(r))' /\ Whole(RoleEnv(r))' /\ disk'[RoleEnv(r)].of.keys = Keys(r)'
  BY <1>4, <1>5, <1>7
<1> QED BY <1>8, <1>9 DEF RoleFits, OfRole

LEMMA CredentialsStep ==
    ASSUME IInv, [Next]_vars
    PROVE  Credentials'
<1> SUFFICES ASSUME NEW r \in Roles, exists(Role(r))'
             PROVE  /\ Whole(Secrets)'
                    /\ RuntimeEnv \notin halved' =>
                         \/ Whole(RuntimeEnv)' /\ disk'[RuntimeEnv].of.admin = disk'[Secrets]
                         \/ /\ cmd' = "env" /\ part' = 1 /\ at' = 2 /\ opened' # Absent
                            /\ opened'.of.admin = disk'[Secrets]
  BY DEF Credentials
<1>0. PICK k \in K : roles[k] = r
  BY Constants
<1>1. L \in Nat /\ part \in Nat /\ RuntimeEnv \in Files /\ Role(r) # RuntimeEnv
  BY Constants, FileSet, Kinds DEF IInv, Types
<1>2. CASE ~exists(Role(r))
  <2>1. disk'[Role(r)] # disk[Role(r)]
    BY <1>2 DEF exists
  <2>2. cmd = "assets" /\ part = L + 7 /\ disk'[RuntimeEnv] = disk[RuntimeEnv]
    BY <1>0, <1>1, <2>1, RoleWritten
  <2>3. Whole(Secrets) /\ disk'[Secrets] = disk[Secrets]
    BY <2>2, SecretsBehind
  <2>4. Past(L + 6, 1)
    BY <1>1, <2>2 DEF Past
  <2>5. disk[RuntimeEnv] = Text([admin |-> disk[Secrets], hosts |-> Absent])
    BY <2>4 DEF IInv, Progress, PastSecrets
  <2>6. disk[RuntimeEnv].is = "whole" /\ disk[RuntimeEnv].of.admin = disk[Secrets]
    BY <2>5 DEF Text
  <2> QED BY <2>2, <2>3, <2>6 DEF Whole
<1>3. CASE exists(Role(r))
  <2>1. /\ Whole(Secrets)
        /\ RuntimeEnv \notin halved =>
              \/ Whole(RuntimeEnv) /\ disk[RuntimeEnv].of.admin = disk[Secrets]
              \/ cmd = "env" /\ part = 1 /\ at = 2 /\ opened # Absent /\ opened.of.admin = disk[Secrets]
    BY <1>3 DEF IInv, Credentials
  <2>2. disk'[Secrets] = disk[Secrets]
    BY <2>1, Keeps
  <2> SUFFICES ASSUME RuntimeEnv \notin halved'
               PROVE  \/ Whole(RuntimeEnv)' /\ disk'[RuntimeEnv].of.admin = disk[Secrets]
                      \/ /\ cmd' = "env" /\ part' = 1 /\ at' = 2 /\ opened' # Absent
                         /\ opened'.of.admin = disk[Secrets]
    BY <2>1, <2>2 DEF Whole
  \* generate-dev-assets.sh renders the file from the passwords.
  <2>3. ASSUME Replace, Step.file = RuntimeEnv
        PROVE  Whole(RuntimeEnv)' /\ disk'[RuntimeEnv].of.admin = disk[Secrets]
    <3>1. cmd # "none" /\ part <= Len(Steps[cmd]) /\ Step.do = "replace"
      BY <2>3 DEF Replace, Running
    <3>2. AtRuntime
      BY <2>3, <3>1, Placed DEF IInv, PlacedOnce, Here, Write
    <3>3. disk'[RuntimeEnv] = Content(RuntimeEnv) /\ cmd = "assets"
      BY <1>1, <2>3, <3>2, ReplaceDoes DEF AtRuntime, Here
    <3>4. disk'[RuntimeEnv] = Text([admin |-> disk[Secrets], hosts |-> Absent])
      BY <3>3, RenderedFrom DEF Contents
    <3> QED BY <3>4 DEF Text, Whole
  <2>4. CASE RuntimeEnv \in halved
    <3>1. Replace /\ Step.file = RuntimeEnv
      BY <2>4 DEF Next, vars, Start, Check, Open, Fill, Replace, Unlink, Unusable, Ends, Stopped
    <3> QED BY <2>3, <3>1
  <2>5. CASE Whole(RuntimeEnv) /\ disk[RuntimeEnv].of.admin = disk[Secrets]
    <3>1. CASE disk'[RuntimeEnv] = disk[RuntimeEnv]
      BY <2>5, <3>1 DEF Whole
    <3>2. CASE disk'[RuntimeEnv] # disk[RuntimeEnv]
      <4>1. /\ AtRuntime \/ Here("env", 1, 2, 2, Write(RuntimeEnv))
            /\ \/ Open \/ (Fill /\ opened # Absent) \/ Replace \/ (Unlink /\ Step.do = "remove")
               \/ (Unusable /\ (RuntimeEnv = DeckEnv \/ RuntimeEnv = Users))
        BY <1>1, <3>2, Wrote DEF IInv, PlacedOnce
      <4>2. RuntimeEnv = Step.file /\ Step.do # "remove" /\ RuntimeEnv # DeckEnv /\ RuntimeEnv # Users
        BY <4>1, Kinds DEF AtRuntime, Here, Write, safe_write
      <4>3. ~(Fill /\ opened # Absent)
        BY <2>5, <4>2 DEF IInv, Opened, Whole, Cut
      <4>4. CASE Open
        <5>1. Here("env", 1, 2, 2, Write(RuntimeEnv))
          BY <4>1, <4>4 DEF AtRuntime, Here, safe_write, Open, Running
        <5>2. opened' = Content(RuntimeEnv) /\ cmd' = "env" /\ part' = 1 /\ at' = 2
          BY <4>2, <4>4, <5>1 DEF Open, Here
        <5>3. opened' = Text([admin |-> disk[RuntimeEnv].of.admin, hosts |-> disk[Manifest]])
          BY <2>5, <5>1, <5>2, RenderedFrom DEF Contents, Kept, Here
        <5>4. opened'.is = "whole" /\ opened'.of.admin = disk[RuntimeEnv].of.admin
          BY <5>3 DEF Text
        <5>5. opened' # Absent
          BY <5>4 DEF Absent
        <5> QED BY <2>5, <5>2, <5>4, <5>5
      <4> QED BY <2>3, <4>1, <4>2, <4>3, <4>4
    <3> QED BY <3>1, <3>2
  <2>6. CASE cmd = "env" /\ part = 1 /\ at = 2 /\ opened # Absent /\ opened.of.admin = disk[Secrets]
    <3>1. Step = Write(RuntimeEnv) /\ part <= Len(Steps[cmd]) /\ opened.is = "whole"
      <4>1. opened.is = "whole"
        BY <2>6 DEF IInv, Opened
      <4> QED BY <2>6, <4>1, EnvParts DEF Step
    <3>2. Step.file = RuntimeEnv /\ Step.do = "write"
      BY <3>1 DEF Write
    <3>3. Fill \/ Stopped \/ UNCHANGED vars
      BY <2>6, <3>1, <3>2 DEF Next, Start, Check, Running, Open, Replace, Unlink, Unusable, Ends
    <3>4. CASE Fill
      <4>1. disk'[RuntimeEnv] = opened
        BY <1>1, <3>2, <3>4 DEF Fill, IInv, Types
      <4> QED BY <2>6, <3>1, <4>1 DEF Whole
    <3>5. ~Stopped
      BY <2>6, <3>2 DEF Stopped
    <3>6. CASE UNCHANGED vars
      BY <2>6, <3>6 DEF vars
    <3> QED BY <3>3, <3>4, <3>5, <3>6
  <2> QED BY <2>1, <2>4, <2>5, <2>6
<1> QED BY <1>2, <1>3
-----------------------------------------------------------------------------
(***************************************************************************)
(* Inside a part.                                                          *)
(***************************************************************************)
LEMMA OpenDoes ==
    ASSUME IInv, Open, NEW f \in Files, Step = Write(f)
    PROVE  disk'[f] = Cut /\ opened' = Content(f) /\ Usable(f) /\ \A g \in Files : g # f => disk'[g] = disk[g]
<1>1. Step.file = f
  BY DEF Write
<1> QED BY <1>1 DEF Open, IInv, Types

LEMMA UnlinkDoes ==
    ASSUME IInv, Unlink, NEW f \in Files, Step = unlink(f)
    PROVE  disk'[f] = Absent /\ \A g \in Files : g # f => disk'[g] = disk[g]
<1>1. Step.file = f
  BY DEF unlink
<1> QED BY <1>1 DEF Unlink, IInv, Types

\* How a run of generate-dev-assets.sh comes to a step that is not its part's first.
Same == UNCHANGED <<cmd, part, at>> /\ (Open \/ UNCHANGED vars)
Came ==
    /\ part' = part /\ at' = at + 1
    /\ (Check /\ UNCHANGED disk /\ Decide(Step.group) = "go") \/ Fill \/ Replace \/ Unlink

LEMMA CameTo ==
    ASSUME IInv, [Next]_vars, cmd' = "assets", at' # 1
    PROVE  cmd = "assets" /\ ((part <= Len(Steps[cmd]) /\ Came) \/ Same)
<1>1. ~Ends /\ ~Stopped /\ ~Unusable /\ \A c \in {"assets", "env"} : ~Start(c)
  BY DEF Ends, Stopped, Unusable, Fail, Start
<1>2. CASE Open \/ UNCHANGED vars
  BY <1>2 DEF Open, vars, Same
<1>3. CASE Fill \/ Replace \/ Unlink
  BY <1>3 DEF Fill, Replace, Unlink, Running, Advance, SkipPart, Came
<1>4. CASE Check
  BY <1>4 DEF Check, Running, Advance, SkipPart, Fail, Came
<1> QED BY <1>1, <1>2, <1>3, <1>4 DEF Next

\* The same, with what the step before allows.
LEMMA AfterWrite ==
    ASSUME Came, NEW f, Step = Write(f)
    PROVE  Fill
BY DEF Came, Write, Check, Replace, Unlink, Running

LEMMA AfterGuard ==
    ASSUME Came, NEW g, Step = Guard(g)
    PROVE  UNCHANGED disk /\ Decide(g) = "go"
BY DEF Came, Guard, Fill, Replace, Unlink, Running

LEMMA AfterUnlink ==
    ASSUME Came, NEW f, Step = unlink(f)
    PROVE  Unlink
BY DEF Came, unlink, Check, Fill, Replace, Running

LEMMA InsideCaStep ==
    ASSUME IInv, [Next]_vars
    PROVE  InsideCa'
<1> SUFFICES ASSUME cmd' = "assets", part' = 1
             PROVE  /\ at' = 2 => ~Whole(CaKey)' /\ ~exists(CaCrt)'
                    /\ at' = 3 => Whole(CaKey)' /\ ~Whole(CaCrt)'
  BY DEF InsideCa
<1>0. CaKey \in Files /\ CaCrt \in Files /\ CaKey # CaCrt /\ CaKey # RuntimeEnv /\ at \in Nat
  BY FileSet, Kinds DEF IInv, Types
<1> SUFFICES ASSUME at' = 2 \/ at' = 3
             PROVE  /\ at' = 2 => ~Whole(CaKey)' /\ ~exists(CaCrt)'
                    /\ at' = 3 => Whole(CaKey)' /\ ~Whole(CaCrt)'
  OBVIOUS
<1>1. cmd = "assets" /\ (Came \/ Same) /\ part = 1
  BY CameTo DEF Came, Same
<1>2. /\ at = 1 => Step = Guard("ca")
      /\ at = 2 => Step = Write(CaKey) /\ ~Whole(CaKey) /\ ~exists(CaCrt)
      /\ at = 3 => Step = Write(CaCrt) /\ Whole(CaKey) /\ ~Whole(CaCrt)
  <2>0. L \in Nat /\ Len(Steps["assets"]) = L + 9
    BY Constants, Parts
  <2>1. AtCa
    BY <1>1, <2>0, PartIs
  <2>2. InsideCa
    BY DEF IInv, Inside
  <2>3. /\ at = 2 => ~Whole(CaKey) /\ ~exists(CaCrt)
        /\ at = 3 => Whole(CaKey) /\ ~Whole(CaCrt)
    BY <1>1, <2>2 DEF InsideCa
  <2>4. (at = 1 => Step = Guard("ca")) /\ (at = 2 => Step = Write(CaKey)) /\ (at = 3 => Step = Write(CaCrt))
    BY <2>1 DEF AtCa, Here
  <2> QED BY <2>3, <2>4
<1>3. CASE Same
  <2>1. at' = at /\ (UNCHANGED disk \/ Open)
    BY <1>3 DEF Same, vars
  <2>2. CASE UNCHANGED disk
    BY <1>2, <2>1, <2>2 DEF Whole, exists
  <2>3. CASE Open
    BY <1>0, <1>2, <2>1, <2>3, OpenDoes DEF Whole, exists, Cut
  <2> QED BY <2>1, <2>2, <2>3
<1>4. CASE Came
  <2>1. at' = at + 1 /\ (at = 1 \/ at = 2)
    BY <1>0, <1>4 DEF Came
  <2>2. CASE at = 1
    <3>1. UNCHANGED disk /\ Decide("ca") = "go"
      BY <1>2, <1>4, <2>2, AfterGuard
    <3>2. ~exists(CaKey) /\ ~exists(CaCrt)
      BY <3>1 DEF Decide, AllOrNothing
    <3> QED BY <2>1, <2>2, <3>1, <3>2 DEF Whole, exists
  <2>3. CASE at = 2
    <3>1. Fill
      BY <1>2, <1>4, <2>3, AfterWrite
    <3>2. disk'[CaKey] = Content(CaKey) /\ disk'[CaCrt] = disk[CaCrt]
      BY <1>0, <1>2, <2>3, <3>1, FillDoes
    <3>3. Content(CaKey).is = "whole"
      BY RenderedFrom DEF Contents
    <3> QED BY <1>2, <2>1, <2>3, <3>2, <3>3 DEF Whole, exists
  <2> QED BY <2>1, <2>2, <2>3
<1> QED BY <1>1, <1>3, <1>4

LEMMA InsideLeafStep ==
    ASSUME IInv, [Next]_vars, NEW i \in I
    PROVE  InsideLeaf(i)'
<1> DEFINE n == identities[i]
           key == Leaf("key", n)
           csr == Leaf("csr", n)
           ext == Leaf("ext", n)
           crt == Leaf("crt", n)
<1>0. /\ n \in Names /\ n # "ca" /\ n # "pkj" /\ n # "secrets" /\ CaCrt \in Files
      /\ key \in Files /\ csr \in Files /\ ext \in Files /\ crt \in Files
  BY Constants, FileSet
<1>1. /\ key # csr /\ key # ext /\ key # crt /\ csr # ext /\ csr # crt /\ ext # crt
      /\ CaCrt # key /\ CaCrt # csr /\ CaCrt # ext /\ CaCrt # crt
      /\ key # RuntimeEnv /\ csr # RuntimeEnv /\ ext # RuntimeEnv /\ crt # RuntimeEnv
  BY Kinds
<1>2. at \in Nat
  BY DEF IInv, Types
<1> SUFFICES ASSUME cmd' = "assets", part' = 1 + i, at' \in {2, 3, 4, 5, 6, 7} PROVE InsideLeaf(i)'
  BY DEF InsideLeaf
<1>3. cmd = "assets" /\ (Came \/ Same) /\ part = 1 + i
  BY CameTo DEF Came, Same
<1>4. /\ at = 1 => Step = Guard(n)
      /\ at = 2 => Step = Write(key)
      /\ at = 3 => Step = Write(csr)
      /\ at = 4 => Step = Write(ext)
      /\ at = 5 => Step = Write(crt)
      /\ at = 6 => Step = unlink(csr)
      /\ at = 7 => Step = unlink(ext)
  <2>1. L \in Nat /\ Len(Steps["assets"]) = L + 9 /\ 1 + i <= L + 9
    BY Constants, Parts DEF I
  <2>2. AtLeaf(i)
    BY <1>3, <2>1, PartIs
  <2> QED BY <2>2 DEF AtLeaf, Here
<1>5. /\ at = 2 => ~Whole(key) /\ ~exists(crt)
      /\ at = 3 => Whole(key) /\ ~exists(crt)
      /\ at = 4 => Whole(key) /\ ~exists(crt) /\ Requested(n)
      /\ at = 5 => Whole(key) /\ ~Whole(crt) /\ Requested(n) /\ exists(ext)
      /\ at = 6 => Matches(n) /\ Requested(n) /\ exists(ext)
      /\ at = 7 => Matches(n) /\ ~exists(csr) /\ exists(ext)
  BY <1>3, LeafPart
<1>6. ASSUME /\ at' = 2 => ~Whole(key)' /\ ~exists(crt)'
             /\ at' = 3 => Whole(key)' /\ ~exists(crt)'
             /\ at' = 4 => Whole(key)' /\ ~exists(crt)' /\ Requested(n)'
             /\ at' = 5 => Whole(key)' /\ ~Whole(crt)' /\ Requested(n)' /\ exists(ext)'
             /\ at' = 6 => Matches(n)' /\ Requested(n)' /\ exists(ext)'
             /\ at' = 7 => Matches(n)' /\ ~exists(csr)' /\ exists(ext)'
      PROVE  InsideLeaf(i)'
  BY <1>6 DEF InsideLeaf
<1> HIDE DEF n, key, csr, ext, crt
<1> USE DEF key, csr, ext, crt
<1>7. ASSUME disk'[csr] = disk[csr], disk'[key] = disk[key], Requested(n) PROVE Requested(n)'
  BY <1>7 DEF Requested
<1>8. ASSUME disk'[crt] = disk[crt], disk'[key] = disk[key], disk'[CaCrt] = disk[CaCrt], Matches(n) PROVE Matches(n)'
  BY <1>8 DEF Matches, Whole
<1> HIDE DEF key, csr, ext, crt
<1>9. CASE Same
  <2>1. at' = at /\ (UNCHANGED disk \/ Open)
    BY <1>9 DEF Same, vars
  <2>2. CASE UNCHANGED disk
    <3>1. Requested(n) => Requested(n)'
      BY <1>7, <2>2
    <3>2. Matches(n) => Matches(n)'
      BY <1>8, <2>2
    <3>3. \A f \in {key, csr, ext, crt} : (Whole(f)' <=> Whole(f)) /\ (exists(f)' <=> exists(f))
      BY <2>2 DEF Whole, exists
    <3> QED BY <1>5, <1>6, <2>1, <3>1, <3>2, <3>3
  <2>3. CASE Open
    <3>0. at \in {2, 3, 4, 5}
      BY <1>4, <2>1, <2>3 DEF Open, Running, unlink
    <3>1. CASE at = 2
      <4>1. disk'[key] = Cut /\ disk'[crt] = disk[crt]
        BY <1>0, <1>1, <1>4, <2>3, <3>1, OpenDoes
      <4> QED BY <1>5, <1>6, <2>1, <3>1, <4>1 DEF Whole, exists, Cut
    <3>2. CASE at = 3
      <4>1. disk'[key] = disk[key] /\ disk'[crt] = disk[crt]
        BY <1>0, <1>1, <1>4, <2>3, <3>2, OpenDoes
      <4> QED BY <1>5, <1>6, <2>1, <3>2, <4>1 DEF Whole, exists
    <3>3. CASE at = 4
      <4>1. disk'[key] = disk[key] /\ disk'[crt] = disk[crt] /\ disk'[csr] = disk[csr]
        BY <1>0, <1>1, <1>4, <2>3, <3>3, OpenDoes
      <4> QED BY <1>5, <1>6, <1>7, <2>1, <3>3, <4>1 DEF Whole, exists
    <3>4. CASE at = 5
      <4>1. disk'[key] = disk[key] /\ disk'[crt] = Cut /\ disk'[csr] = disk[csr] /\ disk'[ext] = disk[ext]
        BY <1>0, <1>1, <1>4, <2>3, <3>4, OpenDoes
      <4> QED BY <1>5, <1>6, <1>7, <2>1, <3>4, <4>1 DEF Whole, exists, Cut
    <3> QED BY <3>0, <3>1, <3>2, <3>3, <3>4
  <2> QED BY <2>1, <2>2, <2>3
<1>10. CASE Came
  <2>1. at' = at + 1 /\ at \in {1, 2, 3, 4, 5, 6}
    BY <1>2, <1>10 DEF Came
  <2>2. CASE at = 1
    <3>1. UNCHANGED disk /\ Decide(n) = "go"
      BY <1>4, <1>10, <2>2, AfterGuard
    <3>2. AllOrNothing({Leaf(k, n) : k \in LeafKinds}, LeafAccepted(n)) = "go"
      BY <1>0, <3>1 DEF Decide
    <3>3. \A k \in LeafKinds : ~exists(Leaf(k, n))
      BY <3>2 DEF AllOrNothing
    <3>4. ~exists(key) /\ ~exists(crt)
      BY <3>3 DEF LeafKinds, key, crt
    <3> QED BY <1>6, <2>1, <2>2, <3>1, <3>4 DEF Whole, exists
  <2>3. CASE at = 2
    <3>1. Fill
      BY <1>4, <1>10, <2>3, AfterWrite
    <3>2. disk'[key] = Content(key) /\ disk'[crt] = disk[crt]
      BY <1>0, <1>1, <1>4, <2>3, <3>1, FillDoes
    <3>3. Content(key).is = "whole"
      BY RenderedFrom DEF Contents
    <3> QED BY <1>5, <1>6, <2>1, <2>3, <3>2, <3>3 DEF Whole, exists
  <2>4. CASE at = 3
    <3>1. Fill
      BY <1>4, <1>10, <2>4, AfterWrite
    <3>2. disk'[csr] = Content(csr) /\ disk'[crt] = disk[crt] /\ disk'[key] = disk[key]
      BY <1>0, <1>1, <1>4, <2>4, <3>1, FillDoes
    <3>3. Requested(n)'
      BY <1>0, <3>2, RenderedFrom DEF Contents, Requested, csr, key
    <3> QED BY <1>5, <1>6, <2>1, <2>4, <3>2, <3>3 DEF Whole, exists
  <2>5. CASE at = 4
    <3>1. Fill
      BY <1>4, <1>10, <2>5, AfterWrite
    <3>2. /\ disk'[ext] = Content(ext)
          /\ disk'[crt] = disk[crt] /\ disk'[key] = disk[key] /\ disk'[csr] = disk[csr]
      BY <1>0, <1>1, <1>4, <2>5, <3>1, FillDoes
    <3>3. Content(ext).is = "whole"
      BY RenderedFrom DEF Contents
    <3>4. Requested(n)'
      BY <1>5, <1>7, <2>5, <3>2
    <3>5. Whole(key)' /\ ~Whole(crt)' /\ exists(ext)'
      BY <1>5, <2>5, <3>2, <3>3 DEF Whole, exists
    <3> QED BY <1>6, <2>1, <2>5, <3>4, <3>5
  <2>6. CASE at = 5
    <3>1. Fill
      BY <1>4, <1>10, <2>6, AfterWrite
    <3>2. /\ disk'[crt] = Content(crt)
          /\ disk'[ext] = disk[ext] /\ disk'[key] = disk[key] /\ disk'[csr] = disk[csr] /\ disk'[CaCrt] = disk[CaCrt]
      BY <1>0, <1>1, <1>4, <2>6, <3>1, FillDoes
    <3>3. Requested(n) /\ exists(ext) /\ Whole(key)
      BY <1>5, <2>6
    <3>4. disk'[crt] = Text([key |-> disk[csr].of.key, ca |-> disk[CaCrt]])
      BY <1>0, <3>2, RenderedFrom DEF Contents, csr, crt
    <3>5. disk[csr].of.key = disk[key]
      BY <3>3, RequestedIsWhole DEF csr, key
    <3>6. disk'[crt].is = "whole" /\ disk'[crt].of = [key |-> disk'[key], ca |-> disk'[CaCrt]]
      BY <3>2, <3>4, <3>5 DEF Text
    <3>7. Matches(n)'
      BY <3>2, <3>3, <3>6 DEF Matches, Whole, key, crt
    <3>8. Requested(n)' /\ exists(ext)'
      BY <1>7, <3>2, <3>3 DEF exists
    <3> QED BY <1>6, <2>1, <2>6, <3>7, <3>8
  <2>7. CASE at = 6
    <3>1. Unlink
      BY <1>4, <1>10, <2>7, AfterUnlink
    <3>2. /\ disk'[csr] = Absent
          /\ disk'[ext] = disk[ext] /\ disk'[key] = disk[key] /\ disk'[crt] = disk[crt] /\ disk'[CaCrt] = disk[CaCrt]
      BY <1>0, <1>1, <1>4, <2>7, <3>1, UnlinkDoes
    <3>3. Matches(n)'
      BY <1>5, <1>8, <2>7, <3>2
    <3>4. ~exists(csr)' /\ exists(ext)'
      BY <1>5, <2>7, <3>2 DEF exists, Absent
    <3> QED BY <1>6, <2>1, <2>7, <3>3, <3>4
  <2> QED BY <2>1, <2>2, <2>3, <2>4, <2>5, <2>6, <2>7
<1> QED BY <1>3, <1>9, <1>10

LEMMA InsidePkjStep ==
    ASSUME IInv, [Next]_vars
    PROVE  InsidePkj'
<1> SUFFICES ASSUME cmd' = "assets", part' = L + 2, at' = 2 \/ at' = 3
             PROVE  /\ at' = 2 => ~Whole(PkjKey)'
                    /\ at' = 3 => Whole(PkjKey)' /\ ~Whole(PkjPub)'
  BY DEF InsidePkj
<1>0. PkjKey \in Files /\ PkjPub \in Files /\ PkjKey # PkjPub /\ PkjKey # RuntimeEnv /\ at \in Nat
  BY FileSet, Kinds DEF IInv, Types
<1>1. cmd = "assets" /\ (Came \/ Same) /\ part = L + 2
  BY CameTo DEF Came, Same
<1>2. /\ at = 1 => Step = Guard("pkj")
      /\ at = 2 => Step = Write(PkjKey)
      /\ at = 3 => Step = Write(PkjPub)
  <2>0. L \in Nat /\ Len(Steps["assets"]) = L + 9
    BY Constants, Parts
  <2>1. AtPkj
    BY <1>1, <2>0, PartIs
  <2> QED BY <2>1 DEF AtPkj, Here
<1>3. /\ at = 2 => ~Whole(PkjKey) /\ ~exists(PkjPub)
      /\ at = 3 => Whole(PkjKey) /\ ~Whole(PkjPub)
  BY <1>1 DEF IInv, Inside, InsidePkj, Fits, PubFits
<1>4. CASE Same
  <2>1. at' = at /\ (UNCHANGED disk \/ Open)
    BY <1>4 DEF Same, vars
  <2>2. CASE UNCHANGED disk
    BY <1>3, <2>1, <2>2 DEF Whole
  <2>3. CASE Open
    BY <1>0, <1>2, <1>3, <2>1, <2>3, OpenDoes DEF Whole, Cut
  <2> QED BY <2>1, <2>2, <2>3
<1>5. CASE Came
  <2>1. at' = at + 1 /\ (at = 1 \/ at = 2)
    BY <1>0, <1>5 DEF Came
  <2>2. CASE at = 1
    <3>1. UNCHANGED disk /\ Decide("pkj") = "go"
      BY <1>2, <1>5, <2>2, AfterGuard
    <3>2. ~exists(PkjKey)
      BY <3>1 DEF Decide
    <3> QED BY <2>1, <2>2, <3>1, <3>2 DEF Whole, exists
  <2>3. CASE at = 2
    <3>1. Fill
      BY <1>2, <1>5, <2>3, AfterWrite
    <3>2. disk'[PkjKey] = Content(PkjKey) /\ disk'[PkjPub] = disk[PkjPub]
      BY <1>0, <1>2, <2>3, <3>1, FillDoes
    <3>3. Content(PkjKey).is = "whole"
      BY RenderedFrom DEF Contents
    <3> QED BY <1>3, <2>1, <2>3, <3>2, <3>3 DEF Whole, exists
  <2> QED BY <2>1, <2>2, <2>3
<1> QED BY <1>1, <1>4, <1>5

LEMMA InsideSecretsStep ==
    ASSUME IInv, [Next]_vars
    PROVE  InsideSecrets'
<1> SUFFICES ASSUME cmd' = "assets", part' = L + 4, at' = 2 PROVE ~Whole(Secrets)'
  BY DEF InsideSecrets
<1>0. Secrets \in Files /\ at \in Nat
  BY FileSet DEF IInv, Types
<1>1. cmd = "assets" /\ (Came \/ Same) /\ part = L + 4
  BY CameTo DEF Came, Same
<1>2. (at = 1 => Step = Guard("secrets")) /\ (at = 2 => Step = Write(Secrets))
  <2>0. L \in Nat /\ Len(Steps["assets"]) = L + 9
    BY Constants, Parts
  <2>1. AtSecrets
    BY <1>1, <2>0, PartIs
  <2> QED BY <2>1 DEF AtSecrets, Here
<1>3. at = 2 => ~Whole(Secrets)
  BY <1>1 DEF IInv, Inside, InsideSecrets
<1>4. CASE Same
  <2>1. at = 2 /\ (UNCHANGED disk \/ Open)
    BY <1>4 DEF Same, vars
  <2>2. CASE UNCHANGED disk
    BY <1>3, <2>1, <2>2 DEF Whole
  <2>3. CASE Open
    BY <1>0, <1>2, <2>1, <2>3, OpenDoes DEF Whole, Cut
  <2> QED BY <2>1, <2>2, <2>3
<1>5. CASE Came
  <2>1. at = 1
    BY <1>0, <1>5 DEF Came
  <2>2. UNCHANGED disk /\ Decide("secrets") = "go"
    BY <1>2, <1>5, <2>1, AfterGuard
  <2>3. ~exists(Secrets)
    BY <2>2 DEF Decide
  <2> QED BY <2>2, <2>3 DEF Whole, exists
<1> QED BY <1>1, <1>4, <1>5
-----------------------------------------------------------------------------
(***************************************************************************)
(* The open output, and the invariant of the specification.                *)
(***************************************************************************)
\* The files that are opened, cut and filled.
LEMMA OpenFiles ==
    ASSUME Types, cmd # "none", part <= Len(Steps[cmd]), Step.do = "write"
    PROVE  \E f \in Files : /\ Step = Write(f)
                            /\ \/ f \in {CaKey, CaCrt, PkjKey, PkjPub, Jwk, JwkEnv, Secrets, Realm, DeckEnv, Users, Manifest}
                               \/ \E n \in Names : f \in {Leaf("key", n), Leaf("csr", n), Leaf("ext", n), Leaf("crt", n)}
                               \/ f = RuntimeEnv /\ cmd = "env"
<1> USE FileSet
<1>1. CASE AtEnv
  BY <1>1 DEF AtEnv, Here
<1>2. CASE AtCa
  BY <1>2 DEF AtCa, Here, Guard
<1>3. ASSUME NEW i \in I, AtLeaf(i)
      PROVE  \E n \in Names : \E f \in {Leaf("key", n), Leaf("csr", n), Leaf("ext", n), Leaf("crt", n)} :
                f \in Files /\ Step = Write(f)
  <2> DEFINE n == identities[i]
  <2>1. n \in Names
    BY Constants
  <2>2. \E f \in {Leaf("key", n), Leaf("csr", n), Leaf("ext", n), Leaf("crt", n)} : Step = Write(f)
    BY <1>3 DEF AtLeaf, Here, Guard, unlink
  <2> HIDE DEF n
  <2> QED BY <2>1, <2>2
<1>4. CASE AtPkj
  BY <1>4 DEF AtPkj, Here, Guard
<1>5. CASE AtJwk
  BY <1>5 DEF AtJwk, Here
<1>6. CASE AtSecrets
  BY <1>6 DEF AtSecrets, Here, Guard
<1>7. CASE AtRealm
  BY <1>7 DEF AtRealm, Here
<1>8. ~AtRuntime /\ (\A k \in K : ~AtRole(k)) /\ (\A k \in K : ~AtRoleEnv(k))
  BY DEF AtRuntime, AtRole, AtRoleEnv, Here, safe_write
<1>9. CASE AtUsers
  BY <1>9 DEF AtUsers, Here
<1> QED BY <1>1, <1>2, <1>3, <1>4, <1>5, <1>6, <1>7, <1>8, <1>9, Where

\* Cutting a file leaves what it will hold as it was: no other file reads it.
LEMMA StillFollows ==
    ASSUME IInv, Open, NEW f \in Files, Step = Write(f),
           \/ f \in {CaKey, CaCrt, PkjKey, PkjPub, Jwk, JwkEnv, Secrets, Realm, DeckEnv, Users, Manifest}
           \/ \E n \in Names : f \in {Leaf("key", n), Leaf("csr", n), Leaf("ext", n), Leaf("crt", n)}
           \/ f = RuntimeEnv /\ cmd = "env"
    PROVE  Usable(f)' /\ (f # RuntimeEnv => Content(f)' = Content(f))
<1>1. Usable(f) /\ \A g \in Files : g # f => disk'[g] = disk[g]
  BY OpenDoes
<1>2. made' = made /\ cmd' = cmd
  BY DEF Open
<1>3. Contents /\ Contents' /\ Needs /\ Needs'
  BY RenderedFrom, NeededFor, NextRendered
<1> USE FileSet
<1>4. CASE f = CaKey \/ f = PkjKey \/ f = Secrets \/ f = Manifest
  BY <1>2, <1>3, <1>4 DEF Contents, Needs
<1>5. CASE f = CaCrt
  <2>1. disk'[CaKey] = disk[CaKey]
    BY <1>1, <1>5, Kinds
  <2> QED BY <1>3, <1>5, <2>1 DEF Contents, Needs
<1>6. CASE f = PkjPub \/ f = Jwk \/ f = JwkEnv
  <2>1. disk'[PkjKey] = disk[PkjKey]
    BY <1>1, <1>6, Kinds
  <2>2. Whole(PkjKey)
    BY <1>1, <1>3, <1>6 DEF Needs
  <2>3. Whole(PkjKey)'
    BY <2>1, <2>2 DEF Whole
  <2> QED BY <1>3, <1>6, <2>1, <2>3 DEF Contents, Needs
<1>7. CASE f = Realm
  <2>1. disk'[PkjPub] = disk[PkjPub] /\ disk'[JwkEnv] = disk[JwkEnv] /\ disk'[Secrets] = disk[Secrets]
    BY <1>1, <1>7, Kinds
  <2>2. exists(PkjPub)' /\ Whole(JwkEnv)'
    <3>1. exists(PkjPub) /\ Whole(JwkEnv)
      BY <1>1, <1>3, <1>7 DEF Needs
    <3> QED BY <2>1, <3>1 DEF exists, Whole
  <2> QED BY <1>3, <1>7, <2>1, <2>2 DEF Contents, Needs
<1>8. CASE f = DeckEnv
  <2>1. disk'[JwkEnv] = disk[JwkEnv] /\ disk'[Secrets] = disk[Secrets]
    BY <1>1, <1>8, Kinds
  <2>2. Whole(Secrets)' /\ Whole(JwkEnv)'
    <3>1. Whole(Secrets) /\ Whole(JwkEnv)
      BY <1>1, <1>3, <1>8 DEF Needs
    <3> QED BY <2>1, <3>1 DEF Whole
  <2> QED BY <1>3, <1>8, <2>1, <2>2 DEF Contents, Needs
<1>9. CASE f = Users
  <2>1. disk'[Secrets] = disk[Secrets]
    BY <1>1, <1>9, Kinds
  <2>2. Whole(Secrets)'
    <3>1. Whole(Secrets)
      BY <1>1, <1>3, <1>9 DEF Needs
    <3> QED BY <2>1, <3>1 DEF Whole
  <2> QED BY <1>3, <1>9, <2>1, <2>2 DEF Contents, Needs
<1>10. ASSUME NEW n \in Names, f \in {Leaf("key", n), Leaf("csr", n), Leaf("ext", n), Leaf("crt", n)}
       PROVE  Usable(f)' /\ Content(f)' = Content(f)
  <2>1. CASE f = Leaf("key", n) \/ f = Leaf("ext", n)
    <3>1. Usable(Leaf("key", n))' /\ Usable(Leaf("ext", n))'
      BY <1>3 DEF Needs
    <3>2. Content(Leaf("key", n))' = Content(Leaf("key", n)) /\ Content(Leaf("ext", n))' = Content(Leaf("ext", n))
      BY <1>2, <1>3 DEF Contents
    <3> QED BY <2>1, <3>1, <3>2
  <2>2. CASE f = Leaf("csr", n)
    <3>1. disk'[Leaf("key", n)] = disk[Leaf("key", n)]
      BY <1>1, <2>2, Kinds
    <3>2. Whole(Leaf("key", n))'
      <4>1. Whole(Leaf("key", n))
        BY <1>1, <1>3, <2>2 DEF Needs
      <4> QED BY <3>1, <4>1 DEF Whole
    <3> QED BY <1>3, <2>2, <3>1, <3>2 DEF Contents, Needs
  <2>3. CASE f = Leaf("crt", n)
    <3>1. /\ disk'[Leaf("csr", n)] = disk[Leaf("csr", n)] /\ disk'[Leaf("ext", n)] = disk[Leaf("ext", n)]
          /\ disk'[CaCrt] = disk[CaCrt] /\ disk'[CaKey] = disk[CaKey]
      BY <1>1, <2>3, Kinds
    <3>2. Whole(CaKey)' /\ Whole(CaCrt)' /\ Whole(Leaf("csr", n))' /\ Whole(Leaf("ext", n))'
      <4>1. Whole(CaKey) /\ Whole(CaCrt) /\ Whole(Leaf("csr", n)) /\ Whole(Leaf("ext", n))
        BY <1>1, <1>3, <2>3 DEF Needs
      <4> QED BY <3>1, <4>1 DEF Whole
    <3> QED BY <1>3, <2>3, <3>1, <3>2 DEF Contents, Needs
  <2> QED BY <1>10, <2>1, <2>2, <2>3
<1>11. CASE f = RuntimeEnv /\ cmd = "env"
  BY <1>2, <1>3, <1>11 DEF Needs
<1> QED BY <1>4, <1>5, <1>6, <1>7, <1>8, <1>9, <1>10, <1>11

LEMMA OpenedStep ==
    ASSUME IInv, [Next]_vars
    PROVE  Opened'
<1> SUFFICES ASSUME opened' # Absent PROVE Opened'
  BY DEF Opened
<1>1. Open \/ UNCHANGED vars
  <2>1. CASE opened = Absent
    BY <2>1 DEF Next, Start, Check, Fail, Fill, Replace, Unlink, Unusable, Ends, Stopped
  <2>2. CASE opened # Absent
    <3>1. cmd # "none" /\ part <= Len(Steps[cmd]) /\ Step.do = "write" /\ part \in Nat
      BY <2>2 DEF IInv, Opened, Types
    <3>2. ~Ends
      <4>0. L \in Nat /\ Len(Steps["env"]) = 1 /\ Len(Steps["assets"]) = L + 9
        BY EnvParts, Parts, Constants
      <4>1. cmd \in {"assets", "env"} /\ Len(Steps["env"]) \in Nat /\ Len(Steps["assets"]) \in Nat
        BY <3>1, <4>0 DEF IInv, Types
      <4>2. Len(Steps[cmd]) \in Nat
        BY <4>1
      <4> QED BY <3>1, <4>2 DEF Ends
    <3>3. ~Fill /\ ~Stopped /\ ~Unusable
      BY DEF Fill, Stopped, Unusable, Fail
    <3>4. ~Check /\ ~Replace /\ ~Unlink /\ \A c \in {"assets", "env"} : ~Start(c)
      BY <3>1 DEF Check, Replace, Unlink, Running, Start
    <3> QED BY <3>2, <3>3, <3>4 DEF Next
  <2> QED BY <2>1, <2>2
<1>2. CASE Open
  <2>1. cmd # "none" /\ part <= Len(Steps[cmd]) /\ Step.do = "write" /\ UNCHANGED <<cmd, part, at>>
    BY <1>2 DEF Open, Running
  <2>2. PICK f \in Files :
           /\ Step = Write(f)
           /\ \/ f \in {CaKey, CaCrt, PkjKey, PkjPub, Jwk, JwkEnv, Secrets, Realm, DeckEnv, Users, Manifest}
              \/ \E n \in Names : f \in {Leaf("key", n), Leaf("csr", n), Leaf("ext", n), Leaf("crt", n)}
              \/ f = RuntimeEnv /\ cmd = "env"
    BY <2>1, OpenFiles DEF IInv
  <2>3. Usable(f)' /\ (f # RuntimeEnv => Content(f)' = Content(f))
    BY <1>2, <2>2, StillFollows
  <2>4. disk'[f] = Cut /\ opened' = Content(f)
    BY <1>2, <2>2, OpenDoes
  <2>5. Step' = Write(f)
    BY <2>1, <2>2 DEF Step
  <2>6. (Step.file)' = f /\ (Step.do)' = "write"
    BY <2>5 DEF Write
  <2>7. opened'.is = "whole"
    BY <2>4, RenderedFrom DEF Contents
  <2>8. Usable(Step.file)' /\ (Step.file # RuntimeEnv => opened = Content(Step.file))'
    <3>1. Usable(Step.file)'
      BY <2>3, <2>6 DEF Usable, Inputs
    <3>2. (Step.file # RuntimeEnv => opened = Content(Step.file))'
      BY <2>3, <2>4, <2>6, SMTT(30) DEF Content
    <3> QED BY <3>1, <3>2
  <2> QED BY <2>1, <2>4, <2>6, <2>7, <2>8 DEF Opened
<1>3. CASE UNCHANGED vars
  BY <1>3, Zenon DEF vars, IInv, Opened, Step, Usable, Content, Inputs, Whole, exists, Pairs, Keys, Kept
<1> QED BY <1>1, <1>2, <1>3

LEMMA InitIInv ==
    ASSUME Init
    PROVE  IInv
<1>1. \A f \in Files : disk[f] = Absent
  BY DEF Init
<1>2. \A f \in Files : ~exists(f) /\ ~Whole(f)
  BY <1>1 DEF exists, Whole, Absent
<1>3. cmd = "none" /\ done = "none" /\ opened = Absent
  BY DEF Init
<1>4. Types
  BY DEF Types, Init
<1>5. Shapes
  BY <1>1, <1>3 DEF Shapes
<1>6. Opened /\ Inside
  BY <1>3 DEF Opened, Inside, InsideCa, InsideLeaf, InsidePkj, InsideSecrets
<1>7. Fits /\ Credentials
  BY <1>2, FileSet DEF Fits, CaFits, LeafFits, PubFits, RoleFits, Credentials
<1>8. \A p, k : ~Past(p, k)
  BY <1>3 DEF Past
<1>9. Progress
  BY <1>8 DEF Progress, PastLeaves, PastJwk, PastRealm, PastSecrets, PastRoles, PastUsers
<1> QED BY <1>4, <1>5, <1>6, <1>7, <1>9 DEF IInv

LEMMA NextIInv ==
    ASSUME IInv, [Next]_vars
    PROVE  IInv'
<1>1. Types' /\ Shapes'
  BY TypesStep, ShapesStep DEF IInv
<1>2. Opened'
  BY OpenedStep
<1>3. Inside'
  BY InsideCaStep, InsideLeafStep, InsidePkjStep, InsideSecretsStep DEF Inside
<1>4. Fits'
  BY CaFitsStep, LeafFitsStep, PubFitsStep, RoleFitsStep DEF Fits
<1>5. Progress'
  BY PastLeavesStep, PastJwkStep, PastRealmStep, PastSecretsStep, PastRolesStep, PastUsersStep DEF Progress
<1>6. Credentials'
  BY CredentialsStep
<1> QED BY <1>1, <1>2, <1>3, <1>4, <1>5, <1>6 DEF IInv

(* The two commands keep the inductive invariant: every file they leave on    *)
(* disk, whole or cut, is accounted for by the guards of a later run.         *)
THEOREM AssetsInvariant == Spec => []IInv
BY InitIInv, NextIInv, PTL DEF Spec
-----------------------------------------------------------------------------
(***************************************************************************)
(* What the runs check.                                                    *)
(***************************************************************************)
LEMMA InvAccepted ==
    ASSUME IInv
    PROVE  AcceptedIsComplete
<1> SUFFICES ASSUME NEW n \in Names, LeafAccepted(n)
             PROVE  Matches(n) /\ disk[CaCrt] = Text([key |-> disk[CaKey]])
  BY DEF AcceptedIsComplete
<1>1. Matches(n) /\ Whole(CaCrt)
  BY DEF IInv, Fits, LeafFits, LeafAccepted
<1> QED BY <1>1 DEF IInv, Fits, CaFits

LEMMA InvRoles ==
    ASSUME IInv
    PROVE  RolesUsable
<1> SUFFICES ASSUME NEW r \in Roles, exists(Role(r))
             PROVE  /\ Whole(Role(r))
                    /\ \A n \in OfRole(r) : LET p == disk[Role(r)].of.pair[n]
                                             IN  p[2] = Text([key |-> p[1], ca |-> disk[Role(r)].of.ca])
                    /\ exists(RoleEnv(r)) =>
                         /\ Whole(RoleEnv(r))
                         /\ disk[RoleEnv(r)].of.keys = [n \in OfRole(r) |-> disk[Role(r)].of.pair[n][1]]
  BY DEF RolesUsable
<1>1. /\ \A n \in OfRole(r) : LeafAccepted(n)
      /\ disk[Role(r)] = Text([ca |-> disk[CaCrt], pair |-> Pairs(r)])
      /\ exists(RoleEnv(r)) => Whole(RoleEnv(r)) /\ disk[RoleEnv(r)].of.keys = Keys(r)
  BY DEF IInv, Fits, RoleFits
<1>2. disk[Role(r)].is = "whole" /\ disk[Role(r)].of.ca = disk[CaCrt] /\ disk[Role(r)].of.pair = Pairs(r)
  BY <1>1 DEF Text
<1>3. \A n \in OfRole(r) : Pairs(r)[n][1] = disk[Leaf("key", n)] /\ Pairs(r)[n][2] = disk[Leaf("crt", n)]
  BY DEF Pairs
<1>4. ASSUME NEW n \in OfRole(r)
      PROVE  disk[Leaf("crt", n)] = Text([key |-> disk[Leaf("key", n)], ca |-> disk[CaCrt]])
  <2>1. n \in Names
    BY DEF OfRole
  <2>2. Matches(n)
    BY <1>1, <2>1, InvAccepted DEF AcceptedIsComplete
  <2>3. disk[Leaf("crt", n)].is = "whole" /\ disk[Leaf("crt", n)].of = [key |-> disk[Leaf("key", n)], ca |-> disk[CaCrt]]
    BY <2>2 DEF Matches, Whole
  <2>4. Leaf("crt", n) \in Files
    BY <2>1, FileSet
  <2>5. disk[Leaf("crt", n)] = Text(disk[Leaf("crt", n)].of)
    BY <2>3, <2>4 DEF IInv, Shapes, Absent, Cut
  <2> QED BY <2>3, <2>5
<1>5. \A n \in OfRole(r) : LET p == disk[Role(r)].of.pair[n]
                            IN  p[2] = Text([key |-> p[1], ca |-> disk[Role(r)].of.ca])
  BY <1>2, <1>3, <1>4
<1>6. Keys(r) = [n \in OfRole(r) |-> disk[Role(r)].of.pair[n][1]]
  BY <1>2, <1>3 DEF Keys
<1> QED BY <1>1, <1>2, <1>5, <1>6 DEF Whole

LEMMA InvCompleted ==
    ASSUME IInv
    PROVE  CompletedAgrees
<1> SUFFICES ASSUME done = "assets" PROVE CompletedAgrees
  BY DEF CompletedAgrees
<1>1. cmd = "none" /\ \A p, k : Past(p, k)
  BY DEF IInv, Types, Past
<1>2. Progress
  BY DEF IInv
<1>3. \A n \in Names : Matches(n)
  <2>1. \A i \in I : LeafAccepted(identities[i])
    BY <1>1, <1>2 DEF Progress, PastLeaves
  <2> QED BY <2>1, Constants, InvAccepted DEF AcceptedIsComplete
<1>4. disk[Jwk] = Text([key |-> disk[PkjKey]]) /\ disk[JwkEnv] = disk[Jwk]
  BY <1>1, <1>2 DEF Progress, PastJwk
<1>5. ASSUME NEW r \in Roles
      PROVE  Whole(Role(r)) /\ Whole(RoleEnv(r)) /\ disk[RoleEnv(r)].of.jwk \in {Absent, disk[Jwk]}
  <2>1. PICK k \in K : roles[k] = r
    BY Constants
  <2>2. exists(Role(r)) /\ exists(RoleEnv(r)) /\ disk[RoleEnv(r)].of.jwk \in {Absent, disk[Jwk]}
    BY <1>1, <1>2, <2>1 DEF Progress, PastRoles
  <2> QED BY <2>2, InvRoles DEF RolesUsable
<1>6. disk[DeckEnv] = Text([secrets |-> disk[Secrets], kid |-> disk[Jwk]])
  BY <1>1, <1>2, <1>4 DEF Progress, PastRealm
<1>7. disk[RuntimeEnv] = Text([admin |-> disk[Secrets], hosts |-> Absent]) /\ disk[Users] = Text([users |-> disk[Secrets]])
  BY <1>1, <1>2 DEF Progress, PastSecrets, PastUsers
<1>8. \E p \in {disk[Jwk]} \cup (IF PkjPub \in halved THEN {Cut} ELSE {}) :
         disk[Realm] = Text([users |-> disk[Secrets], pub |-> p, kid |-> disk[Jwk]])
  <2>1. exists(PkjPub) /\ disk[Realm] = Text([users |-> disk[Secrets], pub |-> disk[PkjPub], kid |-> disk[Jwk]])
    BY <1>1, <1>2, <1>4 DEF Progress, PastRealm
  <2>2. disk[PkjPub] = disk[Jwk] \/ (disk[PkjPub] = Cut /\ PkjPub \in halved)
    BY <1>1, <1>4, <2>1 DEF IInv, Fits, PubFits
  <2> QED BY <2>1, <2>2
<1> QED BY <1>3, <1>4, <1>5, <1>6, <1>7, <1>8 DEF CompletedAgrees

LEMMA InvCredentials ==
    ASSUME IInv
    PROVE  CredentialsKept
<1> SUFFICES ASSUME Whole(RuntimeEnv), RuntimeEnv \notin halved, \E r \in Roles : exists(Role(r))
             PROVE  disk[RuntimeEnv].of.admin = disk[Secrets]
  BY DEF CredentialsKept
<1> SUFFICES ASSUME cmd = "env", part = 1, at = 2, opened # Absent PROVE FALSE
  BY DEF IInv, Credentials
<1>1. Step.file = RuntimeEnv
  BY EnvParts DEF Step, Write
<1> QED BY <1>1 DEF IInv, Opened, Whole, Cut

(* A run of generate-dev-assets.sh takes an identity for complete only if its *)
(* certificate is whole, certifies the key beside it and was issued by the CA *)
(* certificate on disk, for any identities and wherever earlier runs were     *)
(* stopped.                                                                   *)
THEOREM AcceptedComplete == Spec => []AcceptedIsComplete
BY AssetsInvariant, InvAccepted, PTL

(* The role files that decK and the containers read are whole, pair each key  *)
(* with its certificate, and agree with each other, at every moment.          *)
THEOREM RoleFilesUsable == Spec => []RolesUsable
BY AssetsInvariant, InvRoles, PTL

(* What a successful run rendered agrees with the keys and passwords on disk, *)
(* and render-runtime-env.py keeps the credentials it finds.                  *)
THEOREM RenderedFilesAgree == Spec => []RenderedAgrees
<1>1. IInv => RenderedAgrees
  BY InvCompleted, InvCredentials DEF RenderedAgrees
<1> QED BY <1>1, AssetsInvariant, PTL

(* No key, certificate or password that was written is ever replaced.         *)
THEOREM KeysAreKept == Spec => KeysKept
<1>1. IInv /\ [Next]_vars => [\A f \in Private : Whole(f) => disk'[f] = disk[f]]_vars
  BY KeptStep DEF IInv
<1> QED BY <1>1, AssetsInvariant, PTL DEF Spec, KeysKept
=============================================================================
