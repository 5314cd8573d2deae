----------------------------- MODULE DevAssets ------------------------------
(* scripts/generate-dev-assets.sh with generate-pki.py, export-rsa-jwk.py,    *)
(* render-keycloak-realm.py and render-runtime-secrets.py, and the separate   *)
(* command render-runtime-env.py. A command may be killed, or run out of disk *)
(* space, at any moment, and the operator starts it again on what it left.    *)
(*                                                                            *)
(* A file is Absent, Cut (created or truncated, its content not written yet)  *)
(* or a Text with its content. Key material and passwords are numbers; a      *)
(* certificate is the key it certifies and the CA certificate that issued it. *)
EXTENDS Integers, Sequences, Functions

CONSTANTS identities,  \* sequence of the leaf identities
          roles,       \* sequence of the roles with files of their own
          RoleOf,      \* identity -> the role it is rendered for, if it has one
          MaxStops,    \* how often a command is stopped half-way
          MaxRuns      \* how many commands are started
VARIABLES disk,        \* file -> Absent, Cut or Text
          cmd,         \* the command running ("none" if none),
          part, at,    \* and its next step: step at of part part
          opened,      \* what the open output of that step will hold, or Absent
          made,        \* key material made so far
          runs, stops,
          done,        \* the command that ended last: "none" if it did not succeed
          halved       \* history: files a stopped command left Cut, until replaced
vars == <<disk, cmd, part, at, opened, made, runs, stops, done, halved>>

Names == Range(identities)
Roles == Range(roles)
ASSUME AssetsAssumption ==
    /\ identities \in Seq(Names) /\ Len(identities) > 0 /\ IsInjective(identities)
    /\ roles \in Seq(Roles) /\ Len(roles) > 0 /\ IsInjective(roles)
    /\ Names \cap {"ca", "pkj", "secrets"} = {}
    /\ MaxStops \in Nat /\ MaxRuns \in Nat

Leaf(kind, n) == <<kind, n>>
LeafKinds == {"key", "csr", "ext", "crt"}
Single(name) == <<name, "">>
CaKey == Single("ca.key")
CaCrt == Single("ca.crt")
PkjKey == Single("route-b-pkj.key")
PkjPub == Single("route-b-pkj.pub")
Jwk == Single("route-b-private.jwk")
JwkEnv == Single("route-b-jwk.env")
Secrets == Single("secrets.env")
Realm == Single("realm.json")
DeckEnv == Single("deck.env")
RuntimeEnv == Single("runtime.env")
Users == Single("demo-users.txt")
Manifest == Single("gateway_targets.json")
Role(r) == <<"role", r>>         \* runtime-<role>.json, for decK
RoleEnv(r) == <<"env", r>>       \* runtime-<role>.env, for the containers
Files == {CaKey, CaCrt, PkjKey, PkjPub, Jwk, JwkEnv, Secrets, Realm, DeckEnv, RuntimeEnv, Users, Manifest}
         \cup {Leaf(k, n) : k \in LeafKinds, n \in Names} \cup {Role(r) : r \in Roles} \cup {RoleEnv(r) : r \in Roles}

Absent == [is |-> "absent"]
Cut == [is |-> "cut"]
Text(c) == [is |-> "whole", of |-> c]
exists(f) == disk[f].is /= "absent"
Whole(f) == disk[f].is = "whole"

-----------------------------------------------------------------------------
(* The commands as sequences of parts, and a part as a sequence of steps. A   *)
(* guard tests what is there and may skip the rest of its part; a write       *)
(* creates or truncates its file and then fills it; safe_write replaces its   *)
(* file at once.                                                              *)

Guard(group) == [do |-> "guard", group |-> group]
Write(f) == [do |-> "write", file |-> f]
unlink(f) == [do |-> "remove", file |-> f]
safe_write_in_place(f) == [do |-> "write", file |-> f]
safe_write(f) == [do |-> "replace", file |-> f]

ensure_ca == <<Guard("ca"), Write(CaKey), Write(CaCrt)>>
issue(n) == <<Guard(n), Write(Leaf("key", n)), Write(Leaf("csr", n)), Write(Leaf("ext", n)), Write(Leaf("crt", n)),
              unlink(Leaf("csr", n)), unlink(Leaf("ext", n))>>
generate_pki == <<ensure_ca>> \o [i \in 1 .. Len(identities) |-> issue(identities[i])]
route_b_pkj == <<Guard("pkj"), Write(PkjKey), Write(PkjPub)>>
export_rsa_jwk == <<Write(Jwk), Write(JwkEnv)>>
secrets_env == <<Guard("secrets"), Write(Secrets)>>
render_realm == <<Write(Realm), Write(DeckEnv)>>
render_runtime_secrets == <<<<safe_write(RuntimeEnv)>>,
                            [k \in 1 .. Len(roles) |-> safe_write(Role(roles[k]))],
                            [k \in 1 .. Len(roles) |-> safe_write(RoleEnv(roles[k]))]>>
generate_dev_assets == generate_pki \o <<route_b_pkj, export_rsa_jwk, secrets_env, render_realm>>
                       \o render_runtime_secrets \o <<<<Write(Users)>>>>
render_runtime_env == <<<<Write(Manifest), Write(RuntimeEnv)>>>>
Steps == [assets |-> generate_dev_assets, env |-> render_runtime_env]

\* What the guards decide: "skip" the group, "go" on, or "refuse".
AllOrNothing(files, complete) == IF \A f \in files : ~exists(f) THEN "go" ELSE IF complete THEN "skip" ELSE "refuse"
LeafAcceptedByPair(n) == exists(Leaf("crt", n)) /\ exists(Leaf("key", n))
LeafAccepted(n) == /\ exists(Leaf("crt", n)) /\ exists(Leaf("key", n))
                   /\ ~exists(Leaf("csr", n)) /\ ~exists(Leaf("ext", n))
RegenerateUnlessComplete(group) ==
    CASE group = "ca" -> AllOrNothing({CaKey, CaCrt}, exists(CaKey) /\ exists(CaCrt))
      [] group = "pkj" -> IF exists(PkjKey) THEN "skip" ELSE "go"
      [] group = "secrets" -> IF exists(Secrets) THEN "skip" ELSE "go"
      [] OTHER -> IF LeafAccepted(group) THEN "skip" ELSE "go"
Decide(group) ==
    CASE group = "ca" -> AllOrNothing({CaKey, CaCrt}, exists(CaKey) /\ exists(CaCrt))
      [] group = "pkj" -> IF exists(PkjKey) THEN "skip" ELSE "go"
      [] group = "secrets" -> IF exists(Secrets) THEN "skip" ELSE "go"
      [] OTHER -> AllOrNothing({Leaf(k, group) : k \in LeafKinds}, LeafAccepted(group))

\* The inputs a step must be able to use, or the command fails.
Inputs(f) ==
    CASE f[1] = "csr" -> {Leaf("key", f[2])}
      [] f[1] = "crt" -> {CaKey, CaCrt, Leaf("csr", f[2]), Leaf("ext", f[2])}
      [] f = PkjPub \/ f = Jwk \/ f = JwkEnv -> {PkjKey}
      [] f = DeckEnv -> {Secrets, JwkEnv}       \* set -u: each variable must be there
      [] f = RuntimeEnv -> IF cmd = "assets" THEN {Secrets, Jwk} ELSE {}
      [] f[1] \in {"role", "env"} -> {}     \* PEM files are copied as text
      [] f = Users -> {Secrets}
      [] OTHER -> {}
\* render-keycloak-realm.py also reads the public key, as text.
Usable(f) == /\ \A g \in Inputs(f) : Whole(g)
             /\ f = Realm => exists(PkjPub) /\ Whole(JwkEnv)
Fresh == {CaKey, PkjKey, Secrets} \cup {Leaf("key", n) : n \in Names}
\* render-runtime-env.py keeps the lines that are not about Konnect.
Kept == IF Whole(RuntimeEnv) THEN disk[RuntimeEnv].of.admin ELSE Absent
Targets == {"targets"}
OfRole(r) == {n \in Names : RoleOf[n] = r}
Pairs(r) == [n \in OfRole(r) |-> <<disk[Leaf("key", n)], disk[Leaf("crt", n)]>>]
Keys(r) == [n \in OfRole(r) |-> disk[Leaf("key", n)]]
Content(f) == Text(
    CASE f \in Fresh -> made
      [] f = CaCrt -> [key |-> disk[CaKey]]
      [] f[1] = "csr" -> [key |-> disk[Leaf("key", f[2])]]
      [] f[1] = "ext" -> "extensions"
      [] f[1] = "crt" -> [key |-> disk[Leaf("csr", f[2])].of.key, ca |-> disk[CaCrt]]
      [] f = PkjPub \/ f = Jwk \/ f = JwkEnv -> [key |-> disk[PkjKey]]
      [] f = Realm -> [users |-> disk[Secrets], pub |-> disk[PkjPub], kid |-> disk[JwkEnv]]
      [] f = DeckEnv -> [secrets |-> disk[Secrets], kid |-> disk[JwkEnv]]
      [] f = Users -> [users |-> disk[Secrets]]
      [] f[1] = "role" -> [ca |-> disk[CaCrt], pair |-> Pairs(f[2])]
      [] f[1] = "env" -> [keys |-> Keys(f[2]), jwk |-> IF f[2] = "third-party" THEN disk[Jwk] ELSE Absent]
      [] f = Manifest -> Targets
      [] OTHER -> IF cmd = "assets" THEN [admin |-> disk[Secrets], hosts |-> Absent]
                  ELSE [admin |-> Kept, hosts |-> disk[Manifest]])

-----------------------------------------------------------------------------
Init == /\ disk = [f \in Files |-> Absent] /\ cmd = "none" /\ part = 0 /\ at = 0 /\ opened = Absent /\ made = 1
        /\ runs = 0 /\ stops = 0 /\ done = "none" /\ halved = {}

Start(c) == /\ cmd = "none" /\ runs < MaxRuns /\ cmd' = c /\ part' = 1 /\ at' = 1 /\ runs' = runs + 1 /\ done' = "none"
            /\ UNCHANGED <<disk, opened, made, stops, halved>>
Step == Steps[cmd][part][at]
Running(do) == cmd /= "none" /\ part <= Len(Steps[cmd]) /\ Step.do = do
SkipPart == part' = part + 1 /\ at' = 1
Advance == IF at < Len(Steps[cmd][part]) THEN at' = at + 1 /\ UNCHANGED part ELSE SkipPart
Fail == cmd' = "none" /\ part' = 0 /\ at' = 0 /\ opened' = Absent
Check == /\ Running("guard")
         /\ LET d == Decide(Step.group)
            IN  \/ d = "refuse" /\ Fail
                \/ d = "go" /\ Advance /\ UNCHANGED <<cmd, opened>>
                \/ d = "skip" /\ SkipPart /\ UNCHANGED <<cmd, opened>>
         /\ UNCHANGED <<disk, made, runs, stops, done, halved>>
\* The new content is computed before the file is truncated.
Open == /\ Running("write") /\ opened = Absent /\ Usable(Step.file)
        /\ opened' = Content(Step.file)
        /\ disk' = [disk EXCEPT ![Step.file] = Cut]
        /\ UNCHANGED <<cmd, part, at, made, runs, stops, done, halved>>
Fill == /\ Running("write") /\ opened /= Absent
        /\ disk' = [disk EXCEPT ![Step.file] = opened]
        /\ made' = IF Step.file \in Fresh THEN made + 1 ELSE made
        /\ Advance /\ opened' = Absent /\ UNCHANGED <<cmd, runs, stops, done, halved>>
Replace == /\ Running("replace") /\ Usable(Step.file)
           /\ disk' = [disk EXCEPT ![Step.file] = Content(Step.file)]
           /\ halved' = halved \ {Step.file}
           /\ Advance /\ UNCHANGED <<cmd, opened, made, runs, stops, done>>
Unlink == /\ Running("remove") /\ disk' = [disk EXCEPT ![Step.file] = Absent]
          /\ Advance /\ UNCHANGED <<cmd, opened, made, runs, stops, done, halved>>
UnusableRealmIgnored ==
    /\ Running("write") \/ Running("replace")
    /\ opened = Absent /\ ~Usable(Step.file)
    /\ IF Step.file = Realm THEN Advance /\ UNCHANGED <<cmd, opened>> ELSE Fail
    /\ UNCHANGED <<disk, made, runs, stops, done, halved>>
\* An input is missing or unusable: openssl or a script fails and set -e ends
\* the command; a shell redirection has truncated its output by then. A cut
\* secrets.env may or may not hold the two passwords of the realm.
Unusable == /\ Running("write") \/ Running("replace")
            /\ opened = Absent /\ (~Usable(Step.file) \/ (Step.file = Realm /\ disk[Secrets] = Cut))
            /\ Fail /\ disk' = IF Step.file \in {DeckEnv, Users} THEN [disk EXCEPT ![Step.file] = Cut] ELSE disk
            /\ UNCHANGED <<made, runs, stops, done, halved>>
Ends == /\ cmd /= "none" /\ part > Len(Steps[cmd]) /\ done' = cmd /\ cmd' = "none" /\ part' = 0 /\ at' = 0
        /\ UNCHANGED <<disk, opened, made, runs, stops, halved>>
\* Killed, or the disk is full. safe_write removes its temporary file or
\* leaves one that nobody reads.
Stopped == /\ cmd /= "none" /\ stops < MaxStops /\ stops' = stops + 1 /\ Fail
           /\ halved' = IF opened = Absent THEN halved ELSE halved \cup {Step.file}
           /\ UNCHANGED <<disk, made, runs, done>>
Next == (\E c \in {"assets", "env"} : Start(c)) \/ Check \/ Open \/ Fill \/ Replace \/ Unlink \/ Unusable \/ Ends \/ Stopped
Spec == Init /\ [][Next]_vars

-----------------------------------------------------------------------------
(* Properties *)

Private == Fresh \cup {CaCrt} \cup {Leaf("crt", n) : n \in Names}
(* Whatever is stopped and started again, a key, a certificate or a password  *)
(* that was written is never replaced: issue and ensure_ca refuse instead.    *)
KeysKept == [][\A f \in Private : Whole(f) => disk'[f] = disk[f]]_vars

Matches(n) == /\ Whole(Leaf("crt", n)) /\ Whole(Leaf("key", n))
              /\ disk[Leaf("crt", n)].of = [key |-> disk[Leaf("key", n)], ca |-> disk[CaCrt]]
(* An identity that a later run takes for complete is complete: its           *)
(* certificate is whole, certifies the key beside it and was issued by the    *)
(* whole CA certificate on disk.                                              *)
AcceptedIsComplete == \A n \in Names : LeafAccepted(n) => Matches(n) /\ disk[CaCrt] = Text([key |-> disk[CaKey]])

(* The role files that decK and the containers read are never half-written,   *)
(* each key in them belongs to the certificate beside it, and a container     *)
(* gets the key whose certificate decK uploads, also while commands run and   *)
(* after they were stopped.                                                   *)
RolesUsable == \A r \in Roles : exists(Role(r)) =>
    /\ Whole(Role(r))
    /\ \A n \in OfRole(r) : LET p == disk[Role(r)].of.pair[n]
                             IN  p[2] = Text([key |-> p[1], ca |-> disk[Role(r)].of.ca])
    /\ exists(RoleEnv(r)) => /\ Whole(RoleEnv(r))
                             /\ disk[RoleEnv(r)].of.keys = [n \in OfRole(r) |-> disk[Role(r)].of.pair[n][1]]

(* When generate-dev-assets.sh reports success, everything it rendered agrees *)
(* with the keys and passwords on disk. The one exception is the public key   *)
(* of route-b-pkj.key: if the run that made it was stopped there, later runs  *)
(* render a cut public key into the realm and report success.                 *)
CompletedAgrees == done = "assets" =>
    /\ \A n \in Names : Matches(n)
    /\ disk[Jwk] = Text([key |-> disk[PkjKey]]) /\ disk[JwkEnv] = disk[Jwk]
    /\ \A r \in Roles : Whole(Role(r)) /\ Whole(RoleEnv(r)) /\ disk[RoleEnv(r)].of.jwk \in {Absent, disk[Jwk]}
    /\ disk[DeckEnv] = Text([secrets |-> disk[Secrets], kid |-> disk[Jwk]])
    /\ disk[RuntimeEnv] = Text([admin |-> disk[Secrets], hosts |-> Absent])
    /\ disk[Users] = Text([users |-> disk[Secrets]])
    /\ \E p \in {disk[Jwk]} \cup (IF PkjPub \in halved THEN {Cut} ELSE {}) :
          disk[Realm] = Text([users |-> disk[Secrets], pub |-> p, kid |-> disk[Jwk]])

(* render-runtime-env.py adds the Konnect hosts and keeps the administrator's *)
(* credentials once role files were rendered; they are lost only if it is     *)
(* stopped while it writes the file, and then only generate-dev-assets.sh,    *)
(* not a second run, restores them.                                           *)
CredentialsKept == Whole(RuntimeEnv) /\ RuntimeEnv \notin halved /\ (\E r \in Roles : exists(Role(r)))
                   => disk[RuntimeEnv].of.admin = disk[Secrets]

(* What the commands report as rendered agrees with its inputs, across stops  *)
(* and re-runs of generate-dev-assets.sh and render-runtime-env.py.           *)
RenderedAgrees == CompletedAgrees /\ CredentialsKept
=============================================================================
