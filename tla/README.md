# Verification of the FAPI 2.0 demo system

TLA+ models of the parts of this repository that carry its logic: the two Kong
plugins of the third-party Data Plane, the script that opens and closes the demo
entry with the TCP forward it starts, the protected call from the private
backend to the proof-of-possession verifier, and the operator's scripts that
change something which outlives them: decK and schema synchronisation with
Konnect, the Keycloak demo data, and the generated keys and secrets. TLC checks
them on small instances; TLAPS proves every safety property and action property
that the runs check, the two refinements included, for every value of the
constants.

## 1. The system

A third-party application talks to an authorization server (Keycloak) through a
Kong Data Plane. Two reserved routes exist: Route A authenticates with mTLS
(`tls_client_auth`), Route B with a signed client assertion over mTLS
(`private_key_jwt`). The stock Kong OIDC plugins make the calls; two custom
plugins make sure of the identity under which the calls leave.

| Part | State | Operations | Modelled in |
|---|---|---|---|
| `fapi-as-mtls-transport`, readiness | per worker: latched configuration and its hash, registry of client identities, registry epoch, flags; on disk: `worker-<n>.json`, `ready.json` | `configure`, `init_worker`, `write_status`, `mark_bridge_*`, `access` gate | `TransportRegistry` |
| `fapi-as-mtls-transport`, calls | per request: context, `sent_operations`, observations | `access`, `wrap_request_uri` | `AsTransport` |
| `fapi-client-auth-bridge` | per worker: latched delivery and signature, signer epoch, cached keys | `configure`, `init_worker`, `access`, `refresh_transport_status`, `create_assertion` | `TransportRegistry` (readiness), `AsTransport` (requests) |
| `require-wp5-readiness.sh --supervise` | captured and accepted fingerprint, known generation, forward, backend fingerprint | capture, validate, publish, forward, poll, close | `Supervisor` |
| `wp5-demo-forward.py` | listener, lock, connections, threads | `serve`, `handle`, `stop`, signals | `DemoForwarder` |
| `third-party-backend/app.py`, requests | loaded TLS contexts; per thread: the call | `do_GET`, `fetch_evidence`, `project_evidence` | `EvidencePath` |
| `third-party-backend/app.py`, readiness | loaded identities, hash, generation, socket | `main`, `ReadyServer`, `ReadyHandler`, `check_ready` | `BackendReadiness`; one variable of `Supervisor` |
| `pop-verifier/app.py` | none across requests | token and certificate binding check | `PopVerifier` |
| `sync-keycloak-demo-data.py` | the realm in Keycloak; per run: what it read and planned | plan, apply, verify | `KeycloakSync`, which implements `Reconcile` |
| `run-deck.py`, target checks of `wp1_target.py` | Control Planes in Konnect, receipt, state files, manifest | checks, diff, review, recheck, sync | `DeckSync` |
| `wp1_target.py` schema-check and schema-sync, `wp1.py` | schemas of a Control Plane; per run: pages, cursor | paginate, compare, write | `SchemaInventory` |
| `wp3_runtime.py`, migration guards | none | `parse_deck_diff_report`, `validate_runtime_diff_scope`, receipt validator | `ApiMigration` |
| `wp3_runtime.py`, `HEADER_SANITIZER_LUA` | per request: entries inspected | strip headers, refuse tokens in the query | `HeaderGuard` |
| `generate-dev-assets.sh`, `generate-pki.py`, `export-rsa-jwk.py`, render scripts | key, certificate, secret and environment files | create, keep, render, replace | `DevAssets` |
| `ui/`, YAML, realm and Terraform data, test harness | none of their own | data, presentation, tests | not modelled, section 6 |

How the parts interact:

- The two plugins run in every nginx worker and call each other directly: the
  transport asks the bridge to refresh, the bridge marks itself loaded, ready or
  not ready in the transport. All of that is memory of one process.
- Workers and the script share files in the container: a worker exports
  `worker-<n>.json`; the script reads all of them, checks that every live worker
  is all ready with one configuration, and writes `ready.json`, the all-worker
  marker. A worker serves a reserved route only while the marker names it.
- The script opens the forward only after the marker is published and checked
  again, then polls. Workers remove the marker themselves when they lose
  readiness or restart.
- Behind the entry, the third-party Kong passes a request with its access token
  to the backend; the backend calls the API gateway with the certificate of the
  route; the gateway passes token and certificate to the verifier; the evidence
  comes back the same way and is checked again by the backend.
- The script opens the entry only while the backend's readiness answers are the
  same one; the docker health check asks the same socket.
- The operator's scripts share no memory, only remote state (Konnect, Keycloak)
  and files, and take no lock. Each of them reads, decides and then acts on what
  it has read; other people and second runs act in between.

What is hard here: workers run, die and are replaced while the script reads
their files one by one; the marker and the status files outlive the processes
they describe, and pids start again after a container restart; configurations
arrive in any order; exports can fail; calls overlap inside one request; signals
interrupt the forward anywhere; certificates are replaced under running
processes and under tokens bound to them; remote state changes between a plan
and its application; commands are stopped between two files that belong
together. `PROJECT.json` lists each such hazard at its line
with the properties aimed at it.

## 2. Modules

`TransportRegistry` is the core. One record per worker for each plugin (`tp`,
`br`), the files (`file`, `marker`, `disk`) and the processes (`up`,
`generation`, `pid`). A handler's effect on memory is one step, because Lua runs
to completion between two yields and none of these handlers yields. Its file
operations are visible to other processes, so they are queued in `todo[w]` in
the code's order and performed as separate steps: a worker can die, and others
can act, between any two. The launcher appears by its contract: what it
publishes is made of all-ready rows that were exported. `exported` is a history
variable, the set of those rows.

`Supervisor` extends it with the script, one program counter value per command
that can be interrupted, and replaces the launcher by the script's own steps.
The run `supervisor` checks `Spec` of `TransportRegistry` as a property: the
script implements the contract the workers rely on. The refinement mapping is
the identity on the shared variables. Both docker commands of `close_demo_entry`
may fail, which the script ignores (`|| true`); `closed` is a history variable,
the ones that succeeded. `start_forwarder` is three steps (spawn, `$!`, wait for
the log), so a signal can make the script lose the forward it has just started
(`forwarder = "orphan"`).

`AsTransport` is the request side in one worker. Everything `wrap_request_uri`
does before its network call is one step (`CallRefused`, `SignerFails`, `Send`),
the return of the network call another (`Response`); in between other requests
and other calls of the same request run. A call is a record of what the guards
look at. It sees the readiness of `TransportRegistry` as two environment
variables: `registry` (ready, or failed for good, which is what
`ConfigurationLatched` allows) and `covered`. A message on the wire records what
the two were when it was sent (`gate`).

`DemoForwarder` models the threads of the forward. The main thread is a stack of
frames, because Python runs signal handlers in it on top of what it was doing.
`stopping.set()` is three steps, because `threading.Event` takes a lock of its own
that is not reentrant (`eventLock`).

`PopVerifier` is the verifier: an operator `do_GET` from a message to a reply,
because its own code keeps nothing between two requests. `EvidencePath` extends
it with the backend's request threads and the network between them. The API
gateway is external and appears by the one thing the verifier relies on: the
`X-Client-Cert` header it sends is the certificate of its own TLS client.
Everything else about it is left open (it may refuse anything, forward any token
and put anything in the `X-Demo-*` headers), so no property rests on its own
token check. `issued` is a history variable, the last evidence issued and the
certificate of the TLS client it was issued to.

`BackendReadiness` is the start of the backend and its readiness socket, with
several clients. `queue` holds the connections in the order they were made, of
which the one readiness thread serves the first (`handler`); a client connects
and sends in two steps and may stay silent or give up at any moment. `matched`
and `usable` of a check are history variables.

`KeycloakSync` runs the requests of `main()` in their order (`Program`, made of
`Planning`, `Applying`, `Checking` and `Ending`), one step per request, in several
runs at once. A managed object is the part the
script sets, the part it must leave alone, and an id that changes when the
object is made again. A request can be lost; a write that timed out can still be
carried out later (`late`). `Reconcile` is the abstract specification of such a
script: it only moves objects to their desired state, and reports success only
if each object was in it at some moment since the script began to look again.
The mappers of a client are one object, written by one request (one request each
in the code, in a fixed order and all of them re-planned after a failure), and the
managed part of a user is the routing attributes, which is all the script verifies.
`KeycloakSync` is checked to implement it (`Reconciles`), with an object seen as
desired, drifted or blocked. The one harm it may do, written down in `Reconcile`
as `Duplicate`, is a second key provider when a creation was repeated or raced.

`DeckSync` is `main()` of `run-deck.py` for both gateways and stages. decK is
external and appears by what the script relies on: a diff is the difference
between file and Control Plane within the selected tags, and a sync computes that
difference anew and applies it one operation at a time. decK reads the state file
itself: `FileOf` and `Selected` depend on what the file holds at that moment. A
file is the pinned one, an edited one (other bodies, fewer entities), or a
foundation file without the `fapi2-foundation` select tag. A reviewer turns a
printed diff into a receipt. Others edit the Control Plane, the input files, the
manifest and the names of Control Planes. `moved` (Control Plane), `refiled` (state
file) and `renamed` are history: the executions such a change met in the window in
which the script can no longer notice it.

`SchemaInventory` is the schema check and sync, one step per HTTP request, with
the pagination rules of `request_schema_pages` and their second copy in
`collect_schema_pages`. The server gives honest pages or pages with one wrong
field. `held` and `quiet` are history.

`ApiMigration` gives the three validators of the API migration as operators.
Their input is the state: decK's report of the correct migration, or of nothing
to do, with up to `MaxChanges` faults. `Reviewed` is the reference definition: a
report means the migration of a Control Plane that may have given any ids.
A `Counter` counts the rows of a list by their position, so that equal counts are
bijections; `LegacyIds` reads off the ids this Control Plane gave. `Null` is
Python's `None`.
`HeaderGuard` is the pre-function of the Route that the migration creates, one
step per call and per name inspected. A request has some number of lines of each
name, and what Kong returns is any choice of at most `Limit` of them.
`MCApiGateway` composes the two: requests
pass the guard once the migration's report is empty.

`DevAssets` gives each generating command as a sequence of parts (one for the CA,
one per identity, and so on) and a part as a sequence of file operations
(`Steps`), with an interpreter that can be stopped between any two and inside a
write that is not atomic: a write truncates its file (`Open`) and fills it later
(`Fill`). A guard at the head of a part skips it, lets it run or refuses. Key
material is a serial number, and a derived file is the record of what it was
derived from, so agreement of files is equality. The CA's serial file `ca.srl`
is left out: no command reads it for a decision.

The modules `TransportRegistryProofs` (which also covers `Supervisor`),
`AsTransportProofs`, `SupervisedProofs` (`DemoForwarder` and `BackendReadiness`,
the two programs the readiness script watches), `EvidencePathProofs` (the
protected call, `HeaderGuard` and `ApiMigration`), `KeycloakSyncProofs`,
`DeckSyncProofs`, `SchemaInventoryProofs` and `DevAssetsProofs` hold the theorems.
`MC*` modules give the constants values for TLC. The type invariants that no run
lists state the domains of their module's variables.
Definitions introduced as mutations, or standing before the definition they
vary, are faulty versions of the code that the properties are shown to notice.

Correspondence with the code, beyond names kept from the source:

- SHA-256 is injective: a digest is the record of what is digested.
- A certificate pair is its fingerprint and whether `client_identity` accepts
  it; `configure` reads the three pairs at one instant.
- `validate_config` leaves one freedom, the evidence flag: the valid transport
  configurations are `plain` and `evidence`. A bridge configuration is its
  `key_id`.
- `bridge_loaded` is always true once the bridge has run `init_worker` and is
  left out of the row.
- The generation is a fresh UUID in the code, a counter here.
- A client certificate is its DER form and its thumbprint. A text is one of five:
  two ordinary ones, the empty one, one with a control character, one longer than
  256 characters. A token says whether `PyJWKClient` and `jwt.decode` accept it.
- The backend reads its identity files at one instant per call of
  `create_contexts` or `public_config_hash`, and these calls are separate steps.
- A managed object of the realm, an entity of a Control Plane or a schema is a
  name and a body of few values; request bodies are modelled by which part they
  send back as read (`Echoes`) and which the server merges.
- Hashes of state files, role inputs and receipts are the contents they cover.
- A schema source keeps what `normalize_schema` removes (line ends, one final
  newline) beside its text.
- Container re-creation and nginx reload are not modelled; `restart: "no"`
  makes the former a deliberate act with an empty file system.
- Line 1407 of the transport handler (`observation_id_unavailable`) and line
  1337 (`http_blocked`) cannot be reached: `set_mtls_options` has already
  refused, and `classify` accepts https only.

## 3. Runs

| Run | Instance | Shows |
|---|---|---|
| `registry_one` | 1 worker, 2 fingerprints, 2 keys, 5 disk contents, every configuration, 2 generations, 3 pids, 2 faults | `GateCovered`, `MalformedEnvironmentCloses`, `StatusHonest` (`DelegateProved` and `StatusFileCurrent`), `ConfigurationLatched`, `TypeOK` |
| `supervisor` | 1 worker, 1 fault, 1 upset, 1 interrupt | `ExitedClosed`, refinement `Spec`, `DriftCloses`, `LaunchTerminates` |
| `supervisor_two` | 2 workers already ready, either valid configuration, 1 fault | `RestartFailsClosed`, `ServingWorkersAgree` |
| `forwarder` | 2 clients, 2 signals | `StopClosesAll` (`NoLateRegistration` and `CleanExitClosesAll`), `SignalTerminates` |
| `as_transport` | 2 requests, 27 kinds of call, 3 calls, a log of 2 entries | `AtMostOnce`, `WireIdentity`, `EvidenceHonest` (`EvidenceComplete` and `EvidenceSettles`) |
| `evidence_path` | 1 thread, 2 certificates, 13 tokens on both routes, 3 header values | `PossessionProved`, `IssuedToHolder`, `HeaderVerdict`, `SchemasAgree` |
| `backend_readiness` | 2 clients, a queue of 3 connections, 2 contents of the files, 3 changes, 2 starts | `ReadyIsCurrent`, `CheckServed` |
| `schema_inventory` | a check and a sync, 3 schemas of which 2 are expected, pages of 1, 2 edits or odd answers | `PaginationSound` (`BoundedByTotal` and `CollectAgrees`), `ReportedWasTrue`, `QuietCorrect` (`QuietExact` and `QuietSync`) |
| `keycloak_sync` | 2 runs, 1 client with its mapper, 1 user, 2 troubles | `UnmanagedKept`, `UndisturbedSucceeds`, `Converges`, refinement `Reconciles` |
| `deck_sync` | three situations, below; 1 or 2 outside changes | `WithinReview`, `CompletedIsExact`, `WritesAtHome`, `FoundationOnly` |
| `api_gateway` | all reports within 2 faults of the two correct ones; requests with up to 4 lines per name and a limit of 3 | `ExactScope`, `ReviewAgrees`, `HeaderBoundary` (`BoundaryHolds` and `RefusedForCause`) |
| `dev_assets` | 3 identities, 2 roles, 5 runs, 3 stops | `AcceptedIsComplete`, `RolesUsable`, `RenderedAgrees` (`CompletedAgrees` and `CredentialsKept`), `KeysKept` |

Bounds of the Data Plane. `MaxFaults` counts drift, failed exports, crashes,
restarts and file changes together. One worker with two faults covers "restart,
then drift" and "change the files, then reconfigure"; two workers with one fault
cover a restart or a changed certificate of one while the other serves.
`MaxGeneration = 2` allows one container restart, in which the pids of the first
life come back, which is the case the marker must survive. `MaxPid` allows one
respawn per slot or more. `MaxCalls = 3` with `MaxObservations = 2` (32 in the
code) lets a repeated operation, an overlap of two calls and a full log happen.
In `evidence_path` one thread is enough: threads share only the loaded contexts,
and the theorems hold for any number. `MaxChanges = 3` lets the files drift and
come back around one check, `MaxStarts = 2` a restart between two checks;
`Backlog = 3` lets a check wait behind a silent client and one that has gone, and
meet a full queue. The theorems remove the bounds for the properties they cover.

Bounds of the scripts. `MaxTroubles = 2` in `keycloak_sync` counts lost requests,
edits and overlapping starts together: a lost write that arrives late beside a
second run, or an edit between plan and write of two overlapping runs, needs two.
`MaxTries = 2` stands for the 30 attempts of `wait_for_keycloak`. `deck_sync` has
three situations, each starting from the Control Plane the scripts were written
for: the third-party gateway (a diff, a sync, two outside changes), the API
gateway (a diff, two syncs with the same receipt, one change), and a foundation
sync beside a runtime diff (two changes). Route A of the third-party gateway
differs from Route B in names only and is left out. In `schema_inventory` three
names in pages of one give a first, a middle and a last page; the page limit of
1000 is kept, and `PaginationSound` says why it is never reached. `api_gateway`
has all nineteen rows; two faults are what it takes to compensate a wrong row by
another. `Limit = 3` stands for Kong's 1000: with three header names and up to
`MaxLines = 4` lines of each there are requests below, at and above it, with
repeated names on either side. `dev_assets` has three of the twelve identities,
one for each of two role files and one that is in none; three stops (`MaxStops`)
in five runs (`MaxRuns`) allow a stop inside the repair of an earlier one.

Deadlock is not checked where the system may stop: the script exits, a failed
Data Plane stays as it is, the bounded environment ends. It is checked in
`keycloak_sync`, whose runs can always be started again, and in
`schema_inventory`, where only the end of all runs may stop the system.

`supervisor_two` starts from `ReadyInit`, in which every worker is initialized
and configured, as `--preview` tells the operator to do before `--supervise`;
the state is one `TransportRegistry` reaches.

Fairness. `Supervisor`: weak fairness of the script (a shell runs on, its
commands end), strong fairness of `Deadline` (time passes, so a loop that comes
back to its deadline test finally sees it expired), weak fairness of a started
handler's operations (Lua runs to completion). Nothing is assumed of
configuration pushes, requests or restarts. `DemoForwarder`: weak fairness of
each thread; every client thread takes the lock at most twice, so weak fairness
of the waiters is enough. No client has to send or hang up. `BackendReadiness`:
weak fairness of the readiness thread, whose wait for a client has a time limit.
Nothing is assumed of a client, not even that its own time limit strikes.
`KeycloakSync`: every request ends (`timeout=10`), and the operator runs the
script again, which is the repair its messages ask for. Nothing is assumed of
late writes or of the administrator, whose number is bounded.

## 4. What the checks show not to hold

Where a plain formulation of a property is false for this code, the property
states the exact condition under which it holds, or the limit is listed here.

1. The polling loop of the supervisor compares status fingerprints and never
   looks at `ready.json`. A worker that fails one export removes the marker and
   may export the same all-ready row again before the next poll. The forward
   then stays open while every worker answers 503. The system fails closed; it
   does not shut down as the script announces. `DriftCloses` is therefore about
   drift of processes, generations and exported failures.
   `close_demo_entry` ignores failures. If the `docker exec` that removes the
   marker and `compose stop` both fail, the script exits with marker and workers
   serving, and a signal between the spawn of the forward and `forwarder_pid=$!`
   leaves the forward running. `ExitedClosed` shows that nothing else stays open:
   one of the two commands is enough, and a marker left in a stopped container
   opens no gate when it is started again.
2. `stop()` of the forward takes a non-reentrant lock in a signal handler. If a
   second signal arrives inside the locked region of the first `stop()`, the main
   thread waits for itself, and the script waits for the forward. The same happens
   inside `stopping.set()`, whose `Event` has a non-reentrant lock as well.
   `SignalTerminates` shows that these (`SelfLocked`) are the only ways not to end.
3. `main` of the backend loads the identities (`app.py:327`) and `ReadyServer`
   reads the files again for the hash (`app.py:291`). Files replaced in between
   make it serve with the old identities and report ready with the hash of the
   new ones until it is restarted. Later changes are noticed (`ReadyIsCurrent`).
4. Nothing locks the Control Plane between the diff that `run-deck.py` compares
   with the receipt and decK's own. What others change in this window is applied
   without review. So is a state file that is changed after the script has read
   it for the last time (`run-deck.py:580`, `:617`) and before decK reads it, or
   that was another one only while decK computed the compared diff. `WithinReview`
   shows that these are the only windows; role inputs, manifest and receipt have
   none. A Control Plane renamed after `verify_remote_target` is the exception of
   `WritesAtHome`. A foundation file is not read again after `local_manifest`: if
   its select tag is removed between that and decK's reading, decK deletes the
   runtime entities (`FoundationOnly`).
5. Two runs of the Keycloak script that both find no key provider create two,
   and so does a creation that arrives after its time-out. The script then
   refuses the realm (`Blocked`), so `Converges` excludes it. An administrator's
   edit between the script's read and its write is overwritten (`UnmanagedKept`).
6. `ensure_ca` accepts a truncated `ca.crt` (`generate-pki.py:19`). Leaves can
   then not be issued, so the run ends in an error and no identity is accepted
   (`AcceptedIsComplete`). `generate-dev-assets.sh` tests only `route-b-pkj.key`:
   stopped before the public key is whole, later runs render the cut one into the
   realm and report success; `CompletedAgrees` names this exception. A stop while
   `render-runtime-env.py` rewrites `runtime.env` in place loses the
   administrator's credentials (`CredentialsKept`).
7. Both status writes of a worker can fail (`handler.lua:504`): its last file
   then still shows a ready row, and only the missing marker keeps the gate shut
   (`StatusFileCurrent` excludes the file, `GateCovered` does not).
8. The `docker exec` that publishes the marker can outlive an interrupted script
   (`require-wp5-readiness.sh:332`) and rename the marker into place afterwards.
   The model lets a command end with its client; this window is not covered.

## 5. Proofs

Every theorem holds for all values of the constants that satisfy the named
assumptions: any number of workers, clients, threads, runs, certificates,
objects, schemas, faults and edits. Almost none of the properties is inductive
by itself; what each proof adds, and why, is the content of this section. A proof
has lemmas about the operators first, then one lemma per action or per group of
actions that change the same thing, then the theorems.

| Module | Theorems (property) |
|---|---|
| `TransportRegistryProofs` | `TypeCorrect` (`TypeOK`), `GateIsCovered` (`GateCovered`), `WorkersAgree` (`ServingWorkersAgree`), `MalformedCloses` (`MalformedEnvironmentCloses`), `LatchHolds` (`ConfigurationLatched`), `StatusIsHonest` (`StatusHonest`); of the script: `ScriptTypeCorrect`, `ScriptIsLauncher` (refinement `Spec`), `ExitCloses` (`ExitedClosed`), `RestartCloses` (`RestartFailsClosed`), `SupervisedWorkersAgree` (`ServingWorkersAgree`) |
| `AsTransportProofs` | `SendsAtMostOnce` (`AtMostOnce`), `WireIsIdentified` (`WireIdentity`), `EvidenceIsHonest` (`EvidenceHonest`) |
| `SupervisedProofs` | `ForwarderStops` (`StopClosesAll`); `BackendTypes` (`BackendTypeOK`), `AnswerIsCurrent` (`ReadyIsCurrent`) |
| `EvidencePathProofs` | `Possession` (`PossessionProved`), `OnlyHolders` (`IssuedToHolder`), `VerdictRight` (`HeaderVerdict`), `Agreement` (`SchemasAgree`); `BoundaryKept` (`HeaderBoundary`); `ScopeIsExact` (`ExactScope`), `ReviewIsApprovable` (`ReviewAgrees`) |
| `KeycloakSyncProofs` | `UnmanagedSurvives` (`UnmanagedKept`), `SyncReconciles` (refinement `Reconciles`), `UndisturbedRunSucceeds` (`UndisturbedSucceeds`) |
| `DeckSyncProofs` | `ReviewIsKept` (`WithinReview`), `CompletionIsExact` (`CompletedIsExact`), `TargetIsKept` (`WritesAtHome`), `FoundationIsKept` (`FoundationOnly`) |
| `SchemaInventoryProofs` | `SchemaTypeCorrect` (`TypeOK`), `PaginationIsSound` (`PaginationSound`), `ReportsWereTrue` (`ReportedWasTrue`), `QuietIsCorrect` (`QuietCorrect`) |
| `DevAssetsProofs` | `AssetsInvariant` (`IInv`), `AcceptedComplete` (`AcceptedIsComplete`), `RoleFilesUsable` (`RolesUsable`), `RenderedFilesAgree` (`RenderedAgrees`), `KeysAreKept` (`KeysKept`) |

`TransportRegistryProofs`. The invariant `IInv` is `TypeOK` with

- `LocalOK` of every worker: `registry_ready` only in a well-formed status
  environment, without failure and with a registry; and a registry is always the
  one the configuration hash was computed from. This is why comparing hashes in
  the marker test compares certificates.
- `ExportedReady`: a row in the history is complete. Without it a marker made of
  rows could lack a hash, and `TypeOK` would not be inductive.
- `MarkerBacked`: every entry of the marker was exported by a worker with the
  marker's generation and hash. Crashes and restarts leave files and history
  alone, so it survives them; `GateCovered` follows from it and the marker test.

`ConfigurationLatched` follows from `LocalOK` (a failed worker has no ready
registry) action by action. `StatusHonest` is about workers that have nothing
pending and is not inductive, because a handler changes memory first and the
files later. `HonestInv` says what the pending operations owe: a delegate that
is reported ready is proved or a refresh is still queued (`ProofDue`), and a
status file that differs from memory has its rewrite queued, unless both writes
failed (`WriteDue`).

For the script, `SupInv` adds `ScriptInv`: everything it captured that is all
ready was exported (`SourcesOK`), generations only grow, a marker is the accepted
one and none exists before the publication (`MarkerOK`), a forward whose pid the
script has runs only at certain places, an orphan only while it closes
(`ForwardOK`), once one of the two docker commands has succeeded no marker can
cover a worker any more (`ClosedOK`, which has to allow for a container that was
restarted before the removal), and from the second capture on a marker that is
still there was published before every worker that has since been through
`init_worker` (`CoverOK`). `ScriptIsLauncher` maps each script step to a step or
a stutter of the launcher contract.

`AsTransportProofs`. `WireIdentity` is a statement about the moment of each send
and follows from the guards of the one step that sends. `AtMostOnce` needs `Recorded`: every keyed message on the
wire has its key in `sent_operations` of its context; keys are only added.
`EvidenceHonest` needs that a pending call refers to a sent entry of its own
context (`Owed`) and that an entry without a result still has such a call
(`Awaited`); then the counts of sent entries and messages change together.

`SupervisedProofs`. For the forward, the invariant describes the frames of the main thread
(`serve` at the bottom, only `stop` frames above), who owns the lock
(`LockHeld`), that nobody about to register has missed `stopping` once a `stop`
has copied (`StopSeen`), and that the copy holds every open registered pair
(`Copied`). Signals push frames at any place, so each part speaks of all frames.
For the backend's readiness, a check's history includes the files as they are now
(`Observing`), every connection in the queue that belongs to a check is its only
one and the check still waits (`Queued`), and the check the handler works for has
seen usable files once the handler goes on to the hash (`Handling`); a time-out takes the check off its connection and a restart drops
the queue, which is what keeps an old answer from a later check.

`EvidencePathProofs`. The inductive invariant says of every thread that a call under
way was made by a trusted request of a route, and that evidence it holds is
`build_evidence` of the message the gateway sent for this very call (`Backed`).
The properties follow from that and from what `Verified` and `project_evidence`
require.

`HeaderBoundary` is about requests that were truncated without a word, so it is
not inductive: `GuardInv` says that `count` is the number of lines inspected so
far (the cardinality of a set of lines, `Seen`) and below the limit. A request
that gets past the loop with `count` below `Limit` was therefore returned whole,
and every line of a stripped name was seen. The count is over any finite set of
names and any number of lines.

The migration needs no induction over steps. `ExactScope` and `ReviewAgrees` are
proved for any report whatsoever: `Reports(V)` has rows with fields of any values
`V` and lists of any length, of which the reports of the run are a few. The
validator (`ScopeFacts`) and the reviewed migration (`ReviewFacts`) are reduced to
the same facts about the rows: six creates that name each runtime entity with its
fixed id (`EachCreated`), thirteen deletes whose keys are a bijection onto the
legacy entities (`EachOnce`), each row bound to the entities of its own route
(`Bound`), and no id protected or used twice. The two directions meet in counting:
the validator compares counters and finds each key once (`CountedOnce`,
`KeysOnce`), the reference compares sets, and thirteen rows that cover thirteen
keys cover each once (`KeysCover`). That ids are apart across creates and deletes
follows because created ids are protected. For the receipt, whose validator
forgets tags, the count of each kind and name is the number of keys that agree on
both (`DeletesApproved`). The hypothesis `NullIsNoRelation` says that `None` is
not a dictionary; TLC cannot evaluate it, as it ranges over all values, and a
model value satisfies it.

`KeycloakSyncProofs`. The first half works out where `main()` puts each request,
for any number of clients and users (`ProgramAt`, `Positions`): what is applied
has been read and is still held (`AppliedIsHeld`), and everything is verified
or written after the last planned write (`EverythingIsChecked`). `SyncInv` says
what a plan still knows when it is written, by its run or late (`Planned`): ids
only grow, an entry with the id that was read has not become foreign, and unless
the object was edited since, the unmanaged part read is the one the administrator
left. For `SyncReconciles` each step is shown to be a step or a stutter of
`Reconcile` under the mapping `Seen`/`Phase`. `UndisturbedSucceeds` needs
that an undisturbed run's plan is accurate (`AloneOK`).

`DeckSyncProofs`. A run passes its checks in order with the configured target
(`PathOK`), it writes where `verify_remote_target` looked unless a rename came
between (`HomeOK`), a foundation file is the validated one until decK has read it,
and what decK read from it concerns foundation entities (`TagsOK`), and until
others interfere what the reviewed inputs still ask for is covered by the review
and decK's own file is the reviewed one (`ReviewOK`). The last is inductive although runs with the
same receipt overtake each other, because applying an operation of the review
only shrinks the difference (`DiffShrinks`).

`SchemaInventoryProofs`. `ReadingOK` states the rules of `collect_schema_pages`
for the pages read so far, with the number of distinct names equal to the number
of items counted unless a name came twice; `HeldOK` that what was read or written
was current at some moment of the run. `QuietCorrect` has a second invariant,
`QuietOK`: undisturbed, what was read is the table up to the cursor. It assumes
that there are at most `PageLimit` schemas (1000 in the code): a page holds at
least one, so a correct inventory then never meets the limit of pages, at which
`request_schema_pages` refuses it.

`DevAssetsProofs`. The first part works out what `Steps` has at each part for any
number of identities and roles. `IInv` then says

- where the command is (`Types`) and what is open: the output of the current step,
  cut, with a content that still follows from its inputs (`Opened`);
- what a part has not written yet when its guard let it through (`Inside`): this
  is why `Write` never overwrites a whole key, and with it `KeysKept`;
- which files fit together whenever both exist, whatever was stopped (`Fits`): a
  certificate without its request and extension files beside it was issued for
  the key beside it by the CA on disk, and role files quote the pairs on disk;
- what a command that has passed a part, or succeeded, has left (`Progress`), with
  the cut public key of section 4 as the one exception (`PubFits`);
- that the administrator's credentials are in `runtime.env` or in the output that
  is about to fill it, unless a stop cut the file (`Credentials`).

Stops and new runs only forget the position; the one part of `Fits` that mentions
it is `PubFits`, and what a stop cuts is recorded in `halved`.

Assumptions, all named in the modules that declare the constants and evaluated
by TLC in the runs: at least one worker; a usable pair has a fingerprint;
`None` is not one of the values it stands for; key ids are not names of invalid
configurations; calls are well typed and tokens are not the placeholder names;
requests are well typed, and a call the gateway makes for a client without a
certificate carries none; the main thread is not a client; Control Planes were
provisioned under different names and the entities of each stage are entities of
the gateway's state; the realm starts as one Keycloak can hold (an object that
can only exist once does), and no client is listed twice; schema names are
finitely many positive numbers, pages hold at least one item; at least one
identity and one role, none listed twice, and no identity is called like another
group of files; header and argument names are finitely many and the limit is not
zero; `Null` is no kind, tag or fixed id.

Only model-checked are the liveness properties, which are out of the prover's
reach: `DriftCloses`, `LaunchTerminates`, `SignalTerminates`,
`CheckServed` and `Converges`. Likewise that the two
reports the `api_gateway` run starts from are listed correctly (`Listed`, a fold):
the theorems about reports do not use it.

## 6. Not modelled

- `ui/`: presentation of a static report, no state beyond a page.
- `kong/*.yaml`, `realm-template.json`, `konnect.tf`: data. What the validators
  of `wp1_target.py` and `wp3_runtime.py` compare field by field with constants
  is, in `DeckSync`, whether a state file is the pinned one.
- The PKCS, X.509 and JWK encodings of the generated files.
- The key cache of the verifier (`PyJWKClient`), a library: a token is accepted
  or not.
- A second `--supervise` run on a Data Plane whose marker the first one could not
  remove: the script starts without a marker in `Supervisor`. What workers do with
  any marker made of exported rows is covered by `TransportRegistry`.
- Durations. That a socket operation ends at its time limit is an action
  (`Timeout`, `RecvTimeout`), not something to be shown; in particular nothing is
  said of a gateway that answers the backend one byte at a time.
- `tests/harness`: drives the system, is not part of it.
- Superseded scope checks in `run-deck.py` that no path of `main` reaches, and
  header delivery of the bridge, an older mode no reserved route uses, which is
  only a configuration value.
