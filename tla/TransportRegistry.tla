-------------------------- MODULE TransportRegistry --------------------------
(***************************************************************************)
(* The readiness state of the third-party Data Plane: what every Kong      *)
(* worker keeps in the module-level tables of the two custom plugins       *)
(* (fapi-as-mtls-transport, "tp", and fapi-client-auth-bridge, "br"), the  *)
(* status files the workers export, and the all-worker ready marker.       *)
(*                                                                         *)
(* A plugin handler is single threaded Lua: its assignments to memory are  *)
(* one step.  The files it touches are seen by other workers and by the    *)
(* launcher script, so the file operations a handler still has to perform  *)
(* are kept, in order, in todo[w] and are steps of their own.              *)
(*                                                                         *)
(* The launcher that publishes the marker appears here by its contract     *)
(* only (LauncherPublish, LauncherRemove); module Supervisor models the    *)
(* script and implements this specification.                               *)
(***************************************************************************)
EXTENDS Naturals, Sequences, FiniteSets

CONSTANTS
    NumWorkers,   \* nginx workers of the container; slots 0 .. NumWorkers-1
    Fingerprints, \* SHA-256 fingerprints a client certificate can have
    KeyIds,       \* key_id values of a valid bridge configuration
    DiskStates,   \* contents the mounted PKI files can have
    Offered,      \* configurations the control plane pushes to the two plugins
    MaxPid,       \* bound: pids handed out in one container generation
    MaxGeneration,\* bound: container starts
    MaxFaults,    \* bound: adverse steps of a behaviour
    None          \* Lua nil, and the absence of a file

Workers == 0 .. NumWorkers - 1

\* The client identities of MANIFEST and of metadata_certificate_file.
Identities == {"metadata", "A", "B"}

\* One certificate/key pair: the certificate that can be read (None if none can),
\* and whether client_identity accepts the pair (key, lifetime, key usage).
PairState == [cert : Fingerprints \cup {None}, usable : BOOLEAN]
DiskType  == [identity : [Identities -> PairState], signing_key : BOOLEAN]

ASSUME NumWorkersAssumption == NumWorkers \in Nat \ {0}
ASSUME DiskAssumption ==
    /\ DiskStates \subseteq DiskType
    /\ \A d \in DiskStates : \A i \in Identities :
          d.identity[i].usable => d.identity[i].cert \in Fingerprints
ASSUME BoundAssumption == MaxPid \in Nat /\ MaxGeneration \in Nat /\ MaxFaults \in Nat
ASSUME OfferedAssumption == Offered \subseteq {"absent", "refused", "plain", "evidence",
                                              "header", "unknown"} \cup KeyIds

\* Names of the configurations that are not valid bridge configurations.
ASSUME KeyIdAssumption ==
    KeyIds \cap {"absent", "refused", "plain", "evidence", "header", "unknown"} = {}

VARIABLES
    statusEnv,  \* the status-directory environment of the container is well formed
    up,         \* the container is running
    generation, \* startup generation of the container (a fresh uuid in the code)
    nextPid,    \* next pid of this container's pid namespace
    pid,        \* pid[w]: worker process in slot w, 0 if it died
    disk,       \* the mounted PKI files
    tp,         \* tp[w]: `state` of fapi-as-mtls-transport
    br,         \* br[w]: `state` and cached_keys of fapi-client-auth-bridge
    todo,       \* todo[w]: what the running handler still has to do
    file,       \* file[w]: worker-<w>.json
    marker,     \* ready.json
    exported,   \* history: the all-ready rows ever renamed into place
    faults      \* adverse steps taken so far

dataPlane == <<statusEnv, up, generation, nextPid, pid, disk, tp, br, todo, file>>
vars      == <<dataPlane, marker, exported, faults>>
-----------------------------------------------------------------------------
(***************************************************************************)
(* Values.  SHA-256 is taken to be injective, so a digest is modelled by   *)
(* the record of what is digested.                                         *)
(***************************************************************************)
\* configs handed to the transport's configure: none yet, one that
\* unwrap_plugin_config or validate_config refuses, and the fixed manifest with
\* the evidence flag off or on (the only freedom validate_config leaves).
ValidConfigs     == {"plain", "evidence"}
TransportConfigs == {"absent", "refused"} \cup ValidConfigs

\* configs handed to the bridge: none, header delivery (or several instances,
\* which read_one_config turns into header delivery), an unknown delivery, a
\* transport_delegate one that validate_delegate_config refuses, a valid one.
BridgeConfigs == {"absent", "header", "unknown", "refused"} \cup KeyIds

Delivery(c) ==
    CASE c \in {"absent", "header"} -> "header"
      [] c = "unknown"              -> "unknown"
      [] OTHER                      -> "transport_delegate"

MasterPid == 1
WorkerIds == [worker : Workers, pid : Nat]
MasterId  == [worker |-> 0, pid |-> MasterPid]

Hashes == [config : ValidConfigs, fingerprints : [Identities -> Fingerprints]]
Epochs == [id : WorkerIds, generation : Nat, hash : Hashes]

\* Lua nil is none of the values it stands in for.
ASSUME NoneAssumption ==
    None \notin Fingerprints \cup [Identities -> Fingerprints] \cup Hashes \cup Epochs

canonical_config_hash(c, fingerprints) == [config |-> c, fingerprints |-> fingerprints]
registry_epoch_of(id, g, h)            == [id |-> id, generation |-> g, hash |-> h]

Transport ==
    [ failed : BOOLEAN, registry_ready : BOOLEAN, delegate_ready : BOOLEAN,
      wrapper_ready : BOOLEAN, worker_initialized : BOOLEAN,
      status_export_failed : BOOLEAN,
      id : WorkerIds \cup {None},
      config_source : ValidConfigs \cup {None},
      config_hash : Hashes \cup {None},
      registry : [Identities -> Fingerprints] \cup {None},
      registry_epoch : Epochs \cup {None} ]

Bridge ==
    [ delegate_failed : BOOLEAN, delegate_ready : BOOLEAN,
      configured_delivery : {"header", "transport_delegate", None},
      config_signature : KeyIds \cup {None},
      signer_epoch : Epochs \cup {None},
      cached_keys : SUBSET Epochs ]

\* worker-<w>.json
Rows ==
    [ worker_id : Workers, pid : Nat, generation : Nat,
      config_hash : Hashes \cup {None}, registry_epoch : Epochs \cup {None},
      wrapper_ready : BOOLEAN, registry_ready : BOOLEAN,
      delegate_ready : BOOLEAN, routes : BOOLEAN ]

\* ready.json
Entries == [worker_id : Workers, pid : Nat, registry_epoch : Epochs]
Markers == [generation : Nat, config_hash : Hashes, workers : SUBSET Entries]

Ops == {"unmark", "export", "fallback", "refresh", "loaded", "disown"}

FreshTransport ==
    [ failed |-> FALSE, registry_ready |-> FALSE, delegate_ready |-> FALSE,
      wrapper_ready |-> FALSE, worker_initialized |-> FALSE,
      status_export_failed |-> FALSE, id |-> None, config_source |-> None,
      config_hash |-> None, registry |-> None, registry_epoch |-> None ]

FreshBridge ==
    [ delegate_failed |-> FALSE, delegate_ready |-> FALSE,
      configured_delivery |-> None, config_signature |-> None,
      signer_epoch |-> None, cached_keys |-> {} ]

\* The first workers of a container are forked one after the other.
FirstPid(w) == MasterPid + 1 + w
-----------------------------------------------------------------------------
(***************************************************************************)
(* Operators of the transport plugin, on one worker's state t.             *)
(***************************************************************************)
Fail(t) == [t EXCEPT !.failed = TRUE, !.registry_ready = FALSE,
                     !.delegate_ready = FALSE, !.registry = None]

\* Mutation: remove_ready_marker does nothing.
UnmarkNothing == <<>>

\* remove_ready_marker acts only under the fixed status directory.
Unmark == IF statusEnv THEN <<"unmark">> ELSE <<>>

\* The file operations of write_status, in the code's order.
write_status(t) ==
    IF ~t.worker_initialized \/ ~statusEnv
      THEN <<>>
      ELSE (IF t.failed \/ ~t.registry_ready THEN Unmark ELSE <<>>) \o <<"export">>

status_snapshot(w, t) ==
    LET shown == ~t.failed /\ ~t.status_export_failed IN
    [ worker_id |-> w, pid |-> pid[w], generation |-> generation,
      config_hash |-> t.config_hash, registry_epoch |-> t.registry_epoch,
      wrapper_ready  |-> t.wrapper_ready,
      registry_ready |-> t.registry_ready /\ shown,
      delegate_ready |-> t.delegate_ready /\ shown,
      routes |-> t.registry # None ]

current_registry_epoch(t) ==
    IF t.registry_ready /\ ~t.failed THEN t.registry_epoch ELSE None

\* mark_bridge_status: memory first, then the file operations.
MarkedBridge(t, ready, epoch) ==
    [t EXCEPT !.delegate_ready = /\ ready
                                 /\ ~t.failed
                                 /\ t.registry_ready
                                 /\ epoch # None
                                 /\ epoch = t.registry_epoch]

\* Mutation: the status is only written when the delegate is lost.
MarkedBridgeFilesIfLost(t) ==
    IF ~t.worker_initialized \/ t.delegate_ready THEN <<>>
    ELSE Unmark \o write_status(t)

MarkedBridgeFiles(t) ==
    IF ~t.worker_initialized THEN <<>>
    ELSE (IF t.delegate_ready THEN <<>> ELSE Unmark) \o write_status(t)

\* Mutation: any marker of this generation will do.
AnyMarkerCovers(w) ==
    statusEnv => marker # None /\ marker.generation = generation

\* ready_marker_covers_worker; without a status directory the code takes itself
\* to be in offline test mode.
ready_marker_covers_worker(w) ==
    LET t == tp[w] IN
    statusEnv =>
      /\ t.config_hash # None
      /\ t.registry_epoch # None
      /\ ~t.status_export_failed
      /\ marker # None
      /\ marker.generation = generation
      /\ marker.config_hash = t.config_hash
      /\ \A x, y \in marker.workers :
            (x.worker_id = y.worker_id \/ x.pid = y.pid) => x = y
      /\ \E x \in marker.workers :
            /\ x.worker_id = w
            /\ x.pid = pid[w]
            /\ x.registry_epoch = t.registry_epoch

Running(w) == up /\ pid[w] # 0
Idle(w)    == Running(w) /\ todo[w] = <<>>

\* Transport:access lets a request of a reserved route through.
GateOpen(w) ==
    LET t == tp[w] IN
    /\ Idle(w)
    /\ t.worker_initialized
    /\ t.registry # None
    /\ t.registry_ready
    /\ ~t.failed
    /\ t.wrapper_ready
    /\ ~t.status_export_failed
    /\ ready_marker_covers_worker(w)
-----------------------------------------------------------------------------
(***************************************************************************)
(* Handlers of the transport plugin.                                       *)
(***************************************************************************)
\* A handler leaves memory t in worker w and the operations ops to perform.
TransportStep(w, t, ops) ==
    /\ tp' = [tp EXCEPT ![w] = t]
    /\ todo' = [todo EXCEPT ![w] = ops]
    /\ UNCHANGED <<statusEnv, up, generation, nextPid, pid, disk, br, file,
                   marker, exported>>

\* ensure_worker_identity: fixed at first use; before init_worker that may be
\* in the master, where ngx.worker.id() and pid() are the master's.
ensure_worker_identity(w) ==
    LET own == [worker |-> w, pid |-> pid[w]] IN
    IF tp[w].id = None THEN {own, MasterId} ELSE {tp[w].id}

DiskFingerprints == [i \in Identities |-> disk.identity[i].cert]

\* Mutation: configure does not test what client_identity returned.
IdentitiesUnchecked == TRUE

\* client_identity accepts every pair the configuration names.
IdentitiesUsable == \A i \in Identities : disk.identity[i].usable

\* Mutation: a hash that differs from the stored one is not drift.
AcceptableIgnoringDrift(w, c) ==
    /\ c \in ValidConfigs
    /\ tp[w].config_source \in {None, c}
    /\ IdentitiesUsable

Acceptable(w, c) ==
    /\ c \in ValidConfigs
    /\ tp[w].config_source \in {None, c}
    /\ IdentitiesUsable
    /\ tp[w].config_hash \in {None, canonical_config_hash(c, DiskFingerprints)}

ConfigureFailed(w, c) ==
    /\ Idle(w) /\ tp[w].failed
    /\ \E id \in ensure_worker_identity(w) :
         LET t == [tp[w] EXCEPT !.id = id, !.registry_ready = FALSE,
                                !.delegate_ready = FALSE]
         IN  TransportStep(w, t, write_status(t))

ConfigureAbsent(w) ==
    /\ Idle(w) /\ ~tp[w].failed
    /\ tp[w].config_source = None /\ tp[w].config_hash = None
    /\ \E id \in ensure_worker_identity(w) :
         LET t == [tp[w] EXCEPT !.id = id, !.registry = None,
                                !.registry_ready = FALSE, !.delegate_ready = FALSE]
         IN  TransportStep(w, t, Unmark \o write_status(t) \o <<"refresh">>)

\* Any refusal, and a digest that cannot be computed, latches `failed`.
ConfigureRefused(w, c) ==
    /\ Idle(w) /\ ~tp[w].failed
    /\ ~(c = "absent" /\ tp[w].config_source = None /\ tp[w].config_hash = None)
    /\ \E id \in ensure_worker_identity(w) :
         LET t == Fail([tp[w] EXCEPT !.id = id])
         IN  TransportStep(w, t, write_status(t) \o <<"refresh">>)

\* Mutation: status_config_valid is ignored.
AcceptedInAnyEnvironment(w, c, id, epoch) ==
    LET hash == canonical_config_hash(c, DiskFingerprints) IN
    [tp[w] EXCEPT !.id = id, !.config_hash = hash, !.config_source = c,
                  !.registry_epoch = epoch, !.registry = DiskFingerprints,
                  !.registry_ready = TRUE, !.delegate_ready = FALSE]

Accepted(w, c, id, epoch) ==
    LET hash == canonical_config_hash(c, DiskFingerprints) IN
    [tp[w] EXCEPT !.id = id, !.config_hash = hash, !.config_source = c,
                  !.registry_epoch = epoch,
                  !.registry = DiskFingerprints,
                  !.registry_ready = statusEnv,
                  !.delegate_ready = FALSE]

ConfigureAccepted(w, c) ==
    /\ Idle(w) /\ ~tp[w].failed /\ Acceptable(w, c)
    /\ \E id \in ensure_worker_identity(w) :
         LET hash == canonical_config_hash(c, DiskFingerprints)
             t    == Accepted(w, c, id, registry_epoch_of(id, generation, hash))
         IN  TransportStep(w, t, write_status(t) \o <<"refresh">>)

\* The epoch digest fails after the hash has been stored.
ConfigureWithoutEpoch(w, c) ==
    /\ Idle(w) /\ ~tp[w].failed /\ Acceptable(w, c)
    /\ \E id \in ensure_worker_identity(w) :
         LET t == Fail(Accepted(w, c, id, None))
         IN  TransportStep(w, t, write_status(t) \o <<"refresh">>)

\* init_worker of the transport, then of the bridge (lower priority).  Adverse:
\* install_wrapper finds no request_uri or one already wrapped (~wrapped), or
\* the digest of the epoch fails (~digested).
InitWorker(w, wrapped, digested) ==
    /\ Idle(w) /\ ~tp[w].worker_initialized
    /\ LET own   == [worker |-> w, pid |-> pid[w]]
           hash  == tp[w].config_hash
           epoch == IF hash = None THEN tp[w].registry_epoch
                    ELSE IF digested THEN registry_epoch_of(own, generation, hash)
                    ELSE None
           ready == IF tp[w].registry # None
                      THEN statusEnv /\ ~tp[w].failed
                      ELSE tp[w].registry_ready
           t     == [tp[w] EXCEPT !.id = own, !.worker_initialized = TRUE,
                                  !.registry_epoch = epoch,
                                  !.wrapper_ready = wrapped,
                                  !.registry_ready = ready /\ wrapped,
                                  !.failed = tp[w].failed \/ ~wrapped]
       IN  TransportStep(w, t, Unmark \o write_status(t)
                                 \o <<"refresh", "loaded", "refresh">>)
-----------------------------------------------------------------------------
(***************************************************************************)
(* Handlers of the bridge plugin.                                          *)
(***************************************************************************)
BridgeStep(w, b, ops) ==
    /\ br' = [br EXCEPT ![w] = b]
    /\ todo' = [todo EXCEPT ![w] = ops]
    /\ UNCHANGED <<statusEnv, up, generation, nextPid, pid, disk, tp, file,
                   marker, exported>>

Disowned(b) == [b EXCEPT !.delegate_failed = TRUE, !.delegate_ready = FALSE]

NothingConfigured(b) ==
    b.configured_delivery = None /\ b.config_signature = None /\ ~b.delegate_failed

BridgeConfigureAbsent(w) ==
    /\ Idle(w) /\ NothingConfigured(br[w])
    /\ BridgeStep(w, [br[w] EXCEPT !.delegate_ready = FALSE], <<"loaded", "disown">>)

BridgeAcceptable(b, c) ==
    /\ b.configured_delivery \in {None, Delivery(c)}
    /\ c \in {"absent", "header"} \cup KeyIds
    /\ c \in KeyIds => b.config_signature \in {None, c}

BridgeConfigureRefused(w, c) ==
    /\ Idle(w) /\ ~BridgeAcceptable(br[w], c)
    /\ BridgeStep(w, Disowned(br[w]), <<"disown">>)

BridgeConfigureAccepted(w, c) ==
    /\ Idle(w) /\ BridgeAcceptable(br[w], c)
    /\ ~(c = "absent" /\ NothingConfigured(br[w]))
    /\ BridgeStep(w, [br[w] EXCEPT
                        !.configured_delivery = Delivery(c),
                        !.config_signature = IF c \in KeyIds THEN c ELSE @],
                  <<"loaded", "refresh">>)

\* Bridge:access of a Route B request the transport has let through: either the
\* configuration has drifted, or register_delegate proves the signer again.
BridgeAccess(w, c) ==
    /\ GateOpen(w)
    /\ IF br[w].delegate_failed \/ c \notin KeyIds \/ br[w].config_signature # c
         THEN BridgeStep(w, Disowned(br[w]), <<"disown">>)
         ELSE BridgeStep(w, br[w], <<"refresh">>)
-----------------------------------------------------------------------------
(***************************************************************************)
(* The operations a handler still has to perform.                          *)
(***************************************************************************)
Rest(w)      == Tail(todo[w])
Doing(w, op) == Running(w) /\ todo[w] # <<>> /\ Head(todo[w]) = op

unmark(w) ==
    /\ Doing(w, "unmark")
    /\ marker' = None
    /\ todo' = [todo EXCEPT ![w] = Rest(w)]
    /\ UNCHANGED <<statusEnv, up, generation, nextPid, pid, disk, tp, br, file, exported>>

AllReady(row) ==
    /\ row.wrapper_ready /\ row.registry_ready /\ row.delegate_ready /\ row.routes
    /\ row.config_hash # None /\ row.registry_epoch # None

Rename(w, t) ==
    LET row == status_snapshot(w, t) IN
    /\ file' = [file EXCEPT ![w] = row]
    /\ exported' = exported \cup (IF AllReady(row) THEN {row} ELSE {})

ExportOk(w) ==
    /\ Doing(w, "export")
    /\ LET t == [tp[w] EXCEPT !.status_export_failed = FALSE] IN
         /\ tp' = [tp EXCEPT ![w] = t]
         /\ Rename(w, t)
    /\ todo' = [todo EXCEPT ![w] = Rest(w)]
    /\ UNCHANGED <<statusEnv, up, generation, nextPid, pid, disk, br, marker>>

ExportFails(w) ==
    /\ Doing(w, "export")
    /\ tp' = [tp EXCEPT ![w].status_export_failed = TRUE]
    /\ todo' = [todo EXCEPT ![w] = Unmark \o <<"fallback">> \o Rest(w)]
    /\ UNCHANGED <<statusEnv, up, generation, nextPid, pid, disk, br, file, marker, exported>>

Fallback(w) ==
    /\ Doing(w, "fallback")
    /\ \/ Rename(w, tp[w])
       \/ UNCHANGED <<file, exported>>
    /\ todo' = [todo EXCEPT ![w] = Rest(w)]
    /\ UNCHANGED <<statusEnv, up, generation, nextPid, pid, disk, tp, br, marker>>

\* mark_bridge_loaded
loaded(w) ==
    /\ Doing(w, "loaded")
    /\ todo' = [todo EXCEPT ![w] = write_status(tp[w]) \o Rest(w)]
    /\ UNCHANGED <<statusEnv, up, generation, nextPid, pid, disk, tp, br, file, marker, exported>>

mark_bridge_status(w, ready, epoch) ==
    LET t == MarkedBridge(tp[w], ready, epoch) IN
    /\ tp' = [tp EXCEPT ![w] = t]
    /\ todo' = [todo EXCEPT ![w] = MarkedBridgeFiles(t) \o Rest(w)]
    /\ UNCHANGED <<statusEnv, up, generation, nextPid, pid, disk, file, marker, exported>>

disown(w) ==
    /\ Doing(w, "disown")
    /\ mark_bridge_status(w, FALSE, None)
    /\ UNCHANGED br

DelegateReady(w) ==
    LET t     == tp[w]
        b     == br[w]
        epoch == current_registry_epoch(t)
    IN  /\ ~b.delegate_failed
        /\ b.configured_delivery = "transport_delegate"
        /\ b.config_signature # None
        /\ epoch # None
        /\ t.registry # None
        /\ disk.identity["B"].cert = t.registry["B"]
        /\ epoch \in b.cached_keys \/ disk.signing_key

refresh_transport_status(w) ==
    /\ Doing(w, "refresh")
    /\ LET ready == DelegateReady(w)
           epoch == IF ready THEN current_registry_epoch(tp[w]) ELSE None
           keys  == br[w].cached_keys \cup (IF ready THEN {epoch} ELSE {})
       IN  /\ br' = [br EXCEPT ![w] =
                       [br[w] EXCEPT !.delegate_ready = ready, !.signer_epoch = epoch,
                                     !.cached_keys = keys]]
           /\ mark_bridge_status(w, ready, epoch)
-----------------------------------------------------------------------------
(***************************************************************************)
(* The environment: processes, container and files.                        *)
(***************************************************************************)
Crash(w) ==
    /\ Running(w)
    /\ pid' = [pid EXCEPT ![w] = 0]
    /\ tp' = [tp EXCEPT ![w] = FreshTransport]
    /\ br' = [br EXCEPT ![w] = FreshBridge]
    /\ todo' = [todo EXCEPT ![w] = <<>>]
    /\ UNCHANGED <<statusEnv, up, generation, nextPid, disk, file, marker, exported>>

Respawn(w) ==
    /\ up /\ pid[w] = 0 /\ nextPid <= MaxPid
    /\ pid' = [pid EXCEPT ![w] = nextPid]
    /\ nextPid' = nextPid + 1
    /\ UNCHANGED <<statusEnv, up, generation, disk, tp, br, todo, file, marker, exported>>

\* The pid namespace starts again, the container's files are kept.
ContainerStart ==
    /\ generation < MaxGeneration
    /\ up' = TRUE
    /\ generation' = generation + 1
    /\ nextPid' = FirstPid(NumWorkers)
    /\ pid' = [w \in Workers |-> FirstPid(w)]
    /\ tp' = [w \in Workers |-> FreshTransport]
    /\ br' = [w \in Workers |-> FreshBridge]
    /\ todo' = [w \in Workers |-> <<>>]
    /\ UNCHANGED <<statusEnv, disk, file, marker, exported>>

ContainerStop ==
    /\ up
    /\ up' = FALSE
    /\ pid' = [w \in Workers |-> 0]
    /\ tp' = [w \in Workers |-> FreshTransport]
    /\ br' = [w \in Workers |-> FreshBridge]
    /\ todo' = [w \in Workers |-> <<>>]
    /\ UNCHANGED <<statusEnv, generation, nextPid, disk, file, marker, exported>>

ChangeDisk ==
    /\ disk' \in DiskStates
    /\ disk' # disk
    /\ UNCHANGED <<statusEnv, up, generation, nextPid, pid, tp, br, todo, file, marker, exported>>

(***************************************************************************)
(* What the workers rely on of the launcher: a marker it publishes is made *)
(* of all-ready rows that workers have exported, with one generation and   *)
(* one configuration hash.  Nothing is said of when.                       *)
(***************************************************************************)
MarkerOf(rows, g, h) ==
    [ generation |-> g, config_hash |-> h,
      workers |-> {[worker_id |-> r.worker_id, pid |-> r.pid,
                    registry_epoch |-> r.registry_epoch] : r \in rows} ]

LauncherPublish ==
    /\ \E rows \in (SUBSET exported) \ {{}} : \E r \in rows :
         /\ \A q \in rows : q.generation = r.generation /\ q.config_hash = r.config_hash
         /\ marker' = MarkerOf(rows, r.generation, r.config_hash)
    /\ UNCHANGED <<dataPlane, exported>>

LauncherRemove ==
    /\ marker # None
    /\ marker' = None
    /\ UNCHANGED <<dataPlane, exported>>
-----------------------------------------------------------------------------
Init ==
    /\ statusEnv \in BOOLEAN
    /\ up = TRUE
    /\ generation = 1
    /\ nextPid = FirstPid(NumWorkers)
    /\ pid = [w \in Workers |-> FirstPid(w)]
    /\ disk \in DiskStates
    /\ tp = [w \in Workers |-> FreshTransport]
    /\ br = [w \in Workers |-> FreshBridge]
    /\ todo = [w \in Workers |-> <<>>]
    /\ file = [w \in Workers |-> None]
    /\ marker = None
    /\ exported = {}
    /\ faults = 0

Configure(w, c) ==
    \/ ConfigureFailed(w, c)
    \/ c = "absent" /\ ConfigureAbsent(w)
    \/ ConfigureAccepted(w, c)

BridgeConfigure(w, c) ==
    \/ c = "absent" /\ BridgeConfigureAbsent(w)
    \/ BridgeConfigureAccepted(w, c)

Operation(w) ==
    \/ unmark(w) \/ ExportOk(w) \/ Fallback(w)
    \/ loaded(w) \/ disown(w) \/ refresh_transport_status(w)

\* What a worker does when nothing goes wrong.
WorkerStep(w) ==
    \/ Operation(w)
    \/ InitWorker(w, TRUE, TRUE)
    \/ \E c \in TransportConfigs \cap Offered : Configure(w, c)
    \/ \E c \in BridgeConfigs \cap Offered : BridgeConfigure(w, c)
    \/ \E c \in KeyIds \cap Offered : BridgeAccess(w, c)
    \/ Respawn(w)

Launcher == LauncherPublish \/ LauncherRemove \/ ContainerStop

\* Drift, failures and restarts.
Adverse ==
    \/ \E w \in Workers :
         \/ InitWorker(w, FALSE, TRUE) \/ InitWorker(w, TRUE, FALSE)
         \/ \E c \in TransportConfigs \cap Offered :
               ConfigureRefused(w, c) \/ ConfigureWithoutEpoch(w, c)
         \/ \E c \in BridgeConfigs \cap Offered : BridgeConfigureRefused(w, c)
         \/ "refused" \in Offered /\ BridgeAccess(w, "refused")
         \/ ExportFails(w)
         \/ Crash(w)
    \/ ContainerStart
    \/ ChangeDisk

Next ==
    \/ ((\E w \in Workers : WorkerStep(w)) \/ Launcher) /\ UNCHANGED faults
    \/ Adverse /\ faults < MaxFaults /\ faults' = faults + 1

Spec == Init /\ [][Next]_vars
-----------------------------------------------------------------------------
(***************************************************************************)
(* Properties.                                                             *)
(***************************************************************************)
\* Every variable keeps its type; in particular a marker or a status file is
\* always well formed and a worker only has known operations pending.
TypeOK ==
    /\ statusEnv \in BOOLEAN /\ up \in BOOLEAN
    /\ generation \in Nat /\ nextPid \in Nat
    /\ pid \in [Workers -> Nat]
    /\ disk \in DiskStates
    /\ tp \in [Workers -> Transport]
    /\ br \in [Workers -> Bridge]
    /\ todo \in [Workers -> Seq(Ops)]
    /\ file \in [Workers -> Rows \cup {None}]
    /\ marker \in Markers \cup {None}
    /\ exported \subseteq Rows
    /\ faults \in Nat

\* A worker lets reserved-route traffic through only if this very process, in
\* this container generation and with the configuration it now holds, has
\* exported an all-ready status file (Transport:access, ready_marker_covers_worker).
\* A marker left by a dead worker or an earlier generation never opens the gate.
GateCovered ==
    \A w \in Workers : GateOpen(w) =>
        \E r \in exported :
           /\ r.worker_id = w /\ r.pid = pid[w] /\ r.generation = generation
           /\ r.config_hash = tp[w].config_hash
           /\ r.registry_epoch = tp[w].registry_epoch

\* Workers that serve at the same time serve the same configuration and the same
\* client certificates.
ServingWorkersAgree ==
    \A v, w \in Workers :
        GateOpen(v) /\ GateOpen(w) =>
           tp[v].config_hash = tp[w].config_hash /\ tp[v].registry = tp[w].registry

\* A malformed status environment, in which ready_marker_covers_worker answers as
\* in offline test mode, never opens the gate.
MalformedEnvironmentCloses ==
    ~statusEnv => \A w \in Workers : ~GateOpen(w)

\* At rest the delegate is reported ready only if the bridge has verified its
\* certificate and loaded its key under the worker's current registry epoch
\* (mark_bridge_status, refresh_transport_status).
DelegateProved ==
    \A w \in Workers :
        Idle(w) /\ tp[w].delegate_ready =>
           /\ br[w].signer_epoch = tp[w].registry_epoch
           /\ tp[w].registry_epoch \in br[w].cached_keys
           /\ ~br[w].delegate_failed
           /\ tp[w].registry_ready /\ ~tp[w].failed

\* At rest the status file of an initialized worker is what the worker would
\* report now, unless both writes of write_status failed.
StatusFileCurrent ==
    \A w \in Workers :
        Idle(w) /\ tp[w].worker_initialized /\ statusEnv /\ ~tp[w].status_export_failed
           => file[w] = status_snapshot(w, tp[w])

\* What a worker tells the readiness script is true of that worker: the delegate it
\* reports is proved and the file is not older than its state (write_status,
\* mark_bridge_status).
StatusHonest == DelegateProved /\ StatusFileCurrent

\* Within one process the configuration hash never changes once it is set and a
\* failed worker stays failed: drift can only be cured by a new process.
ConfigurationLatched ==
    [][\A w \in Workers :
          (generation' = generation /\ pid'[w] = pid[w] /\ pid[w] # 0) =>
             /\ tp[w].config_hash # None => tp'[w].config_hash = tp[w].config_hash
             /\ tp[w].failed => tp'[w].failed /\ ~tp'[w].registry_ready
      ]_vars
=============================================================================
