------------------------------ MODULE Supervisor ------------------------------
(***************************************************************************)
(* scripts/require-wp5-readiness.sh --supervise, next to the Data Plane of *)
(* TransportRegistry.  The script reads the workers' status through        *)
(* `docker exec` (generation and pids first, then one status file after    *)
(* the other, while the workers run on), publishes the all-worker marker,  *)
(* opens the local TCP forward and then polls for drift.  It implements    *)
(* the launcher TransportRegistry relies on.                               *)
(***************************************************************************)
EXTENDS TransportRegistry

CONSTANTS
    MaxUpsets,     \* bound: failures outside the Data Plane
    MaxInterrupts  \* bound: signals sent to the script

ASSUME SupervisorBounds == MaxUpsets \in Nat /\ MaxInterrupts \in Nat

VARIABLES
    pc,          \* where the script is
    cap,         \* capture_worker_state under way, None otherwise
    current,     \* CURRENT_FINGERPRINT and CURRENT_MARKER (same information)
    knownGen,    \* CURRENT_GENERATION, None while empty
    accepted,    \* accepted_fingerprint
    forwarder,   \* wp5-demo-forward.py: "none", "running", "dead", or "orphan" when it
                 \* runs and the script does not know its pid
    backend,     \* live readiness instance of the backend, 0 if not ready
    knownBackend,\* BACKEND_FINGERPRINT, None while empty
    closed,      \* docker commands of close_demo_entry that succeeded (history)
    upsets, interrupts

script  == <<pc, cap, current, knownGen, accepted, forwarder, backend, knownBackend,
             closed, upsets, interrupts>>
allVars == <<vars, script>>

\* The places where check_ready_once (or the body of wait_for_ready) runs, and
\* where check_backend_once runs; the Forward ones are the body of start_forwarder
\* (spawn, forwarder_pid=$!, the wait for its log), "alive" is kill -0.
ReadyPcs   == {"wait", "backendReady", "ready1", "ready2", "ready3", "ready4", "readyLoop"}
BackendPcs == {"backendWait", "backend2", "backend3", "backend4", "backendLoop"}
ForwardPcs == {"forward", "forwardPid", "forwardWait"}
ClosePcs   == {"closeMarker", "closeForwarder", "closeServices"}
Pcs == ReadyPcs \cup BackendPcs \cup ForwardPcs \cup ClosePcs
         \cup {"start", "waitPause", "compose", "backendPause", "publish", "alive", "exited"}

\* Where a successful step leads.
Then(p) ==
    CASE p = "start"        -> "wait"
      [] p = "wait"         -> "compose"
      [] p = "compose"      -> "backendWait"
      [] p = "backendWait"  -> "ready1"
      [] p = "backendReady" -> "backendPause"
      [] p = "ready1"       -> "publish"
      [] p = "publish"      -> "ready2"
      [] p = "ready2"       -> "backend2"
      [] p = "backend2"     -> "forward"
      [] p = "forward"      -> "forwardPid"
      [] p = "forwardPid"   -> "forwardWait"
      [] p = "forwardWait"  -> "backend3"
      [] p = "backend3"     -> "ready3"
      [] p = "ready3"       -> "backend4"
      [] p = "backend4"     -> "ready4"
      [] p = "ready4"       -> "alive"
      [] p = "alive"        -> "backendLoop"
      [] p = "backendLoop"  -> "readyLoop"
      [] p = "readyLoop"    -> "alive"
      [] p = "closeMarker"    -> "closeForwarder"
      [] p = "closeForwarder" -> "closeServices"
      [] p = "closeServices"  -> "exited"
-----------------------------------------------------------------------------
(***************************************************************************)
(* Reading and validating the worker state.                                *)
(***************************************************************************)
\* One capture: the generation file and the worker pids, then worker-*.json.
CaptureBegin ==
    /\ pc \in ReadyPcs /\ cap = None /\ up
    /\ cap' = [generation |-> generation,
               pids |-> {pid[w] : w \in Workers} \ {0},
               rows |-> {}, next |-> 0]
    /\ UNCHANGED <<vars, pc, current, knownGen, accepted, forwarder, backend,
                   knownBackend, closed, upsets, interrupts>>

\* The exec session dies with the container it runs in.
CaptureAlive == up /\ generation = cap.generation

CaptureRead ==
    /\ cap # None /\ cap.next < NumWorkers /\ CaptureAlive
    /\ cap' = [cap EXCEPT !.next = @ + 1,
                          !.rows = @ \cup ({file[cap.next]} \ {None})]
    /\ UNCHANGED <<vars, pc, current, knownGen, accepted, forwarder, backend,
                   knownBackend, closed, upsets, interrupts>>

\* Rows of processes that are no longer children are skipped.
CurrentRows(c) == {r \in c.rows : r.pid \in c.pids}

\* Mutation: the readiness flags of a row are not tested.
ValidUnready(c) ==
    LET rows == CurrentRows(c) IN
    /\ c.pids # {}
    /\ \A r \in rows : r.generation = c.generation
    /\ \A q, r \in rows : q.config_hash = r.config_hash
    /\ {r.pid : r \in rows} = c.pids

Valid(c) ==
    LET rows == CurrentRows(c) IN
    /\ c.pids # {}
    /\ \A r \in rows : r.generation = c.generation /\ AllReady(r)
    /\ \A q, r \in rows : q.config_hash = r.config_hash
    /\ {r.pid : r \in rows} = c.pids

MarkerFrom(c) ==
    LET rows == CurrentRows(c) IN
    MarkerOf(rows, c.generation, (CHOOSE r \in rows : TRUE).config_hash)

\* Mutation: the fingerprint is not compared.
AnyFingerprint(m) == TRUE

\* From the publication on, the fingerprint must stay what was accepted.
SameFingerprint(m) ==
    /\ pc \in {"ready2", "ready3", "ready4"} => m = accepted
    /\ pc = "readyLoop" => m = current

CaptureGood(c) ==
    /\ Valid(c)
    /\ knownGen \in {None, c.generation}
    /\ SameFingerprint(MarkerFrom(c))

CaptureComplete == cap # None /\ cap.next = NumWorkers /\ CaptureAlive

CheckPasses ==
    /\ CaptureComplete /\ CaptureGood(cap)
    /\ current' = MarkerFrom(cap)
    /\ knownGen' = cap.generation
    /\ accepted' = IF pc = "ready1" THEN MarkerFrom(cap) ELSE accepted
    /\ pc' = Then(pc)
    /\ cap' = None
    /\ UNCHANGED <<vars, forwarder, backend, knownBackend, closed, upsets, interrupts>>

\* A failed check closes the entry; only wait_for_ready tries again, unless the
\* container stopped or has another generation.
CheckFails ==
    /\ \/ pc \in ReadyPcs /\ cap = None /\ ~up
       \/ cap # None /\ ~CaptureAlive
       \/ CaptureComplete /\ ~CaptureGood(cap)
    /\ IF /\ pc = "wait" /\ cap # None
          /\ ~CaptureAlive \/ knownGen \in {None, cap.generation}
         THEN /\ pc' = "waitPause"
              /\ knownGen' = IF CaptureAlive THEN cap.generation ELSE knownGen
         ELSE /\ pc' = "closeMarker"
              /\ UNCHANGED knownGen
    /\ cap' = None
    /\ UNCHANGED <<vars, current, accepted, forwarder, backend, knownBackend,
                   closed, upsets, interrupts>>
-----------------------------------------------------------------------------
(***************************************************************************)
(* The script.                                                             *)
(***************************************************************************)
Move(p) ==
    /\ pc' = p
    /\ UNCHANGED <<cap, current, knownGen, accepted, backend, knownBackend,
                   upsets, interrupts>>

Goto(p) == Move(p) /\ UNCHANGED <<forwarder, closed>>

\* Without a running container there is nothing to close.  A failing
\* remove_ready_marker is ignored.
Start ==
    /\ pc = "start"
    /\ IF up THEN marker' \in {None, marker} /\ Goto("wait")
             ELSE marker' = marker /\ Goto("exited")
    /\ UNCHANGED <<dataPlane, exported, faults>>

\* sleep, and the deadline of wait_for_ready and wait_for_backend
Pause ==
    /\ pc \in {"waitPause", "backendPause"}
    /\ Goto(IF pc = "waitPause" THEN "wait" ELSE "backendWait")
    /\ UNCHANGED vars

\* Mutation: wait_for_backend has no deadline.
DeadlineOfWaitOnly ==
    /\ pc = "waitPause"
    /\ Goto("closeMarker")
    /\ UNCHANGED vars

Deadline ==
    /\ pc \in {"waitPause", "backendPause"}
    /\ Goto("closeMarker")
    /\ UNCHANGED vars

ComposeUp ==
    /\ pc = "compose"
    /\ Goto(Then(pc))
    /\ UNCHANGED vars

check_backend_once ==
    /\ pc \in BackendPcs
    /\ LET ok == backend # 0 /\ knownBackend \in {None, backend} IN
         /\ pc' = IF ok THEN Then(pc)
                  ELSE IF pc = "backendWait" THEN "backendReady" ELSE "closeMarker"
         /\ knownBackend' = IF ok THEN backend ELSE knownBackend
    /\ UNCHANGED <<vars, cap, current, knownGen, accepted, forwarder, backend,
                   closed, upsets, interrupts>>

publish_ready_marker ==
    /\ pc = "publish"
    /\ IF up THEN marker' = current /\ Goto(Then(pc))
             ELSE marker' = marker /\ Goto("closeMarker")
    /\ UNCHANGED <<dataPlane, exported, faults>>

\* start_forwarder is three steps, and a trap may run between any two of them.
SpawnForwarder ==
    /\ pc = "forward"
    /\ forwarder' = "running"
    /\ Move(Then(pc))
    /\ UNCHANGED <<vars, closed>>

RecordForwarder ==
    /\ pc = "forwardPid"
    /\ Goto(Then(pc))
    /\ UNCHANGED vars

\* The log says the forward is active (even if it died since), or it has died.
AwaitForwarder ==
    /\ pc = "forwardWait"
    /\ \/ Goto(Then(pc))
       \/ forwarder = "dead" /\ forwarder' = "none" /\ Move("closeMarker") /\ UNCHANGED closed
    /\ UNCHANGED vars

start_forwarder == SpawnForwarder \/ RecordForwarder \/ AwaitForwarder

ForwarderAlive ==
    /\ pc = "alive"
    /\ Goto(IF forwarder = "running" THEN Then(pc) ELSE "closeMarker")
    /\ UNCHANGED vars

\* close_demo_entry.  It goes on when one of its docker commands fails (|| true).
CloseMarker ==
    /\ pc = "closeMarker"
    /\ \/ up /\ marker' = None /\ closed' = closed \cup {"marker"}
       \/ UNCHANGED <<marker, closed>>
    /\ Move(Then(pc))
    /\ UNCHANGED <<dataPlane, exported, faults, forwarder>>

\* Mutation: the forward is left running.
CloseForwarderForgotten ==
    /\ pc = "closeForwarder"
    /\ Goto(Then(pc))
    /\ UNCHANGED vars

\* stop_forwarder stops the process whose pid it has.
CloseForwarder ==
    /\ pc = "closeForwarder"
    /\ forwarder' = IF forwarder = "orphan" THEN forwarder ELSE "none"
    /\ Move(Then(pc))
    /\ UNCHANGED <<vars, closed>>

\* A failing compose stop may have stopped the backend and left the Data Plane.
CloseServices ==
    /\ pc = "closeServices"
    /\ \/ /\ IF up THEN ContainerStop ELSE UNCHANGED <<dataPlane, marker, exported>>
          /\ backend' = 0 /\ closed' = closed \cup {"services"}
       \/ /\ backend' \in {0, backend}
          /\ UNCHANGED <<dataPlane, marker, exported, closed>>
    /\ UNCHANGED faults
    /\ pc' = Then(pc)
    /\ UNCHANGED <<cap, current, knownGen, accepted, forwarder, knownBackend,
                   upsets, interrupts>>

ScriptStep ==
    \/ Start \/ CaptureBegin \/ CaptureRead \/ CheckPasses \/ CheckFails
    \/ Pause \/ ComposeUp \/ check_backend_once \/ publish_ready_marker
    \/ start_forwarder \/ ForwarderAlive
    \/ CloseMarker \/ CloseForwarder \/ CloseServices

\* The trap runs when the command under way has ended: also between the spawn of
\* the forwarder and the assignment of its pid, and then it knows no pid to kill.
Interrupt ==
    /\ pc # "exited" /\ interrupts < MaxInterrupts
    /\ interrupts' = interrupts + 1
    /\ pc' = "closeMarker"
    /\ cap' = None
    /\ forwarder' = IF pc = "forwardPid" /\ forwarder = "running" THEN "orphan" ELSE forwarder
    /\ UNCHANGED <<vars, current, knownGen, accepted, backend, knownBackend, closed, upsets>>
-----------------------------------------------------------------------------
(***************************************************************************)
(* What happens outside the Data Plane.                                    *)
(***************************************************************************)
Forwarding == forwarder \in {"running", "orphan"}

\* The private backend, started by the script, publishes its readiness.
BackendReady ==
    /\ backend = 0 /\ pc \in {"backendWait", "backendReady", "backendPause"}
    /\ backend' = upsets + 1
    /\ UNCHANGED <<vars, pc, cap, current, knownGen, accepted, forwarder,
                   knownBackend, closed, upsets, interrupts>>

\* A command of the script fails: a publication also after the marker was moved
\* into place, the forward by never becoming ready.
CommandFails ==
    /\ pc \in {"compose", "publish", "forward", "forwardWait"} /\ pc' = "closeMarker"
    /\ marker' \in IF pc = "publish" /\ up THEN {marker, current} ELSE {marker}
    /\ forwarder' = IF pc = "forwardWait" THEN "none" ELSE forwarder
    /\ UNCHANGED <<dataPlane, exported, faults, backend>>

\* A restarted backend has a new generation, a stopped one no readiness; the
\* forward can die; anyone can stop the container.
Upset ==
    /\ upsets < MaxUpsets
    /\ upsets' = upsets + 1
    /\ \/ /\ backend # 0 /\ backend' \in {0, upsets + 2}
          /\ UNCHANGED <<vars, pc, forwarder>>
       \/ /\ Forwarding /\ forwarder' = "dead"
          /\ UNCHANGED <<vars, pc, backend>>
       \/ CommandFails
       \/ /\ ContainerStop
          /\ UNCHANGED <<faults, pc, forwarder, backend>>
    /\ UNCHANGED <<cap, current, knownGen, accepted, knownBackend, closed, interrupts>>

\* Workers, containers and files behave as in TransportRegistry; the launcher's
\* own steps and the stop of the container are now the script's.
DataPlaneStep ==
    /\ \/ /\ \E w \in Workers : WorkerStep(w)
          /\ UNCHANGED faults
       \/ Adverse /\ faults < MaxFaults /\ faults' = faults + 1
    /\ UNCHANGED script

ScriptInit ==
    /\ pc = "start" /\ cap = None /\ current = None /\ knownGen = None
    /\ accepted = None /\ forwarder = "none" /\ backend = 0
    /\ knownBackend = None /\ closed = {} /\ upsets = 0 /\ interrupts = 0

SupInit == Init /\ statusEnv /\ ScriptInit

(***************************************************************************)
(* A later start: every worker has already been initialized and configured *)
(* with the plain transport configuration and signer key k, which is how   *)
(* --preview tells the operator to use the script.  TransportRegistry      *)
(* reaches this state: InitWorker, Configure(w, "plain") and               *)
(* BridgeConfigure(w, k) in each w.                                        *)
(***************************************************************************)
ReadyEpoch(w, c) ==
    registry_epoch_of([worker |-> w, pid |-> pid[w]], generation,
                      canonical_config_hash(c, DiskFingerprints))

ReadyTransport(w, c) ==
    [FreshTransport EXCEPT
       !.registry_ready = TRUE, !.delegate_ready = TRUE, !.wrapper_ready = TRUE,
       !.worker_initialized = TRUE, !.id = [worker |-> w, pid |-> pid[w]],
       !.config_source = c, !.config_hash = canonical_config_hash(c, DiskFingerprints),
       !.registry = DiskFingerprints, !.registry_epoch = ReadyEpoch(w, c)]

ReadyBridge(w, c, k) ==
    [FreshBridge EXCEPT
       !.delegate_ready = TRUE, !.configured_delivery = "transport_delegate",
       !.config_signature = k, !.signer_epoch = ReadyEpoch(w, c),
       !.cached_keys = {ReadyEpoch(w, c)}]

ReadyInit ==
    /\ statusEnv = TRUE /\ up = TRUE /\ generation = 1
    /\ nextPid = FirstPid(NumWorkers)
    /\ pid = [w \in Workers |-> FirstPid(w)]
    /\ disk \in DiskStates /\ IdentitiesUsable /\ disk.signing_key
    /\ \E k \in KeyIds :
         /\ tp = [w \in Workers |-> ReadyTransport(w, "plain")]
         /\ br = [w \in Workers |-> ReadyBridge(w, "plain", k)]
    /\ todo = [w \in Workers |-> <<>>]
    /\ file = [w \in Workers |-> status_snapshot(w, tp[w])]
    /\ marker = None
    /\ exported = {file[w] : w \in Workers}
    /\ faults = 0
    /\ ScriptInit

SupNext == ScriptStep \/ Deadline \/ Interrupt \/ BackendReady \/ Upset \/ DataPlaneStep

(***************************************************************************)
(* The script runs on, its deadlines pass, and a handler that has started  *)
(* finishes (Lua code between two yields).  Nothing is assumed of when the *)
(* control plane pushes a configuration or a request arrives.              *)
(***************************************************************************)
Fairness ==
    /\ WF_allVars(ScriptStep)
    /\ SF_allVars(Deadline)
    /\ \A w \in Workers : WF_allVars(Operation(w) /\ UNCHANGED <<faults, script>>)

SupSpec == SupInit /\ [][SupNext]_allVars /\ Fairness

ReadySpec == ReadyInit /\ [][SupNext]_allVars /\ Fairness
-----------------------------------------------------------------------------
(***************************************************************************)
(* Properties.                                                             *)
(***************************************************************************)
\* The script's variables keep their types; a marker it holds is well formed.
SupTypeOK ==
    /\ TypeOK
    /\ pc \in Pcs
    /\ cap \in [generation : Nat, pids : SUBSET Nat, rows : SUBSET Rows, next : Nat]
               \cup {None}
    /\ current \in Markers \cup {None} /\ accepted \in Markers \cup {None}
    /\ knownGen \in Nat \cup {None} /\ knownBackend \in Nat \cup {None}
    /\ forwarder \in {"none", "running", "dead", "orphan"}
    /\ closed \subseteq {"marker", "services"}
    /\ backend \in Nat /\ upsets \in Nat /\ interrupts \in Nat

\* Once the script has exited, the forward it knows of is closed, and no worker lets
\* reserved-route traffic through, whatever is restarted later, if either docker
\* command of close_demo_entry succeeded or the container was gone: a marker that
\* outlives a stopped container is of an old generation.  What is left is a forward
\* spawned just before a signal, and a Data Plane when both commands failed.
ExitedClosed ==
    pc = "exited" =>
      /\ forwarder # "running"
      /\ \A w \in Workers : GateOpen(w) => closed = {} /\ generation = accepted.generation

\* require-wp5-readiness.sh:468-470 "A worker restart also removes this marker
\* inside Kong, so AS traffic remains fail-closed during the polling interval":
\* while the forward is open and some worker that has been through init_worker is
\* not one the script accepted, there is no marker and no worker serves.
RestartFailsClosed ==
    Forwarding =>
      \A w \in Workers :
        /\ Running(w) /\ tp[w].worker_initialized
        /\ \A i \in 1 .. Len(todo[w]) : todo[w][i] # "unmark"
        /\ pid[w] \notin {x.pid : x \in accepted.workers}
        => marker = None /\ \A v \in Workers : ~GateOpen(v)

\* The Data Plane is no longer what was accepted: another generation, another
\* process in some slot, or a worker that has latched and exported a failure.
Drifted ==
    \/ generation # accepted.generation
    \/ \E w \in Workers :
         \/ pid[w] # 0 /\ pid[w] \notin {x.pid : x \in accepted.workers}
         \/ Idle(w) /\ tp[w].worker_initialized /\ tp[w].failed
              /\ ~tp[w].status_export_failed

\* Drift of the Data Plane eventually closes the forward (the polling loop), unless
\* a signal has made the script lose it.
DriftCloses == (Forwarding /\ Drifted) ~> (forwarder # "running")

\* The launch never hangs: it becomes active, or it closes everything and exits.
LaunchTerminates == (pc = "start") ~> (pc \in {"alive", "exited"})
=============================================================================
