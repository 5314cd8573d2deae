----------------------- MODULE TransportRegistryProofs -----------------------
(***************************************************************************)
(* The safety of the readiness gate, for any number of workers, any        *)
(* certificates and keys, any pushed configurations and any number of      *)
(* restarts and faults; then of the readiness script that runs next to it  *)
(* (module Supervisor), which implements the launcher the gate relies on.  *)
(***************************************************************************)
EXTENDS Supervisor, SequenceTheorems, TLAPS

(***************************************************************************)
(* The inductive invariant.  The gate conditions hold of a worker's own    *)
(* memory because of how configure, Fail and init_worker set the fields    *)
(* together (LocalOK); the marker only ever names rows that were exported  *)
(* (MarkerBacked), and what is exported is complete (ExportedReady).       *)
(***************************************************************************)
LocalOK(t) ==
    /\ t.registry_ready => statusEnv /\ ~t.failed /\ t.registry # None
    /\ t.registry # None => /\ t.config_hash # None
                            /\ t.registry = t.config_hash.fingerprints

WorkersOK == \A w \in Workers : LocalOK(tp[w])

ExportedReady == \A r \in exported : AllReady(r)

Backs(r, x, m) ==
    /\ r.worker_id = x.worker_id /\ r.pid = x.pid /\ r.registry_epoch = x.registry_epoch
    /\ r.generation = m.generation /\ r.config_hash = m.config_hash

MarkerBacked ==
    marker # None => \A x \in marker.workers : \E r \in exported : Backs(r, x, marker)

IInv == TypeOK /\ WorkersOK /\ ExportedReady /\ MarkerBacked
-----------------------------------------------------------------------------
(***************************************************************************)
(* Types of the operators.                                                 *)
(***************************************************************************)
\* The operations a handler queues are known ones.
LEMMA OpsType ==
    ASSUME NEW t \in Transport
    PROVE  /\ Unmark \in Seq(Ops)
           /\ write_status(t) \in Seq(Ops)
           /\ MarkedBridgeFiles(t) \in Seq(Ops)
<1>1. <<>> \in Seq(Ops) /\ <<"unmark">> \in Seq(Ops) /\ <<"export">> \in Seq(Ops)
  BY DEF Ops
<1>2. Unmark \in Seq(Ops)
  BY <1>1 DEF Unmark
<1>3. write_status(t) \in Seq(Ops)
  BY <1>1, <1>2, ConcatProperties DEF write_status
<1>4. MarkedBridgeFiles(t) \in Seq(Ops)
  BY <1>1, <1>2, <1>3, ConcatProperties DEF MarkedBridgeFiles
<1> QED BY <1>2, <1>3, <1>4

\* mark_bridge_status and the failure latch keep a worker's state well formed, and
\* neither opens anything: LocalOK is kept.
LEMMA MemoryType ==
    ASSUME NEW t \in Transport, NEW ready \in BOOLEAN, NEW epoch
    PROVE  /\ Fail(t) \in Transport /\ LocalOK(Fail(t))
           /\ MarkedBridge(t, ready, epoch) \in Transport
           /\ LocalOK(t) => LocalOK(MarkedBridge(t, ready, epoch))
<1>1. Fail(t) \in Transport /\ LocalOK(Fail(t))
  BY DEF Fail, Transport, LocalOK
<1>2. MarkedBridge(t, ready, epoch) \in Transport
  <2>1. PICK d \in BOOLEAN : MarkedBridge(t, ready, epoch) = [t EXCEPT !.delegate_ready = d]
    BY DEF MarkedBridge
  <2> QED BY <2>1 DEF Transport
<1>3. LocalOK(t) => LocalOK(MarkedBridge(t, ready, epoch))
  <2>1. PICK b : b = MarkedBridge(t, ready, epoch)
    OBVIOUS
  <2>2. /\ b.failed = t.failed /\ b.registry_ready = t.registry_ready
        /\ b.registry = t.registry /\ b.config_hash = t.config_hash
    BY <2>1 DEF MarkedBridge, Transport
  <2> QED BY <2>1, <2>2 DEF LocalOK
<1> QED BY <1>1, <1>2, <1>3

\* status_snapshot produces a well-formed status file.
LEMMA SnapshotType ==
    ASSUME TypeOK, NEW w \in Workers, NEW t \in Transport
    PROVE  status_snapshot(w, t) \in Rows
BY DEF TypeOK, status_snapshot, Rows, Transport

\* A configuration the code accepts has the fingerprints of three readable
\* certificates.
LEMMA AcceptedType ==
    ASSUME TypeOK, NEW w \in Workers, NEW c, Acceptable(w, c),
           NEW id \in WorkerIds, NEW epoch \in Epochs \cup {None}
    PROVE  /\ canonical_config_hash(c, DiskFingerprints) \in Hashes
           /\ Accepted(w, c, id, epoch) \in Transport
           /\ ~tp[w].failed => LocalOK(Accepted(w, c, id, epoch))
<1>1. DiskFingerprints \in [Identities -> Fingerprints]
  BY DiskAssumption DEF TypeOK, Acceptable, IdentitiesUsable, DiskFingerprints
<1>2. canonical_config_hash(c, DiskFingerprints) \in Hashes
  BY <1>1 DEF Acceptable, Hashes, canonical_config_hash
<1>3. tp[w] \in Transport /\ statusEnv \in BOOLEAN /\ c \in ValidConfigs
  BY DEF TypeOK, Acceptable
<1>4. Accepted(w, c, id, epoch) \in Transport
  BY <1>1, <1>2, <1>3 DEF Accepted, Transport
<1>5. ~tp[w].failed => LocalOK(Accepted(w, c, id, epoch))
  BY <1>1, <1>2, <1>3, NoneAssumption DEF Accepted, Transport, LocalOK, canonical_config_hash
<1> QED BY <1>2, <1>4, <1>5
-----------------------------------------------------------------------------
(***************************************************************************)
(* Steps of one shape.                                                     *)
(***************************************************************************)
\* A handler of the transport that leaves a sound memory keeps the invariant.
LEMMA TransportStepKeeps ==
    ASSUME IInv, faults' \in Nat, NEW w \in Workers, NEW t \in Transport, LocalOK(t),
           NEW ops \in Seq(Ops), TransportStep(w, t, ops)
    PROVE  IInv'
<1>1. TypeOK'
  BY DEF IInv, TypeOK, TransportStep
<1>2. WorkersOK'
  BY DEF IInv, TypeOK, WorkersOK, LocalOK, TransportStep
<1>3. ExportedReady' /\ MarkerBacked'
  BY DEF IInv, ExportedReady, AllReady, MarkerBacked, Backs, TransportStep
<1> QED BY <1>1, <1>2, <1>3 DEF IInv

\* So does a handler of the bridge.
LEMMA BridgeStepKeeps ==
    ASSUME IInv, faults' \in Nat, NEW w \in Workers, NEW b \in Bridge,
           NEW ops \in Seq(Ops), BridgeStep(w, b, ops)
    PROVE  IInv'
<1>1. TypeOK'
  BY DEF IInv, TypeOK, BridgeStep
<1>2. WorkersOK'
  BY DEF IInv, WorkersOK, LocalOK, BridgeStep
<1>3. ExportedReady' /\ MarkerBacked'
  BY DEF IInv, ExportedReady, AllReady, MarkerBacked, Backs, BridgeStep
<1> QED BY <1>1, <1>2, <1>3 DEF IInv

\* The operations left after the first one are known ones, alone and behind
\* further known operations.
LEMMA RestType ==
    ASSUME TypeOK, NEW w \in Workers, todo[w] # <<>>, NEW ops \in Seq(Ops)
    PROVE  Rest(w) \in Seq(Ops) /\ ops \o Rest(w) \in Seq(Ops)
<1>1. todo[w] \in Seq(Ops)
  BY DEF TypeOK
<1>2. Rest(w) \in Seq(Ops)
  BY <1>1, HeadTailProperties DEF Rest
<1> QED BY <1>2, ConcatProperties

\* The backing of the marker survives the export of further rows.
LEMMA BackingGrows ==
    ASSUME MarkerBacked, marker' \in {marker, None}, exported \subseteq exported'
    PROVE  MarkerBacked'
BY DEF MarkerBacked, Backs
-----------------------------------------------------------------------------
(***************************************************************************)
(* One lemma per group of actions.                                         *)
(***************************************************************************)
\* The handlers of the transport plugin keep the invariant.
LEMMA TransportHandlersKeep ==
    ASSUME IInv, faults' \in Nat, NEW w \in Workers, NEW c,
           \/ ConfigureFailed(w, c) \/ ConfigureAbsent(w) \/ ConfigureRefused(w, c)
           \/ ConfigureAccepted(w, c) \/ ConfigureWithoutEpoch(w, c)
    PROVE  IInv'
<1> USE DEF IInv
<1>1. tp[w] \in Transport /\ LocalOK(tp[w]) /\ pid[w] \in Nat /\ generation \in Nat
        /\ statusEnv \in BOOLEAN
  BY DEF TypeOK, WorkersOK
<1>2. ensure_worker_identity(w) \subseteq WorkerIds
  <2>1. tp[w].id \in WorkerIds \cup {None}
    BY <1>1 DEF Transport
  <2>2. MasterId \in WorkerIds
    BY NumWorkersAssumption DEF MasterId, WorkerIds, MasterPid, Workers
  <2>3. [worker |-> w, pid |-> pid[w]] \in WorkerIds
    BY <1>1 DEF WorkerIds
  <2> QED BY <2>1, <2>2, <2>3 DEF ensure_worker_identity
<1>3. <<"refresh">> \in Seq(Ops)
  BY DEF Ops
<1>4. CASE ConfigureFailed(w, c)
  <2>1. PICK id \in ensure_worker_identity(w) :
          LET t == [tp[w] EXCEPT !.id = id, !.registry_ready = FALSE,
                                 !.delegate_ready = FALSE]
          IN  TransportStep(w, t, write_status(t))
    BY <1>4 DEF ConfigureFailed
  <2> DEFINE t == [tp[w] EXCEPT !.id = id, !.registry_ready = FALSE,
                                !.delegate_ready = FALSE]
  <2>2. t \in Transport
    BY <1>1, <1>2 DEF Transport
  <2>3. LocalOK(t)
    BY <1>1 DEF Transport, LocalOK
  <2>4. write_status(t) \in Seq(Ops)
    BY <2>2, OpsType
  <2> QED BY <2>1, <2>2, <2>3, <2>4, TransportStepKeeps
<1>5. CASE ConfigureAbsent(w)
  <2>1. PICK id \in ensure_worker_identity(w) :
          LET t == [tp[w] EXCEPT !.id = id, !.registry = None,
                                 !.registry_ready = FALSE, !.delegate_ready = FALSE]
          IN  TransportStep(w, t, Unmark \o write_status(t) \o <<"refresh">>)
    BY <1>5 DEF ConfigureAbsent
  <2> DEFINE t == [tp[w] EXCEPT !.id = id, !.registry = None,
                                !.registry_ready = FALSE, !.delegate_ready = FALSE]
  <2>2. t \in Transport
    BY <1>1, <1>2 DEF Transport
  <2>3. LocalOK(t)
    BY <1>1 DEF Transport, LocalOK
  <2>4. Unmark \o write_status(t) \o <<"refresh">> \in Seq(Ops)
    <3>1. Unmark \in Seq(Ops) /\ write_status(t) \in Seq(Ops)
      BY <2>2, OpsType
    <3>2. Unmark \o write_status(t) \in Seq(Ops)
      BY <3>1, ConcatProperties
    <3> QED BY <3>2, <1>3, ConcatProperties
  <2> QED BY <2>1, <2>2, <2>3, <2>4, TransportStepKeeps
<1>6. CASE ConfigureRefused(w, c)
  <2>1. PICK id \in ensure_worker_identity(w) :
          LET t == Fail([tp[w] EXCEPT !.id = id])
          IN  TransportStep(w, t, write_status(t) \o <<"refresh">>)
    BY <1>6 DEF ConfigureRefused
  <2> DEFINE t == Fail([tp[w] EXCEPT !.id = id])
  <2>2. [tp[w] EXCEPT !.id = id] \in Transport
    BY <1>1, <1>2 DEF Transport
  <2>3. t \in Transport /\ LocalOK(t)
    BY <2>2, MemoryType
  <2>4. write_status(t) \o <<"refresh">> \in Seq(Ops)
    BY <2>3, OpsType, <1>3, ConcatProperties
  <2> QED BY <2>1, <2>3, <2>4, TransportStepKeeps
<1>7. CASE ConfigureAccepted(w, c)
  <2> DEFINE hash  == canonical_config_hash(c, DiskFingerprints)
  <2>1. Acceptable(w, c) /\ ~tp[w].failed
    BY <1>7 DEF ConfigureAccepted
  <2>2. PICK id \in ensure_worker_identity(w) :
          LET t == Accepted(w, c, id, registry_epoch_of(id, generation, hash))
          IN  TransportStep(w, t, write_status(t) \o <<"refresh">>)
    BY <1>7 DEF ConfigureAccepted
  <2> DEFINE epoch == registry_epoch_of(id, generation, hash)
             t     == Accepted(w, c, id, epoch)
  <2>3. hash \in Hashes
    BY <2>1, <2>2, <1>2, AcceptedType
  <2>4. epoch \in Epochs
    BY <2>3, <1>1, <1>2 DEF Epochs, registry_epoch_of
  <2>5. t \in Transport /\ LocalOK(t)
    BY <2>1, <2>4, <1>2, AcceptedType
  <2>6. write_status(t) \o <<"refresh">> \in Seq(Ops)
    BY <2>5, OpsType, <1>3, ConcatProperties
  <2> QED BY <2>2, <2>5, <2>6, TransportStepKeeps
<1>8. CASE ConfigureWithoutEpoch(w, c)
  <2>1. Acceptable(w, c)
    BY <1>8 DEF ConfigureWithoutEpoch
  <2>2. PICK id \in ensure_worker_identity(w) :
          LET t == Fail(Accepted(w, c, id, None))
          IN  TransportStep(w, t, write_status(t) \o <<"refresh">>)
    BY <1>8 DEF ConfigureWithoutEpoch
  <2> DEFINE t == Fail(Accepted(w, c, id, None))
  <2>3. Accepted(w, c, id, None) \in Transport
    BY <2>1, <1>2, AcceptedType
  <2>4. t \in Transport /\ LocalOK(t)
    BY <2>3, MemoryType
  <2>5. write_status(t) \o <<"refresh">> \in Seq(Ops)
    BY <2>4, OpsType, <1>3, ConcatProperties
  <2> QED BY <2>2, <2>4, <2>5, TransportStepKeeps
<1> QED BY <1>4, <1>5, <1>6, <1>7, <1>8

\* init_worker keeps a worker's state well formed.
LEMMA InitializedType ==
    ASSUME NEW t \in Transport, NEW id \in WorkerIds, NEW epoch \in Epochs \cup {None},
           NEW wrapped \in BOOLEAN, NEW ready \in BOOLEAN, NEW failed \in BOOLEAN
    PROVE  [t EXCEPT !.id = id, !.worker_initialized = TRUE, !.registry_epoch = epoch,
                     !.wrapper_ready = wrapped, !.registry_ready = ready,
                     !.failed = failed] \in Transport
BY DEF Transport

\* init_worker of both plugins keeps the invariant, with or without the wrapper
\* and the epoch digest.
LEMMA InitWorkerKeeps ==
    ASSUME IInv, faults' \in Nat, NEW w \in Workers,
           NEW wrapped \in BOOLEAN, NEW digested \in BOOLEAN,
           InitWorker(w, wrapped, digested)
    PROVE  IInv'
<1> DEFINE own   == [worker |-> w, pid |-> pid[w]]
           hash  == tp[w].config_hash
           epoch == IF hash = None THEN tp[w].registry_epoch
                    ELSE IF digested THEN registry_epoch_of(own, generation, hash)
                    ELSE None
           ready == IF tp[w].registry # None
                      THEN statusEnv /\ ~tp[w].failed
                      ELSE tp[w].registry_ready
           t     == [tp[w] EXCEPT !.id = own, !.worker_initialized = TRUE,
                                  !.registry_epoch = epoch,
                                  !.wrapper_ready = wrapped,
                                  !.registry_ready = ready /\ wrapped,
                                  !.failed = tp[w].failed \/ ~wrapped]
           queue == <<"refresh", "loaded", "refresh">>
<1>1. tp[w] \in Transport /\ LocalOK(tp[w]) /\ pid[w] \in Nat /\ generation \in Nat
        /\ statusEnv \in BOOLEAN
  BY DEF IInv, TypeOK, WorkersOK
<1>2. own \in WorkerIds
  BY <1>1 DEF WorkerIds
<1>3. epoch \in Epochs \cup {None}
  <2>1. hash \in Hashes \cup {None} /\ tp[w].registry_epoch \in Epochs \cup {None}
    BY <1>1 DEF Transport
  <2> QED BY <2>1, <1>1, <1>2 DEF Epochs, registry_epoch_of
<1>4. t \in Transport
  <2> DEFINE installed == ready /\ wrapped
             latched   == tp[w].failed \/ ~wrapped
  <2>1. installed \in BOOLEAN /\ latched \in BOOLEAN
    BY <1>1 DEF Transport
  <2>2. t = [tp[w] EXCEPT !.id = own, !.worker_initialized = TRUE,
                          !.registry_epoch = epoch, !.wrapper_ready = wrapped,
                          !.registry_ready = installed, !.failed = latched]
    OBVIOUS
  <2> HIDE DEF own, epoch, installed, latched, t
  <2> QED BY <2>1, <2>2, <1>1, <1>2, <1>3, InitializedType
<1>5. LocalOK(t)
  <2> HIDE DEF own, epoch
  <2> QED BY <1>1 DEF Transport, LocalOK
<1>6. Unmark \o write_status(t) \o queue \in Seq(Ops)
  <2>1. Unmark \in Seq(Ops) /\ write_status(t) \in Seq(Ops)
    BY <1>4, OpsType
  <2>2. queue \in Seq(Ops)
    BY DEF Ops
  <2>3. Unmark \o write_status(t) \in Seq(Ops)
    BY <2>1, ConcatProperties
  <2> QED BY <2>2, <2>3, ConcatProperties
<1>7. TransportStep(w, t, Unmark \o write_status(t) \o queue)
  BY DEF InitWorker
<1> HIDE DEF t, queue
<1> QED BY <1>4, <1>5, <1>6, <1>7, TransportStepKeeps

\* The handlers of the bridge keep the invariant.
LEMMA BridgeHandlersKeep ==
    ASSUME IInv, faults' \in Nat, NEW w \in Workers, NEW c,
           \/ BridgeConfigureAbsent(w) \/ BridgeConfigureRefused(w, c)
           \/ BridgeConfigureAccepted(w, c) \/ BridgeAccess(w, c)
    PROVE  IInv'
<1>1. br[w] \in Bridge
  BY DEF IInv, TypeOK
<1>2. /\ <<"loaded", "disown">> \in Seq(Ops) /\ <<"disown">> \in Seq(Ops)
      /\ <<"loaded", "refresh">> \in Seq(Ops) /\ <<"refresh">> \in Seq(Ops)
  BY DEF Ops
<1>3. Disowned(br[w]) \in Bridge
  BY <1>1 DEF Disowned, Bridge
<1>4. CASE BridgeConfigureAbsent(w)
  <2>1. [br[w] EXCEPT !.delegate_ready = FALSE] \in Bridge
    BY <1>1 DEF Bridge
  <2> QED BY <1>2, <1>4, <2>1, BridgeStepKeeps DEF BridgeConfigureAbsent
<1>5. CASE BridgeConfigureRefused(w, c)
  BY <1>2, <1>3, <1>5, BridgeStepKeeps DEF BridgeConfigureRefused
<1>6. CASE BridgeConfigureAccepted(w, c)
  <2> DEFINE b == [br[w] EXCEPT
                     !.configured_delivery = Delivery(c),
                     !.config_signature = IF c \in KeyIds THEN c ELSE @]
  <2>1. BridgeAcceptable(br[w], c) /\ BridgeStep(w, b, <<"loaded", "refresh">>)
    BY <1>6 DEF BridgeConfigureAccepted
  <2>2. Delivery(c) \in {"header", "transport_delegate"}
    BY <2>1, KeyIdAssumption DEF BridgeAcceptable, Delivery
  <2>3. b \in Bridge
    BY <1>1, <2>2 DEF Bridge
  <2> QED BY <1>2, <2>1, <2>3, BridgeStepKeeps
<1>7. CASE BridgeAccess(w, c)
  BY <1>1, <1>2, <1>3, <1>7, BridgeStepKeeps DEF BridgeAccess
<1> QED BY <1>4, <1>5, <1>6, <1>7

\* Renaming a status file into place records the row if it is all ready.
LEMMA RenameKeeps ==
    ASSUME IInv, NEW w \in Workers, NEW t \in Transport, Rename(w, t),
           marker' = marker
    PROVE  /\ file' \in [Workers -> Rows \cup {None}] /\ exported' \subseteq Rows
           /\ ExportedReady' /\ MarkerBacked'
<1> DEFINE row == status_snapshot(w, t)
<1>1. row \in Rows
  BY SnapshotType DEF IInv
<1>2. /\ file' = [file EXCEPT ![w] = row]
      /\ exported' = exported \cup (IF AllReady(row) THEN {row} ELSE {})
  BY DEF Rename
<1> HIDE DEF row
<1>3. file' \in [Workers -> Rows \cup {None}] /\ exported' \subseteq Rows
  BY <1>1, <1>2 DEF IInv, TypeOK
<1>4. ExportedReady'
  BY <1>2 DEF IInv, ExportedReady, AllReady
<1>5. MarkerBacked'
  BY <1>2, BackingGrows DEF IInv
<1> QED BY <1>3, <1>4, <1>5

\* The file operations of a handler keep the invariant.
LEMMA FileOperationsKeep ==
    ASSUME IInv, faults' \in Nat, NEW w \in Workers,
           unmark(w) \/ ExportOk(w) \/ ExportFails(w) \/ Fallback(w) \/ loaded(w)
    PROVE  IInv'
<1>1. tp[w] \in Transport /\ LocalOK(tp[w]) /\ todo[w] # <<>>
  BY DEF IInv, TypeOK, WorkersOK, unmark, ExportOk, ExportFails, Fallback, loaded, Doing
<1>2. Rest(w) \in Seq(Ops) /\ \A ops \in Seq(Ops) : ops \o Rest(w) \in Seq(Ops)
  <2>1. <<>> \in Seq(Ops)
    OBVIOUS
  <2> QED BY <1>1, <2>1, RestType DEF IInv
<1>3. ASSUME NEW failed \in BOOLEAN
      PROVE  /\ [tp[w] EXCEPT !.status_export_failed = failed] \in Transport
             /\ LocalOK([tp[w] EXCEPT !.status_export_failed = failed])
  <2>1. [tp[w] EXCEPT !.status_export_failed = failed] \in Transport
    BY <1>1 DEF Transport
  <2> QED BY <2>1, <1>1 DEF Transport, LocalOK
<1>4. CASE unmark(w)
  <2>1. TypeOK'
    BY <1>2, <1>4 DEF IInv, TypeOK, unmark
  <2>2. WorkersOK'
    BY <1>4 DEF IInv, WorkersOK, LocalOK, unmark
  <2>3. ExportedReady' /\ MarkerBacked'
    BY <1>4 DEF IInv, ExportedReady, AllReady, MarkerBacked, unmark
  <2> QED BY <2>1, <2>2, <2>3 DEF IInv
<1>5. CASE ExportOk(w)
  <2> DEFINE t == [tp[w] EXCEPT !.status_export_failed = FALSE]
  <2>1. /\ Rename(w, t) /\ tp' = [tp EXCEPT ![w] = t]
        /\ todo' = [todo EXCEPT ![w] = Rest(w)]
        /\ UNCHANGED <<statusEnv, up, generation, nextPid, pid, disk, br, marker>>
    BY <1>5 DEF ExportOk
  <2>2. t \in Transport /\ LocalOK(t)
    BY <1>3
  <2> HIDE DEF t
  <2>3. /\ file' \in [Workers -> Rows \cup {None}] /\ exported' \subseteq Rows
        /\ ExportedReady' /\ MarkerBacked'
    BY <2>1, <2>2, RenameKeeps
  <2>4. TypeOK'
    BY <1>2, <2>1, <2>2, <2>3 DEF IInv, TypeOK
  <2>5. WorkersOK'
    BY <2>1, <2>2 DEF IInv, TypeOK, WorkersOK, LocalOK
  <2> QED BY <2>3, <2>4, <2>5 DEF IInv
<1>6. CASE ExportFails(w)
  <2> DEFINE t   == [tp[w] EXCEPT !.status_export_failed = TRUE]
             ops == Unmark \o <<"fallback">> \o Rest(w)
  <2>1. TransportStep(w, t, ops)
    BY <1>6 DEF ExportFails, TransportStep
  <2>2. t \in Transport /\ LocalOK(t)
    BY <1>3
  <2>3. ops \in Seq(Ops)
    <3>1. <<"fallback">> \in Seq(Ops) /\ Unmark \in Seq(Ops)
      BY <2>2, OpsType DEF Ops
    <3>2. Unmark \o <<"fallback">> \in Seq(Ops)
      BY <3>1, ConcatProperties
    <3> QED BY <3>2, <1>2
  <2> HIDE DEF t, ops
  <2> QED BY <2>1, <2>2, <2>3, TransportStepKeeps
<1>7. CASE Fallback(w)
  <2>1. /\ file' \in [Workers -> Rows \cup {None}] /\ exported' \subseteq Rows
        /\ ExportedReady' /\ MarkerBacked'
    <3>1. CASE Rename(w, tp[w])
      BY <1>1, <1>7, <3>1, RenameKeeps DEF Fallback
    <3>2. CASE UNCHANGED <<file, exported>>
      BY <1>7, <3>2 DEF IInv, TypeOK, ExportedReady, AllReady, MarkerBacked, Backs, Fallback
    <3> QED BY <1>7, <3>1, <3>2 DEF Fallback
  <2>2. TypeOK'
    BY <1>2, <1>7, <2>1 DEF IInv, TypeOK, Fallback
  <2>3. WorkersOK'
    BY <1>7 DEF IInv, WorkersOK, LocalOK, Fallback
  <2> QED BY <2>1, <2>2, <2>3 DEF IInv
<1>8. CASE loaded(w)
  <2> DEFINE ops == write_status(tp[w]) \o Rest(w)
  <2>1. ops \in Seq(Ops)
    BY <1>1, <1>2, OpsType
  <2>2. TransportStep(w, tp[w], ops)
    BY <1>8 DEF loaded, TransportStep, IInv, TypeOK
  <2> HIDE DEF ops
  <2> QED BY <1>1, <2>1, <2>2, TransportStepKeeps
<1> QED BY <1>4, <1>5, <1>6, <1>7, <1>8

\* What the bridge tells the transport keeps the invariant.
LEMMA BridgeStatusKeeps ==
    ASSUME IInv, faults' \in Nat, NEW w \in Workers,
           disown(w) \/ refresh_transport_status(w)
    PROVE  IInv'
<1> DEFINE known == DelegateReady(w)
           epoch == IF known THEN current_registry_epoch(tp[w]) ELSE None
<1>1. /\ tp[w] \in Transport /\ LocalOK(tp[w]) /\ br[w] \in Bridge /\ todo[w] # <<>>
  BY DEF IInv, TypeOK, WorkersOK, disown, refresh_transport_status, Doing
<1>0. PICK ready \in BOOLEAN : \E e : mark_bridge_status(w, ready, e)
  <2>1. CASE disown(w)
    BY <2>1 DEF disown
  <2>2. CASE refresh_transport_status(w)
    <3>1. known \in BOOLEAN
      BY DEF DelegateReady
    <3>2. mark_bridge_status(w, known, epoch)
      BY <2>2 DEF refresh_transport_status
    <3> QED BY <3>1, <3>2
  <2> QED BY <2>1, <2>2
<1>2. PICK e : mark_bridge_status(w, ready, e)
  BY <1>0
<1> DEFINE t   == MarkedBridge(tp[w], ready, e)
           ops == MarkedBridgeFiles(t) \o Rest(w)
<1>3. t \in Transport /\ LocalOK(t)
  BY <1>1, MemoryType
<1>4. ops \in Seq(Ops)
  BY <1>1, <1>3, OpsType, RestType DEF IInv
<1>5. /\ tp' = [tp EXCEPT ![w] = t] /\ todo' = [todo EXCEPT ![w] = ops]
      /\ UNCHANGED <<statusEnv, up, generation, nextPid, pid, disk, file, marker, exported>>
  BY <1>2 DEF mark_bridge_status
<1>6. br' \in [Workers -> Bridge]
  <2>1. CASE disown(w)
    BY <2>1 DEF disown, IInv, TypeOK
  <2>2. CASE refresh_transport_status(w)
    <3> DEFINE keys == br[w].cached_keys \cup (IF known THEN {epoch} ELSE {})
               b    == [br[w] EXCEPT !.delegate_ready = known, !.signer_epoch = epoch,
                                     !.cached_keys = keys]
    <3>1. known \in BOOLEAN
      BY DEF DelegateReady
    <3>2. known => epoch \in Epochs
      <4>1. current_registry_epoch(tp[w]) \in Epochs \cup {None}
        BY <1>1 DEF current_registry_epoch, Transport
      <4> QED BY <4>1 DEF DelegateReady
    <3>3. epoch \in Epochs \cup {None} /\ keys \in SUBSET Epochs
      BY <3>2, <1>1 DEF Bridge
    <3>4. br' = [br EXCEPT ![w] = b]
      BY <2>2 DEF refresh_transport_status, IInv, TypeOK
    <3>5. b \in Bridge
      <4> HIDE DEF known, epoch, keys
      <4> QED BY <3>1, <3>3, <1>1 DEF Bridge
    <3> QED BY <3>4, <3>5 DEF IInv, TypeOK
  <2> QED BY <2>1, <2>2
<1> HIDE DEF t, ops
<1>7. TypeOK'
  BY <1>3, <1>4, <1>5, <1>6 DEF IInv, TypeOK
<1>8. WorkersOK'
  BY <1>3, <1>5 DEF IInv, TypeOK, WorkersOK, LocalOK
<1>9. ExportedReady' /\ MarkerBacked'
  BY <1>5 DEF IInv, ExportedReady, AllReady, MarkerBacked, Backs
<1> QED BY <1>7, <1>8, <1>9 DEF IInv

\* A fresh process is sound.
LEMMA FreshType ==
    /\ FreshTransport \in Transport /\ LocalOK(FreshTransport)
    /\ FreshBridge \in Bridge /\ <<>> \in Seq(Ops)
    /\ \A w \in Workers : FirstPid(w) \in Nat
    /\ FirstPid(NumWorkers) \in Nat
<1>1. FreshTransport \in Transport
  BY DEF FreshTransport, Transport
<1>2. LocalOK(FreshTransport)
  BY DEF FreshTransport, LocalOK
<1>3. FreshBridge \in Bridge /\ <<>> \in Seq(Ops)
  BY DEF FreshBridge, Bridge
<1>4. (\A w \in Workers : FirstPid(w) \in Nat) /\ FirstPid(NumWorkers) \in Nat
  BY NumWorkersAssumption DEF FirstPid, MasterPid, Workers
<1> QED BY <1>1, <1>2, <1>3, <1>4

\* Crashes, restarts and changes of the mounted files keep the invariant: the
\* files they leave behind stay backed by the rows once exported.
LEMMA EnvironmentKeeps ==
    ASSUME IInv, faults' \in Nat,
           \/ \E w \in Workers : Crash(w) \/ Respawn(w)
           \/ ContainerStart \/ ContainerStop \/ ChangeDisk
    PROVE  IInv'
<1> USE FreshType
<1>1. /\ exported' = exported /\ marker' = marker /\ file' = file /\ statusEnv' = statusEnv
  BY DEF Crash, Respawn, ContainerStart, ContainerStop, ChangeDisk
<1>2. ExportedReady' /\ MarkerBacked'
  BY <1>1 DEF IInv, ExportedReady, AllReady, MarkerBacked, Backs
<1>3. TypeOK' /\ WorkersOK'
  <2>1. ASSUME NEW w \in Workers, Crash(w)
        PROVE  TypeOK' /\ WorkersOK'
    <3>1. TypeOK'
      BY <2>1 DEF IInv, TypeOK, Crash
    <3>2. WorkersOK'
      BY <2>1 DEF IInv, TypeOK, WorkersOK, LocalOK, Crash
    <3> QED BY <3>1, <3>2
  <2>2. ASSUME NEW w \in Workers, Respawn(w)
        PROVE  TypeOK' /\ WorkersOK'
    <3>1. TypeOK'
      BY <2>2 DEF IInv, TypeOK, Respawn
    <3>2. WorkersOK'
      BY <2>2 DEF IInv, WorkersOK, LocalOK, Respawn
    <3> QED BY <3>1, <3>2
  <2>3. CASE ContainerStart
    <3>1. TypeOK'
      BY <2>3 DEF IInv, TypeOK, ContainerStart
    <3>2. WorkersOK'
      BY <2>3 DEF WorkersOK, LocalOK, ContainerStart
    <3> QED BY <3>1, <3>2
  <2>4. CASE ContainerStop
    <3>1. TypeOK'
      BY <2>4 DEF IInv, TypeOK, ContainerStop
    <3>2. WorkersOK'
      BY <2>4 DEF WorkersOK, LocalOK, ContainerStop
    <3> QED BY <3>1, <3>2
  <2>5. CASE ChangeDisk
    <3>1. TypeOK'
      BY <2>5 DEF IInv, TypeOK, ChangeDisk
    <3>2. WorkersOK'
      BY <2>5 DEF IInv, WorkersOK, LocalOK, ChangeDisk
    <3> QED BY <3>1, <3>2
  <2> QED BY <2>1, <2>2, <2>3, <2>4, <2>5
<1> QED BY <1>2, <1>3 DEF IInv

\* What LauncherPublish may publish: a marker made of exported rows.
Publishable(m) ==
    \E rows \in (SUBSET exported) \ {{}} : \E r \in rows :
       /\ \A q \in rows : q.generation = r.generation /\ q.config_hash = r.config_hash
       /\ m = MarkerOf(rows, r.generation, r.config_hash)

\* Such a marker is well formed and backed, entry by entry.
LEMMA PublishableIsBacked ==
    ASSUME IInv, NEW m, Publishable(m)
    PROVE  /\ m \in Markers
           /\ \A x \in m.workers : \E r \in exported : Backs(r, x, m)
           /\ \E r \in exported : m.generation = r.generation
<1>1. PICK rows \in (SUBSET exported) \ {{}} : \E r \in rows :
        /\ \A q \in rows : q.generation = r.generation /\ q.config_hash = r.config_hash
        /\ m = MarkerOf(rows, r.generation, r.config_hash)
  BY DEF Publishable
<1>2. PICK r \in rows :
        /\ \A q \in rows : q.generation = r.generation /\ q.config_hash = r.config_hash
        /\ m = MarkerOf(rows, r.generation, r.config_hash)
  BY <1>1
<1> DEFINE Entry(q) == [worker_id |-> q.worker_id, pid |-> q.pid,
                        registry_epoch |-> q.registry_epoch]
<1>3. \A q \in rows : /\ q \in Rows /\ q \in exported
                      /\ q.config_hash \in Hashes /\ q.registry_epoch \in Epochs
  BY DEF IInv, TypeOK, ExportedReady, AllReady, Rows
<1>4. \A q \in rows : Entry(q) \in Entries
  BY <1>3 DEF Rows, Entries
<1>5. m = [generation |-> r.generation, config_hash |-> r.config_hash,
           workers |-> {Entry(q) : q \in rows}]
  BY <1>2 DEF MarkerOf
<1>6. r.generation \in Nat /\ r.config_hash \in Hashes
  BY <1>3 DEF Rows
<1>7. m \in Markers
  <2>1. {Entry(q) : q \in rows} \in SUBSET Entries
    BY <1>4
  <2> HIDE DEF Entry
  <2> QED BY <1>5, <1>6, <2>1 DEF Markers
<1>8. ASSUME NEW x \in {Entry(q) : q \in rows}
      PROVE  \E q \in exported : Backs(q, x, m)
  <2>1. PICK q \in rows : x = Entry(q)
    OBVIOUS
  <2>2. Backs(q, x, m)
    BY <1>2, <1>5, <2>1 DEF Backs
  <2> QED BY <1>3, <2>2
<1>9. m.workers = {Entry(q) : q \in rows} /\ m.generation = r.generation
  BY <1>5
<1> QED BY <1>3, <1>7, <1>8, <1>9

\* A launcher that keeps its contract keeps the invariant.
LEMMA LauncherKeeps ==
    ASSUME IInv, faults' \in Nat, LauncherPublish \/ LauncherRemove
    PROVE  IInv'
<1>1. dataPlane' = dataPlane /\ exported' = exported
  BY DEF LauncherPublish, LauncherRemove
<1>2. marker' \in Markers \cup {None} /\ MarkerBacked'
  <2>1. CASE LauncherRemove
    BY <2>1 DEF LauncherRemove, MarkerBacked
  <2>2. CASE LauncherPublish
    <3>1. Publishable(marker')
      BY <2>2 DEF LauncherPublish, Publishable
    <3>2. /\ marker' \in Markers
          /\ \A x \in marker'.workers : \E r \in exported : Backs(r, x, marker')
      BY <3>1, PublishableIsBacked
    <3> QED BY <1>1, <3>2 DEF MarkerBacked, Backs
  <2> QED BY <2>1, <2>2
<1>3. TypeOK'
  BY <1>1, <1>2 DEF IInv, TypeOK, dataPlane
<1>4. WorkersOK' /\ ExportedReady'
  BY <1>1 DEF IInv, WorkersOK, LocalOK, ExportedReady, AllReady, dataPlane
<1> QED BY <1>2, <1>3, <1>4 DEF IInv
-----------------------------------------------------------------------------
(***************************************************************************)
(* The invariant holds.                                                    *)
(***************************************************************************)
\* A fresh Data Plane satisfies the invariant.
LEMMA InitIInv == Init => IInv
<1> SUFFICES ASSUME Init PROVE IInv
  OBVIOUS
<1>1. TypeOK
  BY FreshType DEF Init, TypeOK
<1>2. WorkersOK
  BY FreshType DEF Init, WorkersOK
<1>3. ExportedReady /\ MarkerBacked
  BY DEF Init, ExportedReady, MarkerBacked
<1> QED BY <1>1, <1>2, <1>3 DEF IInv

\* Every step of the Data Plane, of the launcher and of the environment keeps it.
LEMMA NextIInv == IInv /\ [Next]_vars => IInv'
<1> SUFFICES ASSUME IInv, [Next]_vars PROVE IInv'
  OBVIOUS
<1>1. CASE UNCHANGED vars
  BY <1>1 DEF vars, dataPlane, IInv, TypeOK, WorkersOK, LocalOK, ExportedReady, AllReady,
              MarkerBacked, Backs
<1>2. CASE Next
  <2>1. faults' \in Nat
    BY <1>2 DEF Next, IInv, TypeOK
  <2>2. ASSUME NEW w \in Workers, WorkerStep(w)
        PROVE  IInv'
    <3>1. CASE Operation(w)
      BY <2>1, <3>1, FileOperationsKeep, BridgeStatusKeeps DEF Operation
    <3>2. CASE InitWorker(w, TRUE, TRUE)
      BY <2>1, <3>2, InitWorkerKeeps
    <3>3. CASE \E c \in TransportConfigs \cap Offered : Configure(w, c)
      BY <2>1, <3>3, TransportHandlersKeep DEF Configure
    <3>4. CASE \E c \in BridgeConfigs \cap Offered : BridgeConfigure(w, c)
      BY <2>1, <3>4, BridgeHandlersKeep DEF BridgeConfigure
    <3>5. CASE \E c \in KeyIds \cap Offered : BridgeAccess(w, c)
      BY <2>1, <3>5, BridgeHandlersKeep
    <3>6. CASE Respawn(w)
      BY <2>1, <3>6, EnvironmentKeeps
    <3> QED BY <2>2, <3>1, <3>2, <3>3, <3>4, <3>5, <3>6 DEF WorkerStep
  <2>3. CASE Launcher
    BY <2>1, <2>3, LauncherKeeps, EnvironmentKeeps DEF Launcher
  <2>4. CASE Adverse
    <3>1. ASSUME NEW w \in Workers,
                 InitWorker(w, FALSE, TRUE) \/ InitWorker(w, TRUE, FALSE)
          PROVE  IInv'
      BY <2>1, <3>1, InitWorkerKeeps
    <3>2. ASSUME NEW w \in Workers, NEW c,
                 ConfigureRefused(w, c) \/ ConfigureWithoutEpoch(w, c)
          PROVE  IInv'
      BY <2>1, <3>2, TransportHandlersKeep
    <3>3. ASSUME NEW w \in Workers, NEW c,
                 BridgeConfigureRefused(w, c) \/ BridgeAccess(w, c)
          PROVE  IInv'
      BY <2>1, <3>3, BridgeHandlersKeep
    <3>4. ASSUME NEW w \in Workers, ExportFails(w)
          PROVE  IInv'
      BY <2>1, <3>4, FileOperationsKeep
    <3>5. CASE (\E w \in Workers : Crash(w)) \/ ContainerStart \/ ChangeDisk
      BY <2>1, <3>5, EnvironmentKeeps
    <3> QED BY <2>4, <3>1, <3>2, <3>3, <3>4, <3>5 DEF Adverse
  <2> QED BY <1>2, <2>2, <2>3, <2>4 DEF Next
<1> QED BY <1>1, <1>2

\* The strengthened invariant holds in every reachable state.
THEOREM Invariance == Spec => []IInv
<1>1. Init => IInv
  BY InitIInv
<1>2. IInv /\ [Next]_vars => IInv'
  BY NextIInv
<1> QED BY <1>1, <1>2, PTL DEF Spec
-----------------------------------------------------------------------------
(***************************************************************************)
(* What follows.                                                           *)
(***************************************************************************)
\* Every variable keeps its type: status files and markers are well formed and the
\* handlers only queue known operations.
THEOREM TypeCorrect == Spec => []TypeOK
<1>1. IInv => TypeOK
  BY DEF IInv
<1> QED BY <1>1, Invariance, PTL

\* A worker that passes Transport:access is in a well-formed status environment,
\* so the marker test was a real one.
LEMMA OpenGate ==
    ASSUME IInv, NEW w \in Workers, GateOpen(w)
    PROVE  /\ statusEnv /\ marker # None
           /\ marker.generation = generation /\ marker.config_hash = tp[w].config_hash
           /\ tp[w].registry = tp[w].config_hash.fingerprints
           /\ \E x \in marker.workers :
                 /\ x.worker_id = w /\ x.pid = pid[w]
                 /\ x.registry_epoch = tp[w].registry_epoch
<1>1. LocalOK(tp[w]) /\ tp[w].registry_ready /\ tp[w].registry # None
  BY DEF IInv, WorkersOK, GateOpen
<1>2. statusEnv /\ tp[w].registry = tp[w].config_hash.fingerprints
  BY <1>1 DEF LocalOK
<1>3. ready_marker_covers_worker(w)
  BY DEF GateOpen
<1> QED BY <1>2, <1>3 DEF ready_marker_covers_worker

\* A marker never opens the gate of a process that has not itself, in this
\* container generation and with its present configuration, exported an all-ready
\* status (Transport:access): not a marker of a dead worker whose pid or slot was
\* taken over, nor one that outlived a container restart.
THEOREM GateIsCovered == Spec => []GateCovered
<1>1. IInv => GateCovered
  <2> SUFFICES ASSUME IInv, NEW w \in Workers, GateOpen(w)
               PROVE  \E r \in exported :
                         /\ r.worker_id = w /\ r.pid = pid[w] /\ r.generation = generation
                         /\ r.config_hash = tp[w].config_hash
                         /\ r.registry_epoch = tp[w].registry_epoch
    BY DEF GateCovered
  <2>1. PICK x \in marker.workers :
          x.worker_id = w /\ x.pid = pid[w] /\ x.registry_epoch = tp[w].registry_epoch
    BY OpenGate
  <2>2. marker # None /\ marker.generation = generation
          /\ marker.config_hash = tp[w].config_hash
    BY OpenGate
  <2>3. PICK r \in exported : Backs(r, x, marker)
    BY <2>1, <2>2 DEF IInv, MarkerBacked
  <2> QED BY <2>1, <2>2, <2>3 DEF Backs
<1> QED BY <1>1, Invariance, PTL

\* Two workers that serve at the same time serve the same configuration with the
\* same client certificates, although each read the mounted files on its own.
THEOREM WorkersAgree == Spec => []ServingWorkersAgree
<1>1. IInv => ServingWorkersAgree
  <2> SUFFICES ASSUME IInv, NEW v \in Workers, NEW w \in Workers, GateOpen(v), GateOpen(w)
               PROVE  tp[v].config_hash = tp[w].config_hash /\ tp[v].registry = tp[w].registry
    BY DEF ServingWorkersAgree
  <2>1. marker.config_hash = tp[v].config_hash
          /\ tp[v].registry = tp[v].config_hash.fingerprints
    BY OpenGate
  <2>2. marker.config_hash = tp[w].config_hash
          /\ tp[w].registry = tp[w].config_hash.fingerprints
    BY OpenGate
  <2> QED BY <2>1, <2>2
<1> QED BY <1>1, Invariance, PTL

\* The offline branch of ready_marker_covers_worker cannot be reached from a
\* malformed status environment: the registry never becomes ready there.
THEOREM MalformedCloses == Spec => []MalformedEnvironmentCloses
<1>1. IInv => MalformedEnvironmentCloses
  BY OpenGate DEF MalformedEnvironmentCloses
<1> QED BY <1>1, Invariance, PTL
-----------------------------------------------------------------------------
(***************************************************************************)
(* The latch, an action property.                                          *)
(***************************************************************************)
Latched(old, new) ==
    /\ old.config_hash # None => new.config_hash = old.config_hash
    /\ old.failed => new.failed /\ ~new.registry_ready

\* A step that only touches worker v, and keeps v's latch, keeps every latch.
LEMMA LatchOfOne ==
    ASSUME IInv, NEW v \in Workers, NEW t, Latched(tp[v], t), tp' = [tp EXCEPT ![v] = t]
    PROVE  \A w \in Workers : Latched(tp[w], tp'[w])
<1>1. tp \in [Workers -> Transport]
  BY DEF IInv, TypeOK
<1>2. \A w \in Workers : Latched(tp[w], tp[w])
  BY DEF IInv, WorkersOK, LocalOK, Latched
<1> QED BY <1>1, <1>2

\* configure and init_worker keep the latch.
LEMMA HandlersLatch ==
    ASSUME IInv, NEW v \in Workers, NEW c, NEW wrapped \in BOOLEAN, NEW digested \in BOOLEAN,
           \/ ConfigureFailed(v, c) \/ ConfigureAbsent(v) \/ ConfigureRefused(v, c)
           \/ ConfigureAccepted(v, c) \/ ConfigureWithoutEpoch(v, c)
           \/ InitWorker(v, wrapped, digested)
    PROVE  \A w \in Workers : Latched(tp[w], tp'[w])
<1>1. tp[v] \in Transport /\ LocalOK(tp[v])
  BY DEF IInv, TypeOK, WorkersOK
<1>2. CASE ConfigureFailed(v, c)
  <2>1. PICK id : tp' = [tp EXCEPT ![v] = [tp[v] EXCEPT
                           !.id = id, !.registry_ready = FALSE, !.delegate_ready = FALSE]]
    BY <1>2 DEF ConfigureFailed, TransportStep
  <2>2. Latched(tp[v], [tp[v] EXCEPT !.id = id, !.registry_ready = FALSE,
                                     !.delegate_ready = FALSE])
    BY <1>1 DEF Latched, Transport
  <2> QED BY <2>1, <2>2, LatchOfOne
<1>3. CASE ConfigureAbsent(v)
  <2>1. PICK id : tp' = [tp EXCEPT ![v] = [tp[v] EXCEPT
                           !.id = id, !.registry = None, !.registry_ready = FALSE,
                           !.delegate_ready = FALSE]]
    BY <1>3 DEF ConfigureAbsent, TransportStep
  <2>2. Latched(tp[v], [tp[v] EXCEPT !.id = id, !.registry = None,
                                     !.registry_ready = FALSE, !.delegate_ready = FALSE])
    BY <1>1 DEF Latched, Transport
  <2> QED BY <2>1, <2>2, LatchOfOne
<1>4. CASE ConfigureRefused(v, c)
  <2>1. PICK id : tp' = [tp EXCEPT ![v] = Fail([tp[v] EXCEPT !.id = id])]
    BY <1>4 DEF ConfigureRefused, TransportStep
  <2>2. Latched(tp[v], Fail([tp[v] EXCEPT !.id = id]))
    BY <1>1 DEF Latched, Fail, Transport
  <2> QED BY <2>1, <2>2, LatchOfOne
<1>5. ASSUME Acceptable(v, c), ~tp[v].failed, NEW id, NEW epoch
      PROVE  /\ Latched(tp[v], Accepted(v, c, id, epoch))
             /\ Latched(tp[v], Fail(Accepted(v, c, id, epoch)))
  BY <1>1, <1>5 DEF Latched, Fail, Accepted, Acceptable, Transport
<1>6. CASE ConfigureAccepted(v, c)
  <2>1. PICK id, epoch : tp' = [tp EXCEPT ![v] = Accepted(v, c, id, epoch)]
    BY <1>6 DEF ConfigureAccepted, TransportStep
  <2> QED BY <1>5, <1>6, <2>1, LatchOfOne DEF ConfigureAccepted
<1>7. CASE ConfigureWithoutEpoch(v, c)
  <2>1. PICK id : tp' = [tp EXCEPT ![v] = Fail(Accepted(v, c, id, None))]
    BY <1>7 DEF ConfigureWithoutEpoch, TransportStep
  <2> QED BY <1>5, <1>7, <2>1, LatchOfOne DEF ConfigureWithoutEpoch
<1>8. CASE InitWorker(v, wrapped, digested)
  <2> DEFINE ready == IF tp[v].registry # None
                        THEN statusEnv /\ ~tp[v].failed
                        ELSE tp[v].registry_ready
  <2>1. PICK id, epoch : tp' = [tp EXCEPT ![v] =
          [tp[v] EXCEPT !.id = id, !.worker_initialized = TRUE, !.registry_epoch = epoch,
                        !.wrapper_ready = wrapped, !.registry_ready = ready /\ wrapped,
                        !.failed = tp[v].failed \/ ~wrapped]]
    BY <1>8 DEF InitWorker, TransportStep
  <2>2. Latched(tp[v], [tp[v] EXCEPT !.id = id, !.worker_initialized = TRUE,
                          !.registry_epoch = epoch, !.wrapper_ready = wrapped,
                          !.registry_ready = ready /\ wrapped,
                          !.failed = tp[v].failed \/ ~wrapped])
    BY <1>1 DEF Latched, LocalOK, Transport
  <2> QED BY <2>1, <2>2, LatchOfOne
<1> QED BY <1>2, <1>3, <1>4, <1>6, <1>7, <1>8

\* The operations of a handler keep the latch, and so do the steps that leave the
\* transport's memory alone.
LEMMA OperationsLatch ==
    ASSUME IInv, NEW v \in Workers, NEW c,
           \/ Operation(v) \/ ExportFails(v)
           \/ BridgeConfigureAbsent(v) \/ BridgeConfigureRefused(v, c)
           \/ BridgeConfigureAccepted(v, c) \/ BridgeAccess(v, c)
           \/ Respawn(v) \/ ChangeDisk \/ LauncherPublish \/ LauncherRemove
    PROVE  \A w \in Workers : Latched(tp[w], tp'[w])
<1>1. tp[v] \in Transport /\ LocalOK(tp[v]) /\ Latched(tp[v], tp[v])
        /\ tp = [tp EXCEPT ![v] = tp[v]]
  BY DEF IInv, TypeOK, WorkersOK, LocalOK, Latched
<1>2. CASE tp' = tp
  BY <1>1, <1>2, LatchOfOne
<1>3. CASE ExportOk(v)
  <2>1. tp' = [tp EXCEPT ![v] = [tp[v] EXCEPT !.status_export_failed = FALSE]]
    BY <1>3 DEF ExportOk
  <2>2. Latched(tp[v], [tp[v] EXCEPT !.status_export_failed = FALSE])
    BY <1>1 DEF Latched, Transport
  <2> QED BY <2>1, <2>2, LatchOfOne
<1>4. CASE ExportFails(v)
  <2>1. tp' = [tp EXCEPT ![v] = [tp[v] EXCEPT !.status_export_failed = TRUE]]
    BY <1>4 DEF ExportFails
  <2>2. Latched(tp[v], [tp[v] EXCEPT !.status_export_failed = TRUE])
    BY <1>1 DEF Latched, Transport
  <2> QED BY <2>1, <2>2, LatchOfOne
<1>5. CASE disown(v) \/ refresh_transport_status(v)
  <2>1. PICK ready, epoch : tp' = [tp EXCEPT ![v] = MarkedBridge(tp[v], ready, epoch)]
    BY <1>5 DEF disown, refresh_transport_status, mark_bridge_status
  <2>2. Latched(tp[v], MarkedBridge(tp[v], ready, epoch))
    BY <1>1 DEF Latched, MarkedBridge, Transport
  <2> QED BY <2>1, <2>2, LatchOfOne
<1>6. CASE \/ unmark(v) \/ Fallback(v) \/ loaded(v)
           \/ BridgeConfigureAbsent(v) \/ BridgeConfigureRefused(v, c)
           \/ BridgeConfigureAccepted(v, c) \/ BridgeAccess(v, c)
           \/ Respawn(v) \/ ChangeDisk \/ LauncherPublish \/ LauncherRemove
  BY <1>2, <1>6 DEF unmark, Fallback, loaded, BridgeConfigureAbsent,
       BridgeConfigureRefused, BridgeConfigureAccepted, BridgeAccess, BridgeStep,
       Respawn, ChangeDisk, LauncherPublish, LauncherRemove, dataPlane
<1> QED BY <1>3, <1>4, <1>5, <1>6 DEF Operation

\* A process never changes its configuration hash and never recovers from a
\* failure; only a new process does (configure, init_worker).
THEOREM LatchHolds == Spec => ConfigurationLatched
<1> DEFINE Same(w) == generation' = generation /\ pid'[w] = pid[w] /\ pid[w] # 0
           Step    == \A w \in Workers : Same(w) => Latched(tp[w], tp'[w])
<1>1. IInv /\ [Next]_vars => [Step]_vars
  <2> SUFFICES ASSUME IInv, Next PROVE Step
    OBVIOUS
  <2>1. ASSUME NEW v \in Workers, WorkerStep(v) PROVE Step
    BY <2>1, HandlersLatch, OperationsLatch DEF WorkerStep, Configure, BridgeConfigure
  <2>2. CASE ContainerStop
    BY <2>2 DEF ContainerStop
  <2>3. CASE ContainerStart
    BY <2>3 DEF ContainerStart, IInv, TypeOK
  <2>4. CASE LauncherPublish \/ LauncherRemove \/ ChangeDisk
    <3>1. 0 \in Workers
      BY NumWorkersAssumption DEF Workers
    <3> QED BY <2>4, <3>1, OperationsLatch
  <2>5. ASSUME NEW v \in Workers, Crash(v) PROVE Step
    <3>1. pid'[v] = 0 /\ \A w \in Workers \ {v} : tp'[w] = tp[w]
      BY <2>5 DEF Crash, IInv, TypeOK
    <3>2. \A w \in Workers \ {v} : Latched(tp[w], tp'[w])
      BY <3>1 DEF IInv, WorkersOK, LocalOK, Latched
    <3> QED BY <3>1, <3>2
  <2>6. ASSUME NEW v \in Workers, NEW c,
               \/ InitWorker(v, FALSE, TRUE) \/ InitWorker(v, TRUE, FALSE)
               \/ ConfigureRefused(v, c) \/ ConfigureWithoutEpoch(v, c)
               \/ BridgeConfigureRefused(v, c) \/ BridgeAccess(v, c) \/ ExportFails(v)
        PROVE  Step
    BY <2>6, HandlersLatch, OperationsLatch
  <2>7. CASE Adverse
    BY <2>3, <2>4, <2>5, <2>6, <2>7 DEF Adverse
  <2> QED BY <2>1, <2>2, <2>4, <2>7 DEF Next, Launcher
<1>2. [][Step]_vars => ConfigurationLatched
  BY DEF ConfigurationLatched, Latched
<1> QED BY <1>1, <1>2, Invariance, PTL DEF Spec
-----------------------------------------------------------------------------
(***************************************************************************)
(* What a handler still has to do.  Between the moment a handler changes   *)
(* memory and the moment it is done, what the worker reports may be out of *)
(* date; the pending operations are what will bring it up to date.         *)
(***************************************************************************)
Has(s, S) == \E i \in 1 .. Len(s) : s[i] \in S

Unmarks == {"unmark"}
Proves  == {"refresh", "disown"}
Writes  == {"export", "loaded", "refresh", "disown"}

\* Has over concatenation, over the first operation, and over one operation.
LEMMA HasConcat ==
    ASSUME NEW s \in Seq(Ops), NEW t \in Seq(Ops), NEW S
    PROVE  Has(s \o t, S) <=> Has(s, S) \/ Has(t, S)
<1>1. /\ s \o t \in Seq(Ops) /\ Len(s \o t) = Len(s) + Len(t)
      /\ \A i \in 1 .. Len(s) + Len(t) :
            (s \o t)[i] = IF i <= Len(s) THEN s[i] ELSE t[i - Len(s)]
  BY ConcatProperties
<1>2. Len(s) \in Nat /\ Len(t) \in Nat
  OBVIOUS
<1>3. ASSUME Has(s, S) PROVE Has(s \o t, S)
  <2>1. PICK i \in 1 .. Len(s) : s[i] \in S
    BY <1>3 DEF Has
  <2>2. i \in 1 .. Len(s) + Len(t) /\ (s \o t)[i] = s[i]
    BY <1>1, <1>2
  <2> QED BY <1>1, <2>1, <2>2 DEF Has
<1>4. ASSUME Has(t, S) PROVE Has(s \o t, S)
  <2>1. PICK i \in 1 .. Len(t) : t[i] \in S
    BY <1>4 DEF Has
  <2>2. /\ i + Len(s) \in 1 .. Len(s) + Len(t) /\ ~(i + Len(s) <= Len(s))
        /\ (i + Len(s)) - Len(s) = i
    BY <1>2
  <2>3. (s \o t)[i + Len(s)] = t[i]
    BY <1>1, <2>2
  <2> QED BY <1>1, <2>1, <2>2, <2>3 DEF Has
<1>5. ASSUME Has(s \o t, S) PROVE Has(s, S) \/ Has(t, S)
  <2>1. PICK i \in 1 .. Len(s) + Len(t) : (s \o t)[i] \in S
    BY <1>1, <1>5 DEF Has
  <2>2. CASE i <= Len(s)
    BY <1>1, <1>2, <2>1, <2>2 DEF Has
  <2>3. CASE ~(i <= Len(s))
    <3>1. i - Len(s) \in 1 .. Len(t)
      BY <1>2, <2>3
    <3>2. (s \o t)[i] = t[i - Len(s)]
      BY <1>1, <2>3
    <3> QED BY <2>1, <3>1, <3>2 DEF Has
  <2> QED BY <2>2, <2>3
<1> QED BY <1>3, <1>4, <1>5

LEMMA HasHead ==
    ASSUME NEW s \in Seq(Ops), s # <<>>, NEW S
    PROVE  Tail(s) \in Seq(Ops) /\ (Has(s, S) <=> Head(s) \in S \/ Has(Tail(s), S))
<1>1. /\ Tail(s) \in Seq(Ops) /\ Len(s) \in Nat \ {0} /\ Len(Tail(s)) = Len(s) - 1
      /\ Head(s) = s[1] /\ \A i \in 1 .. Len(Tail(s)) : Tail(s)[i] = s[i + 1]
  BY HeadTailProperties, EmptySeq
<1>2. ASSUME Has(s, S), Head(s) \notin S PROVE Has(Tail(s), S)
  <2>1. PICK i \in 1 .. Len(s) : s[i] \in S
    BY <1>2 DEF Has
  <2>2. i # 1
    BY <1>1, <1>2, <2>1
  <2>3. i - 1 \in 1 .. Len(Tail(s)) /\ (i - 1) + 1 = i
    BY <1>1, <2>2
  <2> QED BY <1>1, <2>1, <2>3 DEF Has
<1>3. ASSUME Has(Tail(s), S) PROVE Has(s, S)
  <2>1. PICK i \in 1 .. Len(Tail(s)) : Tail(s)[i] \in S
    BY <1>3 DEF Has
  <2>2. i + 1 \in 1 .. Len(s)
    BY <1>1
  <2> QED BY <1>1, <2>1, <2>2 DEF Has
<1>4. ASSUME Head(s) \in S PROVE Has(s, S)
  BY <1>1, <1>4 DEF Has
<1> QED BY <1>1, <1>2, <1>3, <1>4

LEMMA HasOne ==
    ASSUME NEW op \in Ops, NEW S
    PROVE  /\ <<op>> \in Seq(Ops) /\ (Has(<<op>>, S) <=> op \in S)
           /\ <<>> \in Seq(Ops) /\ ~Has(<<>>, S)
<1>1. Len(<<op>>) = 1 /\ <<op>>[1] = op /\ Len(<<>>) = 0
  OBVIOUS
<1>2. Has(<<op>>, S) <=> op \in S
  BY <1>1 DEF Has
<1>3. ~Has(<<>>, S)
  BY <1>1 DEF Has
<1> QED BY <1>2, <1>3

\* write_status of an initialized worker writes, and mark_bridge_status too.
LEMMA StatusWritten ==
    ASSUME NEW t \in Transport, t.worker_initialized, statusEnv
    PROVE  Has(write_status(t), Writes) /\ Has(MarkedBridgeFiles(t), Writes)
           /\ Has(Unmark, Unmarks)
<1>1. /\ Unmark \in Seq(Ops) /\ write_status(t) \in Seq(Ops)
  BY OpsType
<1>2. /\ <<"export">> \in Seq(Ops) /\ <<>> \in Seq(Ops) /\ Has(<<"export">>, Writes)
      /\ Has(<<"unmark">>, Unmarks)
  BY HasOne DEF Ops, Writes, Unmarks
<1>3. Has(write_status(t), Writes)
  BY <1>1, <1>2, HasConcat DEF write_status
<1>4. Has(MarkedBridgeFiles(t), Writes)
  BY <1>1, <1>2, <1>3, HasConcat DEF MarkedBridgeFiles
<1> QED BY <1>2, <1>3, <1>4 DEF Unmark
-----------------------------------------------------------------------------
(***************************************************************************)
(* The status a worker reports.                                            *)
(***************************************************************************)
\* The delegate of worker w is proved under w's present registry epoch.
Proved(w) ==
    /\ br[w].signer_epoch = tp[w].registry_epoch
    /\ tp[w].registry_epoch \in br[w].cached_keys
    /\ ~br[w].delegate_failed
    /\ tp[w].registry_ready /\ ~tp[w].failed

\* The inductive form of StatusHonest: a claim that is not (or no longer) backed,
\* and a file that is out of date, have the operation that repairs them pending.
ProofDue(w) == tp[w].delegate_ready => Proved(w) \/ Has(todo[w], Proves)
WriteDue(w) ==
    tp[w].worker_initialized /\ statusEnv =>
       \/ tp[w].status_export_failed
       \/ file[w] = status_snapshot(w, tp[w])
       \/ Has(todo[w], Writes)
DeadIsFresh(w) == pid[w] = 0 => ~tp[w].worker_initialized

Honest(w) == ProofDue(w) /\ WriteDue(w) /\ DeadIsFresh(w)
HonestInv == \A w \in Workers : Honest(w)

\* A step of worker w: it leaves the processes and the other workers alone.
OnlyWorker(w) ==
    /\ UNCHANGED <<statusEnv, up, generation, pid>>
    /\ \A v \in Workers \ {w} :
         tp'[v] = tp[v] /\ br'[v] = br[v] /\ todo'[v] = todo[v] /\ file'[v] = file[v]

\* What a worker reports depends on its own state only.
LEMMA HonestFrame ==
    ASSUME NEW v \in Workers, Honest(v), UNCHANGED <<statusEnv, generation>>,
           pid'[v] = pid[v], tp'[v] = tp[v], br'[v] = br[v], todo'[v] = todo[v],
           file'[v] = file[v]
    PROVE  Honest(v)'
<1>1. status_snapshot(v, tp[v])' = status_snapshot(v, tp[v])
  BY DEF status_snapshot
<1>2. ProofDue(v)' /\ DeadIsFresh(v)'
  BY DEF Honest, ProofDue, DeadIsFresh, Proved, Has, Proves
<1>3. WriteDue(v)'
  BY <1>1 DEF Honest, WriteDue, Has, Writes
<1> QED BY <1>2, <1>3 DEF Honest

\* A handler of either plugin in worker w: whatever it changes, it queues the
\* operations that prove the delegate again, write the status, and, when it is
\* init_worker, remove the marker.
HandlerOf(w, c) ==
    \/ ConfigureFailed(w, c) \/ ConfigureAbsent(w) \/ ConfigureRefused(w, c)
    \/ ConfigureAccepted(w, c) \/ ConfigureWithoutEpoch(w, c)
    \/ InitWorker(w, TRUE, TRUE) \/ InitWorker(w, FALSE, TRUE) \/ InitWorker(w, TRUE, FALSE)
    \/ BridgeConfigureAbsent(w) \/ BridgeConfigureRefused(w, c)
    \/ BridgeConfigureAccepted(w, c) \/ BridgeAccess(w, c)

Queues(w) ==
    /\ tp'[w].delegate_ready => Has(todo'[w], Proves)
    /\ tp'[w].worker_initialized /\ statusEnv => Has(todo'[w], Writes)
    /\ \/ tp'[w].worker_initialized = tp[w].worker_initialized
       \/ statusEnv => Has(todo'[w], Unmarks)

\* A queue with operations s in it has what s has.
LEMMA HasAmong ==
    ASSUME NEW p \in Seq(Ops), NEW s \in Seq(Ops), NEW q \in Seq(Ops), NEW S
    PROVE  /\ Has(s \o q, S) <=> Has(s, S) \/ Has(q, S)
           /\ Has(p \o s \o q, S) <=> Has(p, S) \/ Has(s, S) \/ Has(q, S)
<1>1. p \o s \in Seq(Ops)
  BY ConcatProperties
<1> QED BY <1>1, HasConcat

LEMMA TransportQueues ==
    ASSUME IInv, NEW w \in Workers, NEW t, NEW ops, TransportStep(w, t, ops),
           t.delegate_ready => Has(ops, Proves),
           t.worker_initialized /\ statusEnv => Has(ops, Writes),
           \/ t.worker_initialized = tp[w].worker_initialized
           \/ statusEnv => Has(ops, Unmarks)
    PROVE  OnlyWorker(w) /\ Queues(w) /\ UNCHANGED <<marker, exported>>
<1>1. tp'[w] = t /\ todo'[w] = ops /\ OnlyWorker(w) /\ UNCHANGED <<marker, exported>>
  BY DEF TransportStep, OnlyWorker, IInv, TypeOK
<1> QED BY <1>1 DEF Queues

LEMMA HandlerQueues ==
    ASSUME IInv, IInv', NEW w \in Workers, NEW c, HandlerOf(w, c)
    PROVE  Idle(w) /\ OnlyWorker(w) /\ Queues(w) /\ UNCHANGED <<marker, exported>>
<1>1. tp[w] \in Transport /\ tp'[w] \in Transport /\ Unmark \in Seq(Ops)
  BY OpsType DEF IInv, TypeOK
<1>2. Idle(w)
  BY DEF HandlerOf, ConfigureFailed, ConfigureAbsent, ConfigureRefused, ConfigureAccepted,
     ConfigureWithoutEpoch, InitWorker, BridgeConfigureAbsent, BridgeConfigureRefused,
     BridgeConfigureAccepted, BridgeAccess, GateOpen
<1>3. ASSUME NEW t \in Transport
      PROVE  /\ write_status(t) \in Seq(Ops)
             /\ t.worker_initialized /\ statusEnv => Has(write_status(t), Writes)
  BY <1>3, OpsType, StatusWritten
<1>4. ASSUME NEW t, NEW ops, TransportStep(w, t, ops)
      PROVE  t \in Transport
  BY <1>1, <1>4 DEF TransportStep, IInv, TypeOK
<1>5. <<"refresh">> \in Seq(Ops)
  BY DEF Ops
<1>6. ASSUME NEW t, TransportStep(w, t, write_status(t)) \/
                    TransportStep(w, t, write_status(t) \o <<"refresh">>) \/
                    TransportStep(w, t, Unmark \o write_status(t) \o <<"refresh">>),
             ~t.delegate_ready, t.worker_initialized = tp[w].worker_initialized
      PROVE  OnlyWorker(w) /\ Queues(w) /\ UNCHANGED <<marker, exported>>
  <2>1. t \in Transport
    BY <1>4, <1>6
  <2>2. /\ write_status(t) \in Seq(Ops)
        /\ t.worker_initialized /\ statusEnv => Has(write_status(t), Writes)
    BY <2>1, <1>3
  <2>3. t.worker_initialized /\ statusEnv =>
          /\ Has(write_status(t) \o <<"refresh">>, Writes)
          /\ Has(Unmark \o write_status(t) \o <<"refresh">>, Writes)
    BY <2>2, <1>1, <1>5, HasAmong
  <2> QED BY <1>6, <2>2, <2>3, TransportQueues
<1>7. CASE ConfigureFailed(w, c)
  <2>1. PICK id \in ensure_worker_identity(w) :
          LET t == [tp[w] EXCEPT !.id = id, !.registry_ready = FALSE,
                                 !.delegate_ready = FALSE]
          IN  TransportStep(w, t, write_status(t))
    BY <1>7 DEF ConfigureFailed
  <2> DEFINE t == [tp[w] EXCEPT !.id = id, !.registry_ready = FALSE,
                                !.delegate_ready = FALSE]
  <2>2. ~t.delegate_ready /\ t.worker_initialized = tp[w].worker_initialized
    BY <1>1 DEF Transport
  <2> HIDE DEF t
  <2> QED BY <1>2, <1>6, <2>1, <2>2 DEF t
<1>8. CASE ConfigureAbsent(w)
  <2>1. PICK id \in ensure_worker_identity(w) :
          LET t == [tp[w] EXCEPT !.id = id, !.registry = None,
                                 !.registry_ready = FALSE, !.delegate_ready = FALSE]
          IN  TransportStep(w, t, Unmark \o write_status(t) \o <<"refresh">>)
    BY <1>8 DEF ConfigureAbsent
  <2> DEFINE t == [tp[w] EXCEPT !.id = id, !.registry = None,
                                !.registry_ready = FALSE, !.delegate_ready = FALSE]
  <2>2. ~t.delegate_ready /\ t.worker_initialized = tp[w].worker_initialized
    BY <1>1 DEF Transport
  <2> QED BY <1>2, <1>6, <2>1, <2>2
<1>9. ASSUME NEW u \in Transport
      PROVE  ~Fail(u).delegate_ready /\ Fail(u).worker_initialized = u.worker_initialized
  BY DEF Fail, Transport
<1>10. CASE ConfigureRefused(w, c)
  <2>1. PICK id \in ensure_worker_identity(w) :
          LET t == Fail([tp[w] EXCEPT !.id = id])
          IN  TransportStep(w, t, write_status(t) \o <<"refresh">>)
    BY <1>10 DEF ConfigureRefused
  <2> DEFINE t == Fail([tp[w] EXCEPT !.id = id])
  <2>2. ~t.delegate_ready /\ t.worker_initialized = tp[w].worker_initialized
    BY <1>1 DEF Fail, Transport
  <2> QED BY <1>2, <1>6, <2>1, <2>2
<1>11. ASSUME NEW id, NEW epoch
       PROVE  LET t == Accepted(w, c, id, epoch) IN
              /\ ~t.delegate_ready /\ t.worker_initialized = tp[w].worker_initialized
              /\ ~Fail(t).delegate_ready
              /\ Fail(t).worker_initialized = tp[w].worker_initialized
  BY <1>1 DEF Fail, Accepted, Transport
<1>12. CASE ConfigureAccepted(w, c)
  <2>1. PICK id, epoch :
          LET t == Accepted(w, c, id, epoch)
          IN  TransportStep(w, t, write_status(t) \o <<"refresh">>)
    BY <1>12 DEF ConfigureAccepted
  <2> QED BY <1>2, <1>6, <1>11, <2>1
<1>13. CASE ConfigureWithoutEpoch(w, c)
  <2>1. PICK id :
          LET t == Fail(Accepted(w, c, id, None))
          IN  TransportStep(w, t, write_status(t) \o <<"refresh">>)
    BY <1>13 DEF ConfigureWithoutEpoch
  <2> QED BY <1>2, <1>6, <1>11, <2>1
<1>14. ASSUME NEW wrapped \in BOOLEAN, NEW digested \in BOOLEAN,
              InitWorker(w, wrapped, digested)
       PROVE  OnlyWorker(w) /\ Queues(w) /\ UNCHANGED <<marker, exported>>
  <2> DEFINE own   == [worker |-> w, pid |-> pid[w]]
             hash  == tp[w].config_hash
             epoch == IF hash = None THEN tp[w].registry_epoch
                      ELSE IF digested THEN registry_epoch_of(own, generation, hash)
                      ELSE None
             ready == IF tp[w].registry # None
                        THEN statusEnv /\ ~tp[w].failed
                        ELSE tp[w].registry_ready
             t     == [tp[w] EXCEPT !.id = own, !.worker_initialized = TRUE,
                                    !.registry_epoch = epoch,
                                    !.wrapper_ready = wrapped,
                                    !.registry_ready = ready /\ wrapped,
                                    !.failed = tp[w].failed \/ ~wrapped]
             queue == <<"refresh", "loaded", "refresh">>
  <2>0. TransportStep(w, t, Unmark \o write_status(t) \o queue)
    BY <1>14 DEF InitWorker
  <2>1. t = tp'[w]
    BY <2>0 DEF TransportStep, IInv, TypeOK
  <2>2. t.worker_initialized
    BY <1>1 DEF Transport
  <2> HIDE DEF t
  <2>3. queue \in Seq(Ops) /\ Has(queue, Proves)
    <3>1. queue \in Seq(Ops) /\ Len(queue) = 3 /\ queue[1] = "refresh"
      BY DEF Ops
    <3> QED BY <3>1 DEF Has, Proves
  <2>4. write_status(t) \in Seq(Ops) /\ (statusEnv => Has(write_status(t), Writes))
    BY <1>1, <1>3, <2>1, <2>2
  <2>5. statusEnv => Has(Unmark, Unmarks)
    BY <1>1, <2>1, <2>2, StatusWritten
  <2> DEFINE ops == Unmark \o write_status(t) \o queue
  <2>6. Has(ops, Proves) /\ (statusEnv => Has(ops, Writes) /\ Has(ops, Unmarks))
    <3> HIDE DEF queue
    <3> QED BY <1>1, <2>3, <2>4, <2>5, HasAmong
  <2> HIDE DEF ops, queue
  <2> QED BY <2>0, <2>6, TransportQueues DEF ops
<1>15. ASSUME NEW b, NEW ops, BridgeStep(w, b, ops), Has(ops, Proves)
       PROVE  OnlyWorker(w) /\ Queues(w) /\ UNCHANGED <<marker, exported>>
  <2>1. todo'[w] = ops /\ OnlyWorker(w) /\ UNCHANGED <<marker, exported, tp>>
    BY <1>15 DEF BridgeStep, OnlyWorker, IInv, TypeOK
  <2>2. Has(ops, Writes)
    BY <1>15 DEF Has, Proves, Writes
  <2> QED BY <1>15, <2>1, <2>2 DEF Queues
<1>16. /\ Has(<<"loaded", "disown">>, Proves) /\ Has(<<"disown">>, Proves)
       /\ Has(<<"loaded", "refresh">>, Proves) /\ Has(<<"refresh">>, Proves)
  <2>1. /\ Len(<<"loaded", "disown">>) = 2 /\ <<"loaded", "disown">>[2] = "disown"
        /\ Len(<<"disown">>) = 1 /\ <<"disown">>[1] = "disown"
        /\ Len(<<"loaded", "refresh">>) = 2 /\ <<"loaded", "refresh">>[2] = "refresh"
        /\ Len(<<"refresh">>) = 1 /\ <<"refresh">>[1] = "refresh"
    OBVIOUS
  <2>2. 2 \in 1 .. 2 /\ 1 \in 1 .. 1
    OBVIOUS
  <2> QED BY <2>1, <2>2 DEF Has, Proves
<1>17. CASE BridgeConfigureAbsent(w) \/ BridgeConfigureRefused(w, c)
  BY <1>2, <1>15, <1>16, <1>17 DEF BridgeConfigureAbsent, BridgeConfigureRefused
<1>18. CASE BridgeConfigureAccepted(w, c)
  BY <1>2, <1>15, <1>16, <1>18 DEF BridgeConfigureAccepted
<1>19. CASE BridgeAccess(w, c)
  BY <1>2, <1>15, <1>16, <1>19 DEF BridgeAccess
<1> QED BY <1>2, <1>7, <1>8, <1>10, <1>12, <1>13, <1>14, <1>17, <1>18, <1>19 DEF HandlerOf

\* The operations of a handler, performed or failing: only unmark takes an
\* "unmark" off the queue, and it has removed the marker then.
OperationOf(w) == Operation(w) \/ ExportFails(w)

LEMMA OperationFrame ==
    ASSUME IInv, IInv', NEW w \in Workers, OperationOf(w)
    PROVE  /\ Running(w) /\ OnlyWorker(w)
           /\ tp'[w].worker_initialized = tp[w].worker_initialized
           /\ \/ marker' = None
              \/ marker' = marker /\ (Has(todo[w], Unmarks) => Has(todo'[w], Unmarks))
<1>1. tp[w] \in Transport /\ tp'[w] \in Transport /\ todo[w] \in Seq(Ops)
  BY DEF IInv, TypeOK
<1>2. Running(w) /\ todo[w] # <<>>
  BY DEF OperationOf, Operation, unmark, ExportOk, ExportFails, Fallback, loaded, disown,
     refresh_transport_status, Doing
<1>3. Rest(w) \in Seq(Ops)
        /\ \A S : Has(todo[w], S) <=> Head(todo[w]) \in S \/ Has(Rest(w), S)
  BY <1>1, <1>2, HasHead DEF Rest
<1>4. OnlyWorker(w)
  BY DEF OperationOf, Operation, unmark, ExportOk, ExportFails, Fallback, loaded, disown,
     refresh_transport_status, mark_bridge_status, Rename, OnlyWorker, IInv, TypeOK
<1>5. tp'[w].worker_initialized = tp[w].worker_initialized
  <2>1. tp \in [Workers -> Transport]
    BY DEF IInv, TypeOK
  <2>2. CASE unmark(w)
    BY <2>2 DEF unmark
  <2>3. CASE ExportOk(w)
    BY <1>1, <2>1, <2>3 DEF ExportOk, Transport
  <2>4. CASE Fallback(w) \/ ExportFails(w)
    BY <1>1, <2>1, <2>4 DEF Fallback, ExportFails, Transport
  <2>5. CASE loaded(w) \/ disown(w) \/ refresh_transport_status(w)
    BY <1>1, <2>1, <2>5 DEF loaded, disown, refresh_transport_status, mark_bridge_status,
       MarkedBridge, Transport
  <2> QED BY <2>2, <2>3, <2>4, <2>5 DEF OperationOf, Operation
<1>6. CASE unmark(w)
  BY <1>2, <1>4, <1>5, <1>6 DEF unmark
<1>7. CASE ~unmark(w)
  <2>1. marker' = marker
    BY <1>7 DEF OperationOf, Operation, ExportOk, ExportFails, Fallback, loaded, disown,
       refresh_transport_status, mark_bridge_status
  <2>2. Head(todo[w]) \notin Unmarks
    BY <1>7 DEF OperationOf, Operation, ExportOk, ExportFails, Fallback, loaded, disown,
       refresh_transport_status, Doing, Unmarks
  <2>3. PICK ops \in Seq(Ops) : todo'[w] = Rest(w) \/ todo'[w] = ops \o Rest(w)
    <3>1. \A t \in Transport : /\ Unmark \in Seq(Ops) /\ write_status(t) \in Seq(Ops)
                               /\ MarkedBridgeFiles(t) \in Seq(Ops)
      BY OpsType
    <3>2. <<"fallback">> \in Seq(Ops)
      BY DEF Ops
    <3>3. Unmark \o <<"fallback">> \in Seq(Ops)
      BY <1>1, <3>1, <3>2, ConcatProperties
    <3>4. CASE ExportOk(w) \/ Fallback(w)
      BY <3>2, <3>4 DEF ExportOk, Fallback, IInv, TypeOK
    <3>5. CASE ExportFails(w)
      BY <3>3, <3>5 DEF ExportFails, IInv, TypeOK
    <3>6. CASE loaded(w)
      BY <1>1, <3>1, <3>6 DEF loaded, IInv, TypeOK
    <3>7. CASE disown(w) \/ refresh_transport_status(w)
      <4>1. PICK ready, epoch : mark_bridge_status(w, ready, epoch)
        BY <3>7 DEF disown, refresh_transport_status
      <4>2. tp'[w] = MarkedBridge(tp[w], ready, epoch)
              /\ todo'[w] = MarkedBridgeFiles(tp'[w]) \o Rest(w)
        BY <4>1 DEF mark_bridge_status, IInv, TypeOK
      <4> QED BY <1>1, <3>1, <4>2
    <3> QED BY <1>7, <3>4, <3>5, <3>6, <3>7 DEF OperationOf, Operation
  <2>4. Has(Rest(w), Unmarks) => Has(todo'[w], Unmarks)
    BY <1>3, <2>3, HasConcat
  <2> QED BY <1>2, <1>3, <1>4, <1>5, <2>1, <2>2, <2>4
<1> QED BY <1>6, <1>7

\* An operation repairs what it was queued for, and leaves the rest pending.
LEMMA OperationHonest ==
    ASSUME IInv, IInv', NEW w \in Workers, OperationOf(w), Honest(w)
    PROVE  Honest(w)'
<1>1. /\ tp[w] \in Transport /\ tp'[w] \in Transport /\ todo[w] \in Seq(Ops)
      /\ todo[w] # <<>> /\ pid' = pid /\ statusEnv' = statusEnv /\ generation' = generation
      /\ tp'[w].worker_initialized = tp[w].worker_initialized
  BY OperationFrame DEF IInv, TypeOK, OnlyWorker, OperationOf, Operation, unmark, ExportOk,
     ExportFails, Fallback, loaded, disown, refresh_transport_status, Doing
<1>2. Rest(w) \in Seq(Ops)
        /\ \A S : Has(todo[w], S) <=> Head(todo[w]) \in S \/ Has(Rest(w), S)
  BY <1>1, HasHead DEF Rest
<1>3. DeadIsFresh(w)'
  BY <1>1 DEF Honest, DeadIsFresh
<1>4. \A t \in Transport : /\ Unmark \in Seq(Ops) /\ write_status(t) \in Seq(Ops)
                           /\ MarkedBridgeFiles(t) \in Seq(Ops)
  BY OpsType
<1>5. CASE unmark(w)
  <2>1. /\ todo'[w] = Rest(w) /\ UNCHANGED <<tp, br, file>>
        /\ Head(todo[w]) = "unmark"
    BY <1>5 DEF unmark, Doing, IInv, TypeOK
  <2>2. \A S \in {Proves, Writes} : Has(todo[w], S) => Has(todo'[w], S)
    BY <1>2, <2>1 DEF Proves, Writes
  <2>3. status_snapshot(w, tp[w])' = status_snapshot(w, tp[w])
    BY <1>1, <2>1 DEF status_snapshot
  <2>4. ProofDue(w)'
    BY <2>1, <2>2 DEF Honest, ProofDue, Proved
  <2>5. WriteDue(w)'
    BY <1>1, <2>1, <2>2, <2>3 DEF Honest, WriteDue
  <2> QED BY <1>3, <2>4, <2>5 DEF Honest
<1>6. CASE ExportOk(w)
  <2> DEFINE t == [tp[w] EXCEPT !.status_export_failed = FALSE]
  <2>1. /\ todo'[w] = Rest(w) /\ br' = br /\ tp'[w] = t
        /\ Head(todo[w]) = "export" /\ file'[w] = status_snapshot(w, t)
    BY <1>6 DEF ExportOk, Rename, Doing, IInv, TypeOK
  <2>2. Has(todo[w], Proves) => Has(todo'[w], Proves)
    BY <1>2, <2>1 DEF Proves
  <2>3. status_snapshot(w, tp[w])' = status_snapshot(w, t)
    BY <1>1, <2>1 DEF status_snapshot
  <2>4. WriteDue(w)'
    BY <2>1, <2>3 DEF WriteDue
  <2>5. ProofDue(w)'
    <3>1. /\ t.delegate_ready = tp[w].delegate_ready /\ t.registry_ready = tp[w].registry_ready
          /\ t.registry_epoch = tp[w].registry_epoch /\ t.failed = tp[w].failed
      BY <1>1 DEF Transport
    <3> QED BY <2>1, <2>2, <3>1 DEF Honest, ProofDue, Proved
  <2> QED BY <1>3, <2>4, <2>5 DEF Honest
<1>7. CASE ExportFails(w)
  <2> DEFINE t   == [tp[w] EXCEPT !.status_export_failed = TRUE]
             ops == Unmark \o <<"fallback">>
  <2>1. /\ todo'[w] = ops \o Rest(w) /\ br' = br /\ tp'[w] = t
        /\ Head(todo[w]) = "export"
    BY <1>7 DEF ExportFails, Doing, IInv, TypeOK
  <2>2. ops \in Seq(Ops)
    <3>1. <<"fallback">> \in Seq(Ops)
      BY DEF Ops
    <3> QED BY <1>1, <1>4, <3>1, ConcatProperties
  <2>3. Has(todo[w], Proves) => Has(todo'[w], Proves)
    <3> HIDE DEF ops
    <3>1. Has(todo[w], Proves) => Has(Rest(w), Proves)
      BY <1>2, <2>1 DEF Proves
    <3> QED BY <1>2, <2>1, <2>2, <3>1, HasConcat
  <2>4. t.status_export_failed
    BY <1>1 DEF Transport
  <2>5. WriteDue(w)'
    BY <2>1, <2>4 DEF WriteDue
  <2>6. ProofDue(w)'
    <3>1. /\ t.delegate_ready = tp[w].delegate_ready /\ t.registry_ready = tp[w].registry_ready
          /\ t.registry_epoch = tp[w].registry_epoch /\ t.failed = tp[w].failed
      BY <1>1 DEF Transport
    <3> QED BY <2>1, <2>3, <3>1 DEF Honest, ProofDue, Proved
  <2> QED BY <1>3, <2>5, <2>6 DEF Honest
<1>8. CASE Fallback(w)
  <2>1. /\ todo'[w] = Rest(w) /\ UNCHANGED <<tp, br>>
        /\ Head(todo[w]) = "fallback"
        /\ file'[w] = status_snapshot(w, tp[w]) \/ file'[w] = file[w]
    BY <1>8 DEF Fallback, Rename, Doing, IInv, TypeOK
  <2>2. \A S \in {Proves, Writes} : Has(todo[w], S) => Has(todo'[w], S)
    BY <1>2, <2>1 DEF Proves, Writes
  <2>3. status_snapshot(w, tp[w])' = status_snapshot(w, tp[w])
    BY <1>1, <2>1 DEF status_snapshot
  <2>4. ProofDue(w)'
    BY <2>1, <2>2 DEF Honest, ProofDue, Proved
  <2>5. WriteDue(w)'
    BY <1>1, <2>1, <2>2, <2>3 DEF Honest, WriteDue
  <2> QED BY <1>3, <2>4, <2>5 DEF Honest
<1>9. CASE loaded(w)
  <2>1. /\ todo'[w] = write_status(tp[w]) \o Rest(w) /\ UNCHANGED <<tp, br>>
        /\ Head(todo[w]) = "loaded"
    BY <1>9 DEF loaded, Doing, IInv, TypeOK
  <2>2. Has(todo[w], Proves) => Has(todo'[w], Proves)
    <3>1. Has(todo[w], Proves) => Has(Rest(w), Proves)
      BY <1>2, <2>1 DEF Proves
    <3> QED BY <1>1, <1>2, <1>4, <2>1, <3>1, HasConcat
  <2>3. tp[w].worker_initialized /\ statusEnv => Has(todo'[w], Writes)
    BY <1>1, <1>2, <1>4, <2>1, StatusWritten, HasConcat
  <2>4. ProofDue(w)'
    BY <2>1, <2>2 DEF Honest, ProofDue, Proved
  <2>5. WriteDue(w)'
    BY <1>1, <2>1, <2>3 DEF WriteDue
  <2> QED BY <1>3, <2>4, <2>5 DEF Honest
<1>10. ASSUME NEW ready, NEW epoch, mark_bridge_status(w, ready, epoch)
       PROVE  /\ tp'[w] = MarkedBridge(tp[w], ready, epoch)
              /\ WriteDue(w)'
  <2>1. /\ tp'[w] = MarkedBridge(tp[w], ready, epoch)
        /\ todo'[w] = MarkedBridgeFiles(tp'[w]) \o Rest(w)
    BY <1>10 DEF mark_bridge_status, IInv, TypeOK
  <2>2. tp'[w].worker_initialized /\ statusEnv => Has(todo'[w], Writes)
    BY <1>1, <1>2, <1>4, <2>1, StatusWritten, HasConcat
  <2> QED BY <1>1, <2>1, <2>2 DEF WriteDue
<1>11. CASE disown(w)
  <2>1. mark_bridge_status(w, FALSE, None)
    BY <1>11 DEF disown
  <2>2. ~tp'[w].delegate_ready
    BY <1>1, <1>10, <2>1 DEF MarkedBridge, Transport
  <2> QED BY <1>3, <1>10, <2>1, <2>2 DEF Honest, ProofDue
<1>12. CASE refresh_transport_status(w)
  <2> DEFINE ready == DelegateReady(w)
             epoch == IF ready THEN current_registry_epoch(tp[w]) ELSE None
  <2>1. /\ mark_bridge_status(w, ready, epoch)
        /\ br'[w] = [br[w] EXCEPT !.delegate_ready = ready, !.signer_epoch = epoch,
                       !.cached_keys = br[w].cached_keys \cup (IF ready THEN {epoch} ELSE {})]
    BY <1>12 DEF refresh_transport_status, IInv, TypeOK
  <2>2. tp'[w] = MarkedBridge(tp[w], ready, epoch) /\ WriteDue(w)'
    BY <1>10, <2>1
  <2>3. ASSUME tp'[w].delegate_ready PROVE Proved(w)'
    <3>1. /\ ready /\ ~tp[w].failed /\ tp[w].registry_ready /\ epoch = tp[w].registry_epoch
      BY <1>1, <2>2, <2>3 DEF MarkedBridge, Transport
    <3>2. /\ tp'[w].registry_epoch = tp[w].registry_epoch /\ tp'[w].failed = tp[w].failed
          /\ tp'[w].registry_ready = tp[w].registry_ready
      BY <1>1, <2>2 DEF MarkedBridge, Transport
    <3>3. ~br[w].delegate_failed
      BY <3>1 DEF DelegateReady
    <3>4. br[w] \in Bridge
      BY DEF IInv, TypeOK
    <3>5. /\ br'[w].signer_epoch = epoch /\ epoch \in br'[w].cached_keys
          /\ ~br'[w].delegate_failed
      <4> HIDE DEF ready, epoch
      <4> QED BY <2>1, <3>1, <3>3, <3>4 DEF Bridge
    <3> QED BY <3>1, <3>2, <3>5 DEF Proved
  <2> QED BY <1>3, <2>2, <2>3 DEF Honest, ProofDue
<1> QED BY <1>5, <1>6, <1>7, <1>8, <1>9, <1>11, <1>12 DEF OperationOf, Operation

\* The steps of the Data Plane, by what they are for the reported status.
PlaneAction == (\E w \in Workers : WorkerStep(w)) \/ Adverse

LEMMA StepKinds ==
    ASSUME PlaneAction
    PROVE  \/ \E w \in Workers : \/ \E c : HandlerOf(w, c)
                                 \/ OperationOf(w) \/ Respawn(w) \/ Crash(w)
           \/ ContainerStart \/ ChangeDisk
<1>1. ASSUME NEW w \in Workers, WorkerStep(w)
      PROVE  (\E c : HandlerOf(w, c)) \/ OperationOf(w) \/ Respawn(w)
  BY <1>1, Zenon DEF WorkerStep, Configure, BridgeConfigure, HandlerOf, OperationOf
<1>2. CASE Adverse
  BY <1>2, Zenon DEF Adverse, HandlerOf, OperationOf
<1> QED BY <1>1, <1>2 DEF PlaneAction

LEMMA HonestKept ==
    ASSUME IInv, IInv', HonestInv, PlaneAction \/ Launcher \/ UNCHANGED vars
    PROVE  HonestInv'
<1> SUFFICES ASSUME NEW v \in Workers PROVE Honest(v)'
  BY DEF HonestInv
<1>1. Honest(v)
  BY DEF HonestInv
<1>2. ASSUME NEW w \in Workers, NEW c, HandlerOf(w, c)
      PROVE  Honest(v)'
  <2>1. Idle(w) /\ OnlyWorker(w) /\ Queues(w)
    BY <1>2, HandlerQueues
  <2>2. CASE v # w
    BY <1>1, <2>1, <2>2, HonestFrame DEF OnlyWorker
  <2>3. CASE v = w
    BY <2>1, <2>3 DEF Queues, OnlyWorker, Idle, Running, Honest, ProofDue, WriteDue,
       DeadIsFresh
  <2> QED BY <2>2, <2>3
<1>3. ASSUME NEW w \in Workers, OperationOf(w)
      PROVE  Honest(v)'
  <2>1. OnlyWorker(w)
    BY <1>3, OperationFrame
  <2>2. CASE v # w
    BY <1>1, <2>1, <2>2, HonestFrame DEF OnlyWorker
  <2>3. CASE v = w
    BY <1>1, <1>3, <2>3, OperationHonest
  <2> QED BY <2>2, <2>3
<1>4. ASSUME tp'[v] = FreshTransport
      PROVE  Honest(v)'
  <2>1. ~tp'[v].delegate_ready /\ ~tp'[v].worker_initialized
    BY <1>4 DEF FreshTransport
  <2> QED BY <2>1 DEF Honest, ProofDue, WriteDue, DeadIsFresh
<1>5. ASSUME NEW w \in Workers, Crash(w)
      PROVE  Honest(v)'
  <2>1. CASE v = w
    BY <1>4, <1>5, <2>1 DEF Crash, IInv, TypeOK
  <2>2. CASE v # w
    <3>1. /\ UNCHANGED <<statusEnv, generation>> /\ pid'[v] = pid[v] /\ tp'[v] = tp[v]
          /\ br'[v] = br[v] /\ todo'[v] = todo[v] /\ file'[v] = file[v]
      BY <1>5, <2>2 DEF Crash, IInv, TypeOK
    <3> QED BY <1>1, <3>1, HonestFrame
  <2> QED BY <2>1, <2>2
<1>6. ASSUME NEW w \in Workers, Respawn(w)
      PROVE  Honest(v)'
  <2>1. UNCHANGED <<statusEnv, generation, tp, br, todo, file>>
    BY <1>6 DEF Respawn
  <2>2. CASE v = w
    <3>1. ~tp[v].worker_initialized
      BY <1>1, <1>6, <2>2 DEF Honest, DeadIsFresh, Respawn
    <3>2. ProofDue(v)'
      BY <1>1, <2>1 DEF Honest, ProofDue, Proved, Has, Proves
    <3> QED BY <2>1, <3>1, <3>2 DEF Honest, WriteDue, DeadIsFresh
  <2>3. CASE v # w
    <3>1. pid'[v] = pid[v]
      BY <1>6, <2>3 DEF Respawn, IInv, TypeOK
    <3> QED BY <1>1, <2>1, <3>1, HonestFrame
  <2> QED BY <2>2, <2>3
<1>7. CASE ContainerStart \/ ContainerStop
  BY <1>4, <1>7 DEF ContainerStart, ContainerStop
<1>8. CASE ChangeDisk \/ LauncherPublish \/ LauncherRemove \/ UNCHANGED vars
  <2>1. UNCHANGED <<statusEnv, generation, pid, tp, br, todo, file>>
    BY <1>8 DEF ChangeDisk, LauncherPublish, LauncherRemove, dataPlane, vars
  <2> QED BY <1>1, <2>1, HonestFrame
<1> QED BY <1>2, <1>3, <1>5, <1>6, <1>7, <1>8, StepKinds DEF Launcher

\* At rest a worker's claims are true: the delegate it reports as ready is proved
\* under its present registry epoch, and its status file is what it would write
\* now unless its last export failed (write_status, mark_bridge_status and
\* refresh_transport_status, in every interleaving of their file operations).
THEOREM StatusIsHonest == Spec => []StatusHonest
<1>1. Init => HonestInv
  <2> SUFFICES ASSUME Init, NEW v \in Workers PROVE Honest(v)
    BY DEF HonestInv
  <2>1. ~tp[v].delegate_ready /\ ~tp[v].worker_initialized
    BY DEF Init, FreshTransport
  <2> QED BY <2>1 DEF Honest, ProofDue, WriteDue, DeadIsFresh
<1>2. IInv /\ IInv' /\ HonestInv /\ [Next]_vars => HonestInv'
  BY HonestKept DEF Next, PlaneAction
<1>3. IInv /\ HonestInv => StatusHonest
  <2> SUFFICES ASSUME IInv, HonestInv, NEW w \in Workers, Idle(w)
               PROVE  /\ tp[w].delegate_ready => Proved(w)
                      /\ tp[w].worker_initialized /\ statusEnv
                           /\ ~tp[w].status_export_failed
                         => file[w] = status_snapshot(w, tp[w])
    BY DEF StatusHonest, DelegateProved, StatusFileCurrent, Proved
  <2>1. todo[w] = <<>> /\ Honest(w)
    BY DEF Idle, HonestInv
  <2>2. ~Has(<<>>, Proves) /\ ~Has(<<>>, Writes)
    BY HasOne DEF Ops
  <2> QED BY <2>1, <2>2 DEF Honest, ProofDue, WriteDue
<1> QED BY <1>1, <1>2, <1>3, Invariance, PTL DEF Spec
-----------------------------------------------------------------------------
(***************************************************************************)
(* The readiness script (module Supervisor) next to the Data Plane.        *)
(*                                                                         *)
(* SourcesOK is why the script is a launcher TransportRegistry may rely    *)
(* on: all that it reads and remembers comes from exported rows.           *)
(* ClosedOK, MarkerOK and ForwardOK are why an exited script leaves        *)
(* nothing open but what both commands of its close failed to stop,        *)
(* although the container may be restarted after the marker could no       *)
(* longer be removed.  CoverOK is why a restarted worker closes the gate:  *)
(* from the second capture on, a marker that is still there was published  *)
(* before every worker that has since been through init_worker.            *)
(***************************************************************************)
FilesOK == \A w \in Workers : file[w] # None /\ AllReady(file[w]) => file[w] \in exported

SourcesOK ==
    /\ FilesOK
    /\ cap # None => \A r \in cap.rows : AllReady(r) => r \in exported
    /\ current # None => Publishable(current)

GenerationsOK ==
    /\ \A r \in exported : r.generation <= generation
    /\ marker # None => marker.generation <= generation

CapturingOK == cap # None => pc \in ReadyPcs

\* No worker can be covered by the marker any more.
Outdated == marker = None \/ ~up \/ marker.generation < generation

EndPcs == ClosePcs \cup {"exited"}

ClosedOK == closed # {} => Outdated /\ pc \in EndPcs

\* There is no marker before the publication, and then only the accepted one.
EarlyPcs == {"start", "wait", "waitPause", "compose", "backendWait", "backendReady",
             "backendPause", "ready1", "publish"}
MarkerOK ==
    /\ pc \in EarlyPcs => marker = None
    /\ marker # None => marker = accepted
    /\ pc = "publish" => current = accepted

\* Where a forward runs whose pid the script has or is about to record.
OpenPcs == {"forwardPid", "forwardWait", "backend3", "ready3", "backend4", "ready4",
            "alive", "backendLoop", "readyLoop", "closeMarker", "closeForwarder"}
ForwardOK ==
    /\ forwarder = "running" => pc \in OpenPcs
    /\ forwarder = "orphan" => pc \in EndPcs

CoveredBy(P) ==
    \A w \in Workers :
       /\ Running(w) /\ tp[w].worker_initialized /\ ~Has(todo[w], Unmarks)
       /\ pid[w] \notin P
       => marker = None

AcceptedPids == {x.pid : x \in accepted.workers}

CoverOK ==
    /\ pc = "ready2" /\ cap # None => CoveredBy(cap.pids)
    /\ pc \in {"backend2", "forward"} \/ Forwarding => CoveredBy(AcceptedPids)

ScriptTypes ==
    /\ pc \in Pcs
    /\ cap \in [generation : Nat, pids : SUBSET Nat, rows : SUBSET Rows, next : Nat]
               \cup {None}
    /\ current \in Markers \cup {None} /\ accepted \in Markers \cup {None}
    /\ knownGen \in Nat \cup {None} /\ knownBackend \in Nat \cup {None}
    /\ forwarder \in {"none", "running", "dead", "orphan"}
    /\ closed \subseteq {"marker", "services"}
    /\ backend \in Nat /\ upsets \in Nat /\ interrupts \in Nat

ScriptInv == /\ statusEnv /\ ScriptTypes /\ SourcesOK /\ GenerationsOK
             /\ CapturingOK /\ ClosedOK /\ MarkerOK /\ ForwardOK /\ CoverOK

SupInv == IInv /\ HonestInv /\ ScriptInv

\* Every step of the script is a step of the launcher contract, or none of the
\* Data Plane's business.
LEMMA ScriptImplements ==
    ASSUME SupInv, [SupNext]_allVars
    PROVE  [Next]_vars
<1>1. ASSUME marker' \in {marker, None}, UNCHANGED <<dataPlane, exported, faults>>
      PROVE  [Next]_vars
  BY <1>1 DEF vars, Next, Launcher, LauncherRemove
<1>2. CASE UNCHANGED vars
  BY <1>2
<1>3. CASE Start \/ CloseMarker
  BY <1>1, <1>3 DEF Start, CloseMarker
<1>4. ASSUME marker' = current \/ marker' = marker, UNCHANGED <<dataPlane, exported, faults>>
      PROVE  [Next]_vars
  <2>1. CASE marker' = current /\ current # None
    <3>1. Publishable(marker') /\ UNCHANGED <<dataPlane, exported, faults>>
      BY <1>4, <2>1 DEF SupInv, ScriptInv, SourcesOK
    <3>2. LauncherPublish
      BY <3>1 DEF LauncherPublish, Publishable
    <3> QED BY <3>1, <3>2 DEF Next, Launcher
  <2>2. CASE ~(marker' = current /\ current # None)
    BY <1>1, <1>4, <2>2
  <2> QED BY <2>1, <2>2
<1>10. CASE publish_ready_marker
  BY <1>4, <1>10 DEF publish_ready_marker
<1>5. ASSUME ContainerStop, UNCHANGED faults
      PROVE  [Next]_vars
  BY <1>5 DEF Next, Launcher
<1>6. CASE CloseServices
  BY <1>5, <1>6 DEF CloseServices, vars
<1>7. CASE Upset
  <2>1. CASE CommandFails
    BY <1>4, <2>1 DEF CommandFails
  <2>2. CASE ~CommandFails
    BY <1>2, <1>5, <1>7, <2>2 DEF Upset
  <2> QED BY <2>1, <2>2
<1>8. CASE DataPlaneStep
  BY <1>8 DEF DataPlaneStep, Next
<1>9. CASE \/ CaptureBegin \/ CaptureRead \/ CheckPasses \/ CheckFails \/ Pause \/ ComposeUp
           \/ check_backend_once \/ start_forwarder \/ ForwarderAlive \/ CloseForwarder
           \/ Deadline \/ Interrupt \/ BackendReady \/ UNCHANGED allVars
  BY <1>2, <1>9 DEF CaptureBegin, CaptureRead, CheckPasses, CheckFails, Pause, ComposeUp,
     check_backend_once, start_forwarder, SpawnForwarder, RecordForwarder, AwaitForwarder,
     ForwarderAlive, CloseForwarder, Deadline, Interrupt, BackendReady, allVars
<1> QED BY <1>3, <1>10, <1>6, <1>7, <1>8, <1>9 DEF SupNext, ScriptStep

\* A worker step never publishes a marker and never takes an "unmark" off a queue
\* without removing it; an initialized worker that was not there before has one
\* queued.
LEMMA PlaneCovered ==
    ASSUME IInv, IInv', HonestInv, statusEnv, PlaneAction \/ ContainerStop,
           NEW P, CoveredBy(P)
    PROVE  CoveredBy(P)' /\ marker' \in {marker, None}
<1>1. ASSUME NEW v \in Workers, Running(v)', tp'[v].worker_initialized,
             ~Has(todo'[v], Unmarks), pid'[v] \notin P,
             Running(v), tp[v].worker_initialized, ~Has(todo[v], Unmarks), pid'[v] = pid[v],
             marker' \in {marker, None}
      PROVE  marker' = None
  BY <1>1 DEF CoveredBy
<1>2. ASSUME NEW w \in Workers, NEW c, HandlerOf(w, c)
      PROVE  CoveredBy(P)' /\ marker' \in {marker, None}
  <2>1. Idle(w) /\ OnlyWorker(w) /\ Queues(w) /\ UNCHANGED marker
    BY <1>2, HandlerQueues
  <2>2. ~Has(todo[w], Unmarks)
    BY <2>1, HasOne DEF Idle, Ops
  <2>3. ASSUME NEW v \in Workers, Running(v)', tp'[v].worker_initialized,
               ~Has(todo'[v], Unmarks), pid'[v] \notin P
        PROVE  marker' = None
    <3>1. Running(v) /\ pid'[v] = pid[v]
      BY <2>1, <2>3 DEF OnlyWorker, Running
    <3>2. tp[v].worker_initialized /\ ~Has(todo[v], Unmarks)
      BY <2>1, <2>2, <2>3 DEF OnlyWorker, Queues
    <3> QED BY <1>1, <2>1, <2>3, <3>1, <3>2
  <2> QED BY <2>1, <2>3 DEF CoveredBy
<1>3. ASSUME NEW w \in Workers, OperationOf(w)
      PROVE  CoveredBy(P)' /\ marker' \in {marker, None}
  <2>1. /\ OnlyWorker(w) /\ tp'[w].worker_initialized = tp[w].worker_initialized
        /\ \/ marker' = None
           \/ marker' = marker /\ (Has(todo[w], Unmarks) => Has(todo'[w], Unmarks))
    BY <1>3, OperationFrame
  <2>2. ASSUME NEW v \in Workers, Running(v)', tp'[v].worker_initialized,
               ~Has(todo'[v], Unmarks), pid'[v] \notin P, marker' # None
        PROVE  FALSE
    <3>1. Running(v) /\ pid'[v] = pid[v]
      BY <2>1, <2>2 DEF OnlyWorker, Running
    <3>2. tp[v].worker_initialized /\ ~Has(todo[v], Unmarks)
      BY <2>1, <2>2 DEF OnlyWorker
    <3> QED BY <1>1, <2>1, <2>2, <3>1, <3>2
  <2> QED BY <2>1, <2>2 DEF CoveredBy
<1>4. CASE \/ \E w \in Workers : Respawn(w) \/ Crash(w)
           \/ ContainerStart \/ ContainerStop \/ ChangeDisk
  <2>1. marker' = marker
    BY <1>4 DEF Respawn, Crash, ContainerStart, ContainerStop, ChangeDisk
  <2>2. ASSUME NEW v \in Workers, tp'[v] = FreshTransport
        PROVE  ~tp'[v].worker_initialized
    BY <2>2 DEF FreshTransport
  <2>3. CASE ContainerStart \/ ContainerStop
    BY <2>1, <2>2, <2>3 DEF ContainerStart, ContainerStop, CoveredBy
  <2>4. CASE ChangeDisk
    BY <2>4 DEF ChangeDisk, CoveredBy, Running, Has
  <2>5. ASSUME NEW w \in Workers, Crash(w)
        PROVE  CoveredBy(P)'
    <3>1. /\ tp'[w] = FreshTransport /\ up' = up
          /\ \A v \in Workers \ {w} :
               tp'[v] = tp[v] /\ todo'[v] = todo[v] /\ pid'[v] = pid[v]
      BY <2>5 DEF Crash, IInv, TypeOK
    <3> QED BY <2>1, <2>2, <3>1 DEF CoveredBy, Running, Has
  <2>6. ASSUME NEW w \in Workers, Respawn(w)
        PROVE  CoveredBy(P)'
    <3>1. /\ UNCHANGED <<tp, todo, up>> /\ pid[w] = 0
          /\ \A v \in Workers \ {w} : pid'[v] = pid[v]
      BY <2>6 DEF Respawn, IInv, TypeOK
    <3>2. ~tp'[w].worker_initialized
      BY <3>1 DEF HonestInv, Honest, DeadIsFresh
    <3> QED BY <2>1, <3>1, <3>2 DEF CoveredBy, Running, Has
  <2> QED BY <1>4, <2>1, <2>3, <2>4, <2>5, <2>6
<1> QED BY <1>2, <1>3, <1>4, StepKinds

\* Workers only export rows of the running generation; a marker that is out of date
\* stays so, also when the container comes up again.
LEMMA PlaneSources ==
    ASSUME IInv, IInv', PlaneAction \/ ContainerStop
    PROVE  /\ exported \subseteq exported' /\ generation <= generation'
           /\ statusEnv' = statusEnv
           /\ FilesOK => FilesOK'
           /\ GenerationsOK => GenerationsOK'
           /\ GenerationsOK /\ Outdated => Outdated'
<1>1. generation \in Nat /\ generation' \in Nat /\ marker \in Markers \cup {None}
        /\ exported \subseteq Rows /\ exported' \subseteq Rows
  BY DEF IInv, TypeOK
<1>2. \A r \in Rows : r.generation \in Nat
  BY DEF Rows
<1>3. \A m \in Markers : m.generation \in Nat
  BY DEF Markers
<1>4. ASSUME UNCHANGED <<statusEnv, generation, up>>, marker' \in {marker, None},
             NEW w \in Workers, file' = [file EXCEPT ![w] = file'[w]],
             \/ exported' = exported
                  /\ (file'[w] = file[w] \/ ~AllReady(file'[w]))
             \/ exported' = exported \cup {file'[w]} /\ file'[w].generation = generation
      PROVE  /\ exported \subseteq exported' /\ generation <= generation'
             /\ statusEnv' = statusEnv
             /\ FilesOK => FilesOK'
             /\ GenerationsOK => GenerationsOK'
             /\ GenerationsOK /\ Outdated => Outdated'
  <2>1. FilesOK => FilesOK'
    <3>1. \A v \in Workers : v # w => file'[v] = file[v]
      BY <1>4 DEF IInv, TypeOK
    <3> QED BY <1>4, <3>1 DEF FilesOK, AllReady
  <2>2. GenerationsOK => GenerationsOK'
    BY <1>1, <1>4 DEF GenerationsOK
  <2>3. Outdated => Outdated'
    BY <1>4 DEF Outdated
  <2> QED BY <1>1, <1>4, <2>1, <2>2, <2>3
<1>5. ASSUME NEW w \in Workers, NEW c, HandlerOf(w, c) \/ Respawn(w) \/ Crash(w)
      PROVE  /\ UNCHANGED <<statusEnv, generation, up, marker, file, exported>>
  <2>1. ASSUME HandlerOf(w, c)
        PROVE  /\ UNCHANGED <<statusEnv, generation, up, marker, exported, file>>
    <3>1. CASE \E t, ops : TransportStep(w, t, ops)
      BY <3>1 DEF TransportStep
    <3>2. CASE \E b, ops : BridgeStep(w, b, ops)
      BY <3>2 DEF BridgeStep
    <3>3. CASE ConfigureFailed(w, c) \/ ConfigureAbsent(w) \/ ConfigureRefused(w, c)
      BY <3>1, <3>3 DEF ConfigureFailed, ConfigureAbsent, ConfigureRefused
    <3>4. CASE ConfigureAccepted(w, c) \/ ConfigureWithoutEpoch(w, c)
      BY <3>1, <3>4 DEF ConfigureAccepted, ConfigureWithoutEpoch
    <3>5. ASSUME NEW x, NEW y, InitWorker(w, x, y)
          PROVE  UNCHANGED <<statusEnv, generation, up, marker, exported, file>>
      BY <3>1, <3>5 DEF InitWorker
    <3>6. CASE BridgeConfigureAbsent(w) \/ BridgeConfigureRefused(w, c)
      BY <3>2, <3>6 DEF BridgeConfigureAbsent, BridgeConfigureRefused
    <3>7. CASE BridgeConfigureAccepted(w, c) \/ BridgeAccess(w, c)
      BY <3>2, <3>7 DEF BridgeConfigureAccepted, BridgeAccess
    <3> QED BY <2>1, <3>3, <3>4, <3>5, <3>6, <3>7, Zenon DEF HandlerOf
  <2>2. CASE Respawn(w) \/ Crash(w)
    BY <2>2 DEF Respawn, Crash
  <2> QED BY <1>5, <2>1, <2>2, Zenon
<1>6. \A w \in Workers : file = [file EXCEPT ![w] = file[w]]
  BY DEF IInv, TypeOK
<1>7. 0 \in Workers
  BY NumWorkersAssumption DEF Workers
<1>8. ASSUME NEW w \in Workers, OperationOf(w)
      PROVE  /\ UNCHANGED <<statusEnv, generation, up>> /\ marker' \in {marker, None}
             /\ file' = [file EXCEPT ![w] = file'[w]]
             /\ \/ exported' = exported
                     /\ (file'[w] = file[w] \/ ~AllReady(file'[w]))
                \/ exported' = exported \cup {file'[w]} /\ file'[w].generation = generation
  <2>1. UNCHANGED <<statusEnv, generation, up>> /\ marker' \in {marker, None}
    BY <1>8, OperationFrame DEF OnlyWorker
  <2>2. ASSUME NEW t, Rename(w, t)
        PROVE  /\ file' = [file EXCEPT ![w] = file'[w]]
               /\ \/ exported' = exported /\ ~AllReady(file'[w])
                  \/ exported' = exported \cup {file'[w]} /\ file'[w].generation = generation
    <3>1. file'[w] = status_snapshot(w, t) /\ file' = [file EXCEPT ![w] = file'[w]]
      BY <2>2 DEF Rename, IInv, TypeOK
    <3>2. status_snapshot(w, t).generation = generation
      BY DEF status_snapshot
    <3> QED BY <2>2, <3>1, <3>2 DEF Rename
  <2>3. CASE ExportOk(w) \/ Fallback(w)
    BY <1>6, <2>1, <2>2, <2>3 DEF ExportOk, Fallback
  <2>4. CASE ~(ExportOk(w) \/ Fallback(w))
    BY <1>6, <1>8, <2>1, <2>4 DEF OperationOf, Operation, unmark, ExportFails, loaded, disown,
       refresh_transport_status, mark_bridge_status
  <2> QED BY <2>3, <2>4
<1>9. CASE \E w \in Workers : (\E c : HandlerOf(w, c)) \/ Respawn(w) \/ Crash(w)
  <2>1. PICK w \in Workers : (\E c : HandlerOf(w, c)) \/ Respawn(w) \/ Crash(w)
    BY <1>9
  <2>2. UNCHANGED <<statusEnv, generation, up, marker, file, exported>>
    BY <1>5, <2>1
  <2> QED BY <1>4, <1>6, <1>7, <2>2
<1>10. CASE \E w \in Workers : OperationOf(w)
  BY <1>4, <1>8, <1>10
<1>11. CASE ChangeDisk
  BY <1>4, <1>6, <1>7, <1>11 DEF ChangeDisk
<1>12. CASE ContainerStart \/ ContainerStop
  <2>1. /\ UNCHANGED <<statusEnv, file, marker, exported>>
        /\ \/ generation' = generation + 1
           \/ generation' = generation /\ ~up'
    BY <1>12 DEF ContainerStart, ContainerStop
  <2>2. FilesOK => FilesOK'
    BY <2>1 DEF FilesOK, AllReady
  <2>3. GenerationsOK => GenerationsOK'
    BY <1>1, <1>2, <1>3, <2>1 DEF GenerationsOK
  <2>4. GenerationsOK => Outdated'
    BY <1>1, <1>3, <2>1 DEF GenerationsOK, Outdated
  <2> QED BY <1>1, <2>1, <2>2, <2>3, <2>4
<1> QED BY <1>9, <1>10, <1>11, <1>12, StepKinds

\* A step of the Data Plane next to a script that stands still, or that stops the
\* container as its last act.
LEMMA PlaneKeepsScript ==
    ASSUME SupInv, IInv', PlaneAction \/ ContainerStop, ScriptTypes',
           UNCHANGED <<cap, current, accepted, forwarder>>,
           pc' = pc \/ (pc = "closeServices" /\ pc' = "exited"),
           closed' = closed \/ (ContainerStop /\ pc' = "exited")
    PROVE  ScriptInv'
<1>1. /\ exported \subseteq exported' /\ statusEnv' = statusEnv
      /\ FilesOK => FilesOK'
      /\ GenerationsOK => GenerationsOK'
      /\ GenerationsOK /\ Outdated => Outdated'
  BY PlaneSources DEF SupInv
<1>2. GenerationsOK' /\ statusEnv'
  BY <1>1 DEF SupInv, ScriptInv
<1>3. SourcesOK'
  <2>1. FilesOK'
    BY <1>1 DEF SupInv, ScriptInv, SourcesOK
  <2>2. cap' # None => \A r \in cap'.rows : AllReady(r) => r \in exported'
    BY <1>1 DEF SupInv, ScriptInv, SourcesOK
  <2>3. current' # None => Publishable(current)'
    <3>1. ASSUME current # None PROVE Publishable(current)'
      <4>1. Publishable(current)
        BY <3>1 DEF SupInv, ScriptInv, SourcesOK
      <4> QED BY <1>1, <4>1 DEF Publishable, MarkerOf
    <3> QED BY <3>1
  <2> QED BY <2>1, <2>2, <2>3 DEF SourcesOK, AllReady
<1>4. CapturingOK' /\ ForwardOK'
  BY DEF SupInv, ScriptInv, CapturingOK, ForwardOK, ReadyPcs, OpenPcs, EndPcs, ClosePcs
<1>5. ClosedOK' /\ MarkerOK'
  <2>1. marker' \in {marker, None}
    <3>1. CoveredBy({pid[w] : w \in Workers})
      BY DEF CoveredBy
    <3> QED BY <3>1, PlaneCovered DEF SupInv, ScriptInv
  <2>2. MarkerOK'
    BY <2>1 DEF SupInv, ScriptInv, MarkerOK, EarlyPcs
  <2>3. ContainerStop => Outdated'
    BY DEF ContainerStop, Outdated
  <2> QED BY <1>1, <2>2, <2>3 DEF SupInv, ScriptInv, ClosedOK, EndPcs, ClosePcs
<1>6. CoverOK'
  <2>1. ASSUME NEW P, CoveredBy(P) PROVE CoveredBy(P)'
    BY <2>1, PlaneCovered DEF SupInv, ScriptInv
  <2>2. pc' = "ready2" /\ cap' # None => CoveredBy(cap.pids)'
    <3>1. ASSUME pc' = "ready2", cap' # None PROVE CoveredBy(cap.pids)
      BY <3>1 DEF SupInv, ScriptInv, CoverOK
    <3> QED BY <2>1, <3>1 DEF CoveredBy
  <2>3. pc' \in {"backend2", "forward"} \/ Forwarding' => CoveredBy(AcceptedPids)'
    <3>1. ASSUME pc' \in {"backend2", "forward"} \/ Forwarding' PROVE CoveredBy(AcceptedPids)
      BY <3>1 DEF SupInv, ScriptInv, CoverOK, Forwarding
    <3>2. AcceptedPids' = AcceptedPids
      BY DEF AcceptedPids
    <3> HIDE DEF AcceptedPids
    <3> QED BY <2>1, <3>1, <3>2 DEF CoveredBy
  <2> QED BY <2>2, <2>3 DEF CoverOK
<1> QED BY <1>2, <1>3, <1>4, <1>5, <1>6 DEF ScriptInv

\* A step of the script that leaves the Data Plane and the marker alone.
QuietMove ==
    /\ cap' # None => /\ pc' \in ReadyPcs
                      /\ \A r \in cap'.rows : AllReady(r) => r \in exported
    /\ current' = current \/ Publishable(current')
    /\ closed' # {} => pc' \in EndPcs /\ (closed # {} \/ ~up)
    /\ pc' \in EarlyPcs => pc \in EarlyPcs
    /\ accepted' = accepted \/ marker = None
    /\ pc' = "publish" => current' = accepted'
    /\ ForwardOK'
    /\ pc' = "ready2" /\ cap' # None => CoveredBy(cap'.pids)
    /\ pc' \in {"backend2", "forward"} \/ Forwarding' =>
         CoveredBy({x.pid : x \in accepted'.workers})

LEMMA QuietKeepsScript ==
    ASSUME SupInv, UNCHANGED vars, ScriptTypes', QuietMove
    PROVE  ScriptInv'
<1> USE DEF vars, dataPlane
<1>1. statusEnv' /\ GenerationsOK'
  BY DEF SupInv, ScriptInv, GenerationsOK
<1>2. SourcesOK'
  <2>1. FilesOK'
    BY DEF SupInv, ScriptInv, SourcesOK, FilesOK, AllReady
  <2>2. current' # None => Publishable(current)'
    BY DEF SupInv, ScriptInv, SourcesOK, QuietMove, Publishable, MarkerOf
  <2> QED BY <2>1, <2>2 DEF SourcesOK, QuietMove, AllReady
<1>3. CapturingOK' /\ ForwardOK'
  BY DEF QuietMove, CapturingOK, ReadyPcs
<1>4. ClosedOK' /\ MarkerOK'
  BY DEF SupInv, ScriptInv, ClosedOK, MarkerOK, Outdated, QuietMove
<1>5. CoverOK'
  <2>1. \A P : CoveredBy(P) => \A w \in Workers :
           /\ Running(w)' /\ tp'[w].worker_initialized /\ ~Has(todo'[w], Unmarks)
           /\ pid'[w] \notin P
           => marker' = None
    BY DEF CoveredBy, Running
  <2> QED BY <2>1 DEF CoverOK, CoveredBy, QuietMove, AcceptedPids
<1> QED BY <1>1, <1>2, <1>3, <1>4, <1>5 DEF ScriptInv

\* The fingerprint check_ready_once accepts is one the launcher may publish, and it
\* names exactly the processes that were children when the capture began.
LEMMA GoodCapture ==
    ASSUME SupInv, cap # None, Valid(cap)
    PROVE  Publishable(MarkerFrom(cap)) /\ {x.pid : x \in MarkerFrom(cap).workers} = cap.pids
<1> DEFINE rows == CurrentRows(cap)
           r0   == CHOOSE r \in rows : TRUE
<1>1. /\ cap.pids # {} /\ {r.pid : r \in rows} = cap.pids
      /\ \A r \in rows : r.generation = cap.generation /\ AllReady(r)
      /\ \A q, r \in rows : q.config_hash = r.config_hash
  BY DEF Valid
<1>2. rows # {} /\ r0 \in rows
  BY <1>1
<1>3. rows \subseteq exported
  BY <1>1 DEF CurrentRows, SupInv, ScriptInv, SourcesOK
<1>4. MarkerFrom(cap) = MarkerOf(rows, cap.generation, r0.config_hash)
  BY DEF MarkerFrom
<1> HIDE DEF rows, r0
<1>5. MarkerFrom(cap) = MarkerOf(rows, r0.generation, r0.config_hash)
  BY <1>1, <1>2, <1>4
<1>6. Publishable(MarkerFrom(cap))
  BY <1>1, <1>2, <1>3, <1>5 DEF Publishable
<1>7. {x.pid : x \in MarkerFrom(cap).workers} = {r.pid : r \in rows}
  <2> DEFINE Entry(q) == [worker_id |-> q.worker_id, pid |-> q.pid,
                          registry_epoch |-> q.registry_epoch]
  <2>1. MarkerFrom(cap).workers = {Entry(q) : q \in rows}
    BY <1>5 DEF MarkerOf
  <2>2. \A q : Entry(q).pid = q.pid
    OBVIOUS
  <2> HIDE DEF Entry
  <2> QED BY <2>1, <2>2
<1> QED BY <1>1, <1>6, <1>7

Captures == [generation : Nat, pids : SUBSET Nat, rows : SUBSET Rows, next : Nat]

\* Reading and checking the workers' state.
LEMMA CaptureMoves ==
    ASSUME SupInv, CaptureBegin \/ CaptureRead \/ CheckPasses \/ CheckFails
    PROVE  ScriptTypes' /\ QuietMove /\ UNCHANGED vars
<1> USE DEF SupInv
<1>1. /\ ScriptTypes /\ SourcesOK /\ CapturingOK /\ ClosedOK /\ MarkerOK /\ ForwardOK
      /\ CoverOK /\ UNCHANGED vars
  BY DEF ScriptInv, CaptureBegin, CaptureRead, CheckPasses, CheckFails
<1>2. CASE CaptureBegin
  <2> DEFINE c == [generation |-> generation, pids |-> {pid[w] : w \in Workers} \ {0},
                   rows |-> {}, next |-> 0]
  <2>1. /\ cap' = c /\ pc \in ReadyPcs
        /\ UNCHANGED <<pc, current, knownGen, accepted, forwarder, backend,
                       knownBackend, closed, upsets, interrupts>>
    BY <1>2 DEF CaptureBegin
  <2>2. c \in Captures
    <3>1. {pid[w] : w \in Workers} \ {0} \in SUBSET Nat /\ generation \in Nat
      BY DEF IInv, TypeOK
    <3> QED BY <3>1 DEF Captures
  <2>3. CoveredBy(c.pids)
    BY DEF CoveredBy, Running
  <2>4. ScriptTypes'
    BY <1>1, <2>1, <2>2 DEF ScriptTypes, Captures
  <2>5. \A r \in c.rows : AllReady(r) => r \in exported
    OBVIOUS
  <2> HIDE DEF c
  <2> QED BY <1>1, <2>1, <2>3, <2>4, <2>5 DEF QuietMove, ForwardOK, CoverOK, Forwarding,
         AcceptedPids, ClosedOK, MarkerOK
<1>3. CASE CaptureRead
  <2>1. /\ cap # None /\ cap.next < NumWorkers
        /\ cap' = [cap EXCEPT !.next = @ + 1, !.rows = @ \cup ({file[cap.next]} \ {None})]
        /\ UNCHANGED <<pc, current, knownGen, accepted, forwarder, backend,
                       knownBackend, closed, upsets, interrupts>>
    BY <1>3 DEF CaptureRead
  <2>2. cap \in Captures
    BY <1>1, <2>1 DEF ScriptTypes, Captures
  <2>3. cap.next \in Nat /\ cap.rows \in SUBSET Rows
    BY <2>2 DEF Captures
  <2>4. cap.next \in Workers
    BY <2>1, <2>3, NumWorkersAssumption DEF Workers
  <2>5. file[cap.next] \in Rows \cup {None}
    BY <2>4 DEF IInv, TypeOK
  <2>6. /\ cap' \in Captures /\ cap'.pids = cap.pids
        /\ cap'.rows = cap.rows \cup ({file[cap.next]} \ {None})
    <3> DEFINE R == cap.rows \cup ({file[cap.next]} \ {None})
               n == cap.next + 1
    <3>1. R \in SUBSET Rows /\ n \in Nat
      BY <2>3, <2>5
    <3>2. cap' = [cap EXCEPT !.next = n, !.rows = R]
      BY <2>1
    <3> HIDE DEF R, n
    <3>3. cap' \in Captures /\ cap'.pids = cap.pids /\ cap'.rows = R
      BY <2>2, <3>1, <3>2 DEF Captures
    <3> QED BY <3>3 DEF R
  <2>7. ScriptTypes'
    BY <1>1, <2>1, <2>6 DEF ScriptTypes, Captures
  <2>8. \A r \in cap'.rows : AllReady(r) => r \in exported
    BY <1>1, <2>1, <2>4, <2>6 DEF SourcesOK, FilesOK
  <2> QED BY <1>1, <2>1, <2>6, <2>7, <2>8 DEF QuietMove, ForwardOK, CoverOK, Forwarding,
         AcceptedPids, CapturingOK, ClosedOK, MarkerOK
<1>4. CASE CheckPasses
  <2>1. /\ cap # None /\ Valid(cap) /\ SameFingerprint(MarkerFrom(cap))
        /\ current' = MarkerFrom(cap) /\ knownGen' = cap.generation
        /\ accepted' = IF pc = "ready1" THEN MarkerFrom(cap) ELSE accepted
        /\ pc' = Then(pc) /\ cap' = None
        /\ UNCHANGED <<forwarder, backend, knownBackend, closed, upsets, interrupts>>
    BY <1>4 DEF CheckPasses, CaptureComplete, CaptureGood
  <2>2. /\ Publishable(MarkerFrom(cap)) /\ MarkerFrom(cap) \in Markers
        /\ {x.pid : x \in MarkerFrom(cap).workers} = cap.pids
    BY <2>1, GoodCapture, PublishableIsBacked
  <2>3. pc \in ReadyPcs /\ cap.generation \in Nat
    BY <1>1, <2>1 DEF CapturingOK, ScriptTypes
  <2>4. \/ pc = "wait" /\ pc' = "compose"
        \/ pc = "backendReady" /\ pc' = "backendPause"
        \/ pc = "ready1" /\ pc' = "publish"
        \/ pc = "ready2" /\ pc' = "backend2"
        \/ pc = "ready3" /\ pc' = "backend4"
        \/ pc = "ready4" /\ pc' = "alive"
        \/ pc = "readyLoop" /\ pc' = "alive"
    BY <2>1, <2>3 DEF Then, ReadyPcs
  <2>5. pc' \in Pcs
    BY <2>4 DEF Pcs, ReadyPcs, BackendPcs, ForwardPcs, ClosePcs
  <2>6. ScriptTypes'
    BY <1>1, <2>1, <2>2, <2>3, <2>5 DEF ScriptTypes
  <2>7. pc' \in {"backend2", "forward"} \/ Forwarding' =>
          CoveredBy({x.pid : x \in accepted'.workers})
    <3>1. CASE pc = "ready2"
      <4>1. accepted' = MarkerFrom(cap) /\ CoveredBy(cap.pids)
        BY <1>1, <2>1, <3>1 DEF SameFingerprint, CoverOK
      <4> QED BY <2>2, <4>1
    <3>2. CASE pc # "ready2"
      <4>1. ASSUME Forwarding'
            PROVE  CoveredBy({x.pid : x \in accepted'.workers})
        <5>1. Forwarding /\ pc \in OpenPcs \cup EndPcs
          BY <1>1, <2>1, <4>1 DEF Forwarding, ForwardOK
        <5>2. accepted' = accepted
          BY <2>1, <5>1 DEF OpenPcs, EndPcs, ClosePcs
        <5> QED BY <1>1, <5>1, <5>2 DEF CoverOK, AcceptedPids
      <4> QED BY <2>4, <3>2, <4>1
    <3> QED BY <3>1, <3>2
  <2>8. ForwardOK'
    BY <1>1, <2>1, <2>4 DEF ForwardOK, OpenPcs, EndPcs, ClosePcs
  <2>9. closed' = {}
    BY <1>1, <2>1, <2>3 DEF ClosedOK, EndPcs, ClosePcs, ReadyPcs
  <2>10. /\ pc' \in EarlyPcs => pc \in EarlyPcs
         /\ accepted' = accepted \/ marker = None
         /\ pc' = "publish" => current' = accepted'
    BY <1>1, <2>1, <2>4 DEF MarkerOK, EarlyPcs
  <2> QED BY <1>1, <2>1, <2>2, <2>4, <2>6, <2>7, <2>8, <2>9, <2>10 DEF QuietMove
<1>5. CASE CheckFails
  <2>1. /\ pc' \in {"waitPause", "closeMarker"} /\ cap' = None
        /\ pc' = "waitPause" => pc = "wait"
        /\ knownGen' = knownGen \/ (cap # None /\ knownGen' = cap.generation)
        /\ UNCHANGED <<current, accepted, forwarder, backend, knownBackend, closed, upsets,
                       interrupts>>
        /\ pc \in ReadyPcs
    BY <1>1, <1>5 DEF CheckFails, CapturingOK, CaptureComplete
  <2>2. ScriptTypes'
    BY <1>1, <2>1 DEF ScriptTypes, Pcs, ClosePcs
  <2>3. ForwardOK'
    BY <1>1, <2>1 DEF ForwardOK, OpenPcs, EndPcs, ClosePcs, ReadyPcs
  <2>4. closed' = {}
    BY <1>1, <2>1 DEF ClosedOK, EndPcs, ClosePcs, ReadyPcs
  <2>5. pc' \in EarlyPcs => pc \in EarlyPcs
    BY <2>1 DEF EarlyPcs
  <2> QED BY <1>1, <2>1, <2>2, <2>3, <2>4, <2>5 DEF QuietMove, CoverOK, Forwarding, AcceptedPids
<1> QED BY <1>2, <1>3, <1>4, <1>5

\* The other steps of the script and of what runs next to it.
LEMMA OtherMoves ==
    ASSUME SupInv,
           \/ Pause \/ ComposeUp \/ check_backend_once \/ start_forwarder \/ ForwarderAlive
           \/ CloseForwarder \/ Deadline \/ Interrupt \/ BackendReady \/ Upset
           \/ (CloseServices /\ ~(up /\ ContainerStop)) \/ UNCHANGED script
    PROVE  ScriptTypes' /\ QuietMove
<1> USE DEF SupInv
<1>1. /\ ScriptTypes /\ SourcesOK /\ CapturingOK /\ ClosedOK /\ MarkerOK /\ ForwardOK
      /\ CoverOK
  BY DEF ScriptInv
<1>2. ASSUME cap' \in {cap, None}, cap' # None => pc' \in ReadyPcs /\ pc' = pc,
             UNCHANGED <<current, accepted>>,
             closed' # {} => pc' \in EndPcs /\ (closed # {} \/ ~up),
             pc' \in EarlyPcs => pc \in EarlyPcs, pc' = "publish" => pc = "publish",
             ForwardOK',
             pc' \in {"backend2", "forward"} \/ Forwarding' =>
               pc \in {"backend2", "forward"} \/ Forwarding
      PROVE  QuietMove
  BY <1>1, <1>2 DEF QuietMove, SourcesOK, CoverOK, AcceptedPids, MarkerOK
<1>12. closed # {} => pc \in EndPcs
  BY <1>1 DEF ClosedOK
<1>13. ASSUME closed' = closed, pc' \in EndPcs \/ pc' = pc \/ pc \notin EndPcs
       PROVE  closed' # {} => pc' \in EndPcs /\ (closed # {} \/ ~up)
  BY <1>12, <1>13
<1>3. cap # None => pc \in ReadyPcs
  BY <1>1 DEF CapturingOK
<1> DEFINE Idles == UNCHANGED <<cap, current, accepted>>
<1>4. CASE Pause \/ ComposeUp \/ ForwarderAlive \/ Deadline
  <2>1. /\ Idles
        /\ UNCHANGED <<knownGen, forwarder, backend, knownBackend, closed, upsets, interrupts>>
        /\ \/ pc = "waitPause" /\ pc' = "wait"
           \/ pc = "backendPause" /\ pc' = "backendWait"
           \/ pc \in {"waitPause", "backendPause", "alive"} /\ pc' = "closeMarker"
           \/ pc = "compose" /\ pc' = "backendWait"
           \/ pc = "alive" /\ pc' = "backendLoop"
    BY <1>4 DEF Pause, ComposeUp, ForwarderAlive, Deadline, Goto, Move, Then
  <2>2. pc \notin ReadyPcs /\ cap = None
    BY <1>3, <2>1 DEF ReadyPcs
  <2>3. pc' \in Pcs
    BY <2>1 DEF Pcs, ReadyPcs, BackendPcs, ForwardPcs, ClosePcs
  <2>4. ScriptTypes'
    BY <1>1, <2>1, <2>3 DEF ScriptTypes
  <2>5. ForwardOK' /\ (Forwarding' => Forwarding)
    BY <1>1, <2>1 DEF Forwarding, ForwardOK, OpenPcs, EndPcs, ClosePcs
  <2>6. /\ closed' # {} => pc' \in EndPcs /\ (closed # {} \/ ~up)
        /\ pc' \in EarlyPcs => pc \in EarlyPcs
    BY <1>13, <2>1 DEF EndPcs, ClosePcs, EarlyPcs
  <2> QED BY <1>2, <2>1, <2>2, <2>4, <2>5, <2>6
<1>5. CASE check_backend_once
  <2>1. /\ Idles /\ UNCHANGED <<knownGen, forwarder, backend, closed, upsets, interrupts>>
        /\ knownBackend' \in {backend, knownBackend}
        /\ pc \in BackendPcs /\ pc' \in {Then(pc), "backendReady", "closeMarker"}
        /\ pc' = "backendReady" => pc = "backendWait"
    BY <1>5 DEF check_backend_once, Then, BackendPcs
  <2>2. pc \notin ReadyPcs /\ cap = None
    BY <1>3, <2>1 DEF ReadyPcs, BackendPcs
  <2>3. \/ pc = "backendWait" /\ pc' \in {"ready1", "backendReady"}
        \/ pc = "backend2" /\ pc' = "forward"
        \/ pc = "backend3" /\ pc' = "ready3"
        \/ pc = "backend4" /\ pc' = "ready4"
        \/ pc = "backendLoop" /\ pc' = "readyLoop"
        \/ pc' = "closeMarker"
    BY <2>1 DEF BackendPcs, Then
  <2>4. pc' \in Pcs
    BY <2>3 DEF Pcs, ReadyPcs, BackendPcs, ForwardPcs, ClosePcs
  <2>5. ScriptTypes'
    BY <1>1, <2>1, <2>4 DEF ScriptTypes
  <2>6. ForwardOK' /\ (Forwarding' => Forwarding)
    BY <1>1, <2>1, <2>3 DEF Forwarding, ForwardOK, OpenPcs, EndPcs, ClosePcs, BackendPcs
  <2>7. /\ closed' # {} => pc' \in EndPcs /\ (closed # {} \/ ~up)
        /\ pc' \in EarlyPcs => pc \in EarlyPcs
    BY <1>13, <2>1, <2>3 DEF EndPcs, ClosePcs, EarlyPcs, BackendPcs
  <2> QED BY <1>2, <2>1, <2>2, <2>3, <2>5, <2>6, <2>7
<1>6. CASE start_forwarder \/ CloseForwarder
  <2>1. /\ Idles /\ UNCHANGED <<knownGen, backend, knownBackend, closed, upsets, interrupts>>
        /\ \/ pc = "forward" /\ pc' = "forwardPid" /\ forwarder' = "running"
           \/ pc = "forwardPid" /\ pc' = "forwardWait" /\ forwarder' = forwarder
           \/ pc = "forwardWait" /\ pc' = "backend3" /\ forwarder' = forwarder
           \/ pc = "forwardWait" /\ pc' = "closeMarker" /\ forwarder' = "none"
           \/ /\ pc = "closeForwarder" /\ pc' = "closeServices"
              /\ forwarder' = IF forwarder = "orphan" THEN forwarder ELSE "none"
    BY <1>6 DEF start_forwarder, SpawnForwarder, RecordForwarder, AwaitForwarder,
       CloseForwarder, Goto, Move, Then
  <2>2. cap = None
    BY <1>3, <2>1 DEF ReadyPcs
  <2>3. ScriptTypes'
    <3>1. pc' \in Pcs
      BY <2>1 DEF Pcs, ReadyPcs, BackendPcs, ForwardPcs, ClosePcs
    <3> QED BY <1>1, <2>1, <3>1 DEF ScriptTypes
  <2>4. ForwardOK' /\ (Forwarding' => Forwarding \/ pc = "forward")
    BY <1>1, <2>1 DEF Forwarding, ForwardOK, OpenPcs, EndPcs, ClosePcs
  <2>5. /\ closed' # {} => pc' \in EndPcs /\ (closed # {} \/ ~up)
        /\ pc' \in EarlyPcs => pc \in EarlyPcs
    BY <1>13, <2>1 DEF EndPcs, ClosePcs, EarlyPcs
  <2> QED BY <1>2, <2>1, <2>2, <2>3, <2>4, <2>5
<1>7. CASE Interrupt
  <2>1. /\ cap' = None /\ pc' = "closeMarker" /\ interrupts' = interrupts + 1
        /\ UNCHANGED <<current, accepted, knownGen, backend, knownBackend, closed, upsets>>
        /\ forwarder' = forwarder \/ (forwarder = "running" /\ forwarder' = "orphan")
    BY <1>7 DEF Interrupt
  <2>2. ScriptTypes'
    BY <1>1, <2>1 DEF ScriptTypes, Pcs, ClosePcs
  <2>3. ForwardOK' /\ (Forwarding' => Forwarding)
    BY <2>1 DEF Forwarding, ForwardOK, OpenPcs, EndPcs, ClosePcs
  <2>4. /\ closed' # {} => pc' \in EndPcs /\ (closed # {} \/ ~up)
        /\ pc' \notin EarlyPcs
    BY <2>1 DEF EndPcs, ClosePcs, EarlyPcs
  <2> QED BY <1>2, <2>1, <2>2, <2>3, <2>4
<1>8. CASE BackendReady
  <2>1. /\ UNCHANGED <<pc, cap, current, accepted, knownGen, forwarder, knownBackend, closed,
                       upsets, interrupts>>
        /\ backend' = upsets + 1
    BY <1>8 DEF BackendReady
  <2>2. ScriptTypes'
    BY <1>1, <2>1 DEF ScriptTypes
  <2>3. ForwardOK' /\ (Forwarding' => Forwarding)
    BY <1>1, <2>1 DEF Forwarding, ForwardOK
  <2> QED BY <1>2, <1>3, <1>13, <2>1, <2>2, <2>3
<1>9. CASE Upset
  <2>1. /\ UNCHANGED <<cap, current, accepted, knownGen, knownBackend, closed, interrupts>>
        /\ upsets' = upsets + 1
        /\ backend' \in {backend, 0, upsets + 2}
        /\ \/ pc' = pc /\ forwarder' \in {forwarder, "dead"}
           \/ /\ pc \in {"compose", "publish", "forward", "forwardWait"} /\ pc' = "closeMarker"
              /\ forwarder' = IF pc = "forwardWait" THEN "none" ELSE forwarder
    BY <1>9 DEF Upset, CommandFails
  <2>2. ScriptTypes'
    <3>1. pc' \in Pcs
      BY <1>1, <2>1 DEF ScriptTypes, Pcs, ClosePcs
    <3>2. upsets' \in Nat /\ backend' \in Nat
      BY <1>1, <2>1 DEF ScriptTypes
    <3>3. forwarder' \in {"none", "running", "dead", "orphan"}
      BY <1>1, <2>1 DEF ScriptTypes
    <3> QED BY <1>1, <2>1, <3>1, <3>2, <3>3 DEF ScriptTypes
  <2>3. ForwardOK' /\ (Forwarding' => Forwarding)
    BY <1>1, <2>1 DEF Forwarding, ForwardOK, OpenPcs, EndPcs, ClosePcs
  <2>4. cap # None => pc' = pc
    BY <1>3, <2>1 DEF ReadyPcs
  <2>5. /\ closed' # {} => pc' \in EndPcs /\ (closed # {} \/ ~up)
        /\ pc' \in EarlyPcs => pc \in EarlyPcs
        /\ pc' = "publish" => pc = "publish"
        /\ pc' \in {"backend2", "forward"} => pc' = pc
    BY <1>13, <2>1 DEF EndPcs, ClosePcs, EarlyPcs
  <2> QED BY <1>2, <1>3, <2>1, <2>2, <2>3, <2>4, <2>5
<1>10. CASE CloseServices /\ ~(up /\ ContainerStop)
  <2>1. /\ UNCHANGED <<cap, current, accepted, knownGen, forwarder, knownBackend, upsets,
                       interrupts>>
        /\ backend' \in {0, backend} /\ pc = "closeServices" /\ pc' = "exited"
        /\ closed' = closed \/ (~up /\ closed' = closed \cup {"services"})
    BY <1>10 DEF CloseServices, Then
  <2>2. ScriptTypes'
    <3>1. closed \subseteq {"marker", "services"} /\ backend \in Nat
      BY <1>1 DEF ScriptTypes
    <3>2. closed' \subseteq closed \cup {"services"}
      BY <2>1
    <3>3. closed' \subseteq {"marker", "services"}
      BY <3>1, <3>2
    <3>4. backend' \in Nat /\ pc' \in Pcs
      BY <2>1, <3>1 DEF Pcs
    <3> QED BY <1>1, <2>1, <3>3, <3>4 DEF ScriptTypes
  <2>3. cap = None /\ ForwardOK' /\ (Forwarding' => Forwarding)
    BY <1>1, <1>3, <2>1 DEF ReadyPcs, Forwarding, ForwardOK, OpenPcs, EndPcs, ClosePcs
  <2>4. /\ closed' # {} => pc' \in EndPcs /\ (closed # {} \/ ~up)
        /\ pc' \notin EarlyPcs
    BY <2>1 DEF EndPcs, ClosePcs, EarlyPcs
  <2> QED BY <1>2, <2>1, <2>2, <2>3, <2>4
<1>11. CASE UNCHANGED script
  <2>1. UNCHANGED <<pc, cap, current, accepted, knownGen, forwarder, backend, knownBackend,
                    closed, upsets, interrupts>>
    BY <1>11 DEF script
  <2>2. ScriptTypes'
    BY <1>1, <2>1 DEF ScriptTypes
  <2>3. ForwardOK' /\ (Forwarding' => Forwarding)
    BY <1>1, <2>1 DEF Forwarding, ForwardOK
  <2> QED BY <1>2, <1>3, <1>13, <2>1, <2>2, <2>3
<1> QED BY <1>4, <1>5, <1>6, <1>7, <1>8, <1>9, <1>10, <1>11

\* The steps of the script that touch the marker.  Publishing happens at one place,
\* before the second capture, so no coverage has to be shown there.
LEMMA MarkerMoves ==
    ASSUME SupInv, IInv',
           Start \/ publish_ready_marker \/ CloseMarker \/ (Upset /\ CommandFails)
    PROVE  ScriptInv'
<1> USE DEF SupInv
<1>1. /\ statusEnv /\ ScriptTypes /\ SourcesOK /\ GenerationsOK /\ CapturingOK /\ ClosedOK
      /\ MarkerOK /\ ForwardOK /\ CoverOK
  BY DEF ScriptInv
<1>2. /\ UNCHANGED <<dataPlane, exported, faults, cap, current, knownGen, accepted,
                     backend, knownBackend, interrupts>>
      /\ upsets' \in {upsets, upsets + 1}
      /\ forwarder' = forwarder \/ (pc = "forwardWait" /\ forwarder' = "none")
      /\ \/ pc = "start" /\ up /\ marker' \in {None, marker} /\ pc' = "wait" /\ closed' = closed
         \/ pc = "start" /\ ~up /\ marker' = marker /\ pc' = "exited" /\ closed' = closed
         \/ pc = "publish" /\ up /\ marker' = current /\ pc' = "ready2" /\ closed' = closed
         \/ pc = "publish" /\ ~up /\ marker' = marker /\ pc' = "closeMarker" /\ closed' = closed
         \/ pc = "closeMarker" /\ pc' = "closeForwarder" /\ marker' = None
              /\ closed' = closed \cup {"marker"}
         \/ pc = "closeMarker" /\ pc' = "closeForwarder" /\ marker' = marker /\ closed' = closed
         \/ pc \in {"compose", "publish", "forward", "forwardWait"} /\ pc' = "closeMarker"
              /\ (marker' = marker \/ (pc = "publish" /\ marker' = current)) /\ closed' = closed
  <2>1. CASE Start \/ publish_ready_marker \/ CloseMarker
    BY <2>1 DEF Start, publish_ready_marker, CloseMarker, Goto, Move, Then
  <2>2. CASE Upset /\ CommandFails
    BY <2>2 DEF Upset, CommandFails
  <2> QED BY <2>1, <2>2
<1>3. cap = None
  BY <1>1, <1>2 DEF CapturingOK, ReadyPcs
<1>4. ScriptTypes' /\ statusEnv'
  <2>1. pc' \in Pcs
    BY <1>2 DEF Pcs, ReadyPcs, BackendPcs, ForwardPcs, ClosePcs
  <2>2. /\ forwarder' \in {"none", "running", "dead", "orphan"}
        /\ closed' \subseteq {"marker", "services"} /\ upsets' \in Nat
    <3>1. /\ forwarder \in {"none", "running", "dead", "orphan"}
          /\ closed \subseteq {"marker", "services"} /\ upsets \in Nat
      BY <1>1 DEF ScriptTypes
    <3>2. closed' \subseteq closed \cup {"marker"}
      BY <1>2
    <3> QED BY <1>2, <3>1, <3>2
  <2> QED BY <1>1, <1>2, <2>1, <2>2 DEF ScriptTypes, dataPlane
<1>5. SourcesOK'
  BY <1>1, <1>2, <1>3 DEF SourcesOK, FilesOK, AllReady, dataPlane, Publishable, MarkerOf
<1>6. GenerationsOK'
  <2>1. current # None => current.generation <= generation
    BY <1>1, PublishableIsBacked DEF SourcesOK, GenerationsOK
  <2> QED BY <1>1, <1>2, <2>1 DEF GenerationsOK, dataPlane
<1>7. CapturingOK' /\ ForwardOK'
  BY <1>1, <1>2, <1>3 DEF CapturingOK, ForwardOK, OpenPcs, EndPcs, ClosePcs
<1>8. ClosedOK' /\ MarkerOK'
  <2>1. ClosedOK'
    BY <1>1, <1>2 DEF ClosedOK, EndPcs, ClosePcs, Outdated, dataPlane
  <2>2. MarkerOK'
    BY <1>1, <1>2 DEF MarkerOK, EarlyPcs
  <2> QED BY <2>1, <2>2
<1>9. CoverOK'
  <2>1. ASSUME Forwarding'
        PROVE  CoveredBy(AcceptedPids) /\ marker' \in {marker, None}
    BY <1>1, <1>2, <2>1 DEF Forwarding, ForwardOK, OpenPcs, EndPcs, ClosePcs, CoverOK
  <2>2. Forwarding' => CoveredBy(AcceptedPids)'
    BY <1>2, <2>1 DEF CoveredBy, AcceptedPids, Running, dataPlane
  <2> QED BY <1>2, <1>3, <2>2 DEF CoverOK
<1> QED BY <1>4, <1>5, <1>6, <1>7, <1>8, <1>9 DEF ScriptInv

\* Every step of the script, of its surroundings and of the Data Plane keeps the
\* invariant.
LEMMA SupNextInv == SupInv /\ [SupNext]_allVars => SupInv'
<1> SUFFICES ASSUME SupInv, [SupNext]_allVars PROVE SupInv'
  OBVIOUS
<1>1. [Next]_vars
  BY ScriptImplements
<1>2. IInv'
  BY <1>1, NextIInv DEF SupInv
<1>3. HonestInv'
  BY <1>1, <1>2, HonestKept DEF SupInv, Next, PlaneAction
<1>4. ScriptInv'
  <2>1. CASE CaptureBegin \/ CaptureRead \/ CheckPasses \/ CheckFails
    BY <2>1, CaptureMoves, QuietKeepsScript
  <2>2. CASE \/ Pause \/ ComposeUp \/ check_backend_once \/ start_forwarder
             \/ ForwarderAlive \/ CloseForwarder \/ Deadline \/ Interrupt \/ BackendReady
             \/ UNCHANGED allVars
    <3>1. UNCHANGED vars
      BY <2>2 DEF Pause, ComposeUp, check_backend_once, start_forwarder, SpawnForwarder,
         RecordForwarder, AwaitForwarder, ForwarderAlive, CloseForwarder, Deadline, Interrupt, BackendReady, allVars
    <3>2. ScriptTypes' /\ QuietMove
      BY <2>2, OtherMoves DEF allVars
    <3> QED BY <3>1, <3>2, QuietKeepsScript
  <2>3. CASE Start \/ publish_ready_marker \/ CloseMarker
    BY <1>2, <2>3, MarkerMoves
  <2>4. CASE CloseServices
    <3>1. CASE up /\ ContainerStop
      <4>1. /\ UNCHANGED <<cap, current, accepted, forwarder, knownGen, knownBackend, upsets,
                           interrupts>>
            /\ pc = "closeServices" /\ pc' = "exited" /\ backend' \in {0, backend}
            /\ closed' \in {closed, closed \cup {"services"}}
        BY <2>4 DEF CloseServices, Then
      <4>2. ScriptTypes'
        <5>1. ScriptTypes
          BY DEF SupInv, ScriptInv
        <5>2. pc' \in Pcs /\ closed' \subseteq {"marker", "services"} /\ backend' \in Nat
          BY <4>1, <5>1 DEF Pcs, ScriptTypes
        <5> QED BY <4>1, <5>1, <5>2 DEF ScriptTypes
      <4> QED BY <1>2, <3>1, <4>1, <4>2, PlaneKeepsScript
    <3>2. CASE ~(up /\ ContainerStop)
      <4>1. ScriptTypes' /\ QuietMove
        BY <2>4, <3>2, OtherMoves
      <4>2. UNCHANGED vars
        BY <2>4, <3>2 DEF CloseServices, vars
      <4> QED BY <4>1, <4>2, QuietKeepsScript
    <3> QED BY <3>1, <3>2
  <2>5. CASE Upset
    <3>1. CASE CommandFails
      BY <1>2, <2>5, <3>1, MarkerMoves
    <3>2. CASE ~CommandFails
      <4>1. ScriptTypes' /\ QuietMove
        BY <2>5, OtherMoves
      <4>2. UNCHANGED vars
              \/ (ContainerStop /\ UNCHANGED <<cap, current, accepted, forwarder, pc, closed>>)
        BY <2>5, <3>2 DEF Upset
      <4> QED BY <1>2, <4>1, <4>2, QuietKeepsScript, PlaneKeepsScript
    <3> QED BY <3>1, <3>2
  <2>6. CASE DataPlaneStep
    <3>1. ScriptTypes'
      BY <2>6, OtherMoves DEF DataPlaneStep
    <3>2. PlaneAction /\ UNCHANGED <<cap, current, accepted, forwarder, pc, closed>>
      BY <2>6 DEF DataPlaneStep, PlaneAction, script
    <3> QED BY <1>2, <3>1, <3>2, PlaneKeepsScript
  <2> QED BY <2>1, <2>2, <2>3, <2>4, <2>5, <2>6 DEF SupNext, ScriptStep
<1> QED BY <1>2, <1>3, <1>4 DEF SupInv

\* The start with a fresh Data Plane.
LEMMA SupInitInv == SupInit => SupInv
<1> SUFFICES ASSUME SupInit PROVE SupInv
  OBVIOUS
<1>1. IInv
  BY InitIInv DEF SupInit
<1>2. HonestInv
  <2> SUFFICES ASSUME NEW v \in Workers PROVE Honest(v)
    BY DEF HonestInv
  <2>1. ~tp[v].delegate_ready /\ ~tp[v].worker_initialized
    BY DEF SupInit, Init, FreshTransport
  <2> QED BY <2>1 DEF Honest, ProofDue, WriteDue, DeadIsFresh
<1>3. /\ statusEnv /\ file = [w \in Workers |-> None] /\ marker = None /\ exported = {}
      /\ generation = 1 /\ ScriptInit
  BY DEF SupInit, Init
<1>4. ScriptTypes
  BY <1>3 DEF ScriptInit, ScriptTypes, Pcs
<1>5. SourcesOK /\ GenerationsOK
  BY <1>3 DEF ScriptInit, SourcesOK, FilesOK, GenerationsOK
<1>6. CapturingOK /\ ClosedOK /\ MarkerOK /\ ForwardOK /\ CoverOK
  BY <1>3 DEF ScriptInit, CapturingOK, ClosedOK, MarkerOK, ForwardOK, Forwarding, CoverOK
<1> QED BY <1>1, <1>2, <1>3, <1>4, <1>5, <1>6 DEF SupInv, ScriptInv

\* The start with workers that are ready already.
LEMMA ReadyInitInv == ReadyInit => SupInv
<1> SUFFICES ASSUME ReadyInit PROVE SupInv
  OBVIOUS
<1> DEFINE F       == DiskFingerprints
           h       == canonical_config_hash("plain", F)
           E(w)    == ReadyEpoch(w, "plain")
           own(w)  == [worker |-> w, pid |-> pid[w]]
<1>1. /\ statusEnv = TRUE /\ up = TRUE /\ generation = 1 /\ nextPid = FirstPid(NumWorkers)
      /\ pid = [w \in Workers |-> FirstPid(w)]
      /\ disk \in DiskStates /\ IdentitiesUsable
      /\ tp = [w \in Workers |-> ReadyTransport(w, "plain")]
      /\ todo = [w \in Workers |-> <<>>]
      /\ file = [w \in Workers |-> status_snapshot(w, tp[w])]
      /\ marker = None /\ exported = {file[w] : w \in Workers} /\ faults = 0 /\ ScriptInit
  BY DEF ReadyInit
<1>2. PICK k \in KeyIds : br = [w \in Workers |-> ReadyBridge(w, "plain", k)]
  BY DEF ReadyInit
<1>3. F \in [Identities -> Fingerprints] /\ F # None
  BY <1>1, DiskAssumption, NoneAssumption DEF IdentitiesUsable, DiskFingerprints
<1>4. h \in Hashes /\ h # None /\ h.fingerprints = F
  BY <1>3, NoneAssumption DEF Hashes, canonical_config_hash, ValidConfigs
<1>5. ASSUME NEW w \in Workers
      PROVE  /\ pid[w] \in Nat \ {0} /\ own(w) \in WorkerIds
             /\ E(w) \in Epochs /\ E(w) # None
  <2>1. pid[w] \in Nat \ {0}
    BY <1>1, NumWorkersAssumption DEF FirstPid, MasterPid, Workers
  <2>2. own(w) \in WorkerIds
    BY <2>1 DEF WorkerIds
  <2>3. E(w) \in Epochs
    <3>1. E(w) = [id |-> own(w), generation |-> generation, hash |-> h]
      BY DEF ReadyEpoch, registry_epoch_of
    <3> HIDE DEF own, h, E
    <3> QED BY <1>1, <1>4, <2>2, <3>1 DEF Epochs
  <2>4. E(w) # None
    BY <2>3, NoneAssumption
  <2> QED BY <2>1, <2>2, <2>3, <2>4
<1>6. ASSUME NEW w \in Workers
      PROVE  /\ tp[w] \in Transport /\ LocalOK(tp[w]) /\ AllReady(status_snapshot(w, tp[w]))
             /\ tp[w].registry_epoch = E(w) /\ tp[w].registry_ready /\ ~tp[w].failed
             /\ status_snapshot(w, tp[w]) \in Rows
             /\ status_snapshot(w, tp[w]).generation = 1
  <2>1. tp[w] = [FreshTransport EXCEPT
                   !.registry_ready = TRUE, !.delegate_ready = TRUE, !.wrapper_ready = TRUE,
                   !.worker_initialized = TRUE, !.id = own(w),
                   !.config_source = "plain", !.config_hash = h,
                   !.registry = F, !.registry_epoch = E(w)]
    BY <1>1 DEF ReadyTransport
  <2> HIDE DEF own, h, F, E
  <2>2. tp[w] = [failed |-> FALSE, registry_ready |-> TRUE, delegate_ready |-> TRUE,
                 wrapper_ready |-> TRUE, worker_initialized |-> TRUE,
                 status_export_failed |-> FALSE, id |-> own(w), config_source |-> "plain",
                 config_hash |-> h, registry |-> F, registry_epoch |-> E(w)]
    BY <2>1 DEF FreshTransport
  <2>3. tp[w] \in Transport
    BY <1>3, <1>4, <1>5, <2>2 DEF Transport, ValidConfigs
  <2>4. LocalOK(tp[w])
    BY <1>1, <1>3, <1>4, <2>2 DEF LocalOK
  <2>5. AllReady(status_snapshot(w, tp[w]))
    <3> DEFINE row == status_snapshot(w, tp[w])
    <3>1. /\ tp[w].wrapper_ready /\ tp[w].registry_ready /\ tp[w].delegate_ready
          /\ ~tp[w].failed /\ ~tp[w].status_export_failed
          /\ tp[w].registry # None /\ tp[w].config_hash # None /\ tp[w].registry_epoch # None
      BY <1>3, <1>4, <1>5, <2>2
    <3>2. row.config_hash # None /\ row.registry_epoch # None
      BY <3>1 DEF status_snapshot
    <3>3. row.wrapper_ready /\ row.registry_ready /\ row.delegate_ready /\ row.routes
      BY <3>1 DEF status_snapshot
    <3> QED BY <3>2, <3>3 DEF AllReady
  <2>6. tp[w].registry_epoch = E(w) /\ tp[w].registry_ready /\ ~tp[w].failed
    BY <2>2
  <2>7. status_snapshot(w, tp[w]) \in Rows /\ status_snapshot(w, tp[w]).generation = 1
    BY <1>1, <1>5, <2>3 DEF status_snapshot, Rows, Transport
  <2> QED BY <2>3, <2>4, <2>5, <2>6, <2>7
<1>7. ASSUME NEW w \in Workers
      PROVE  /\ br[w] \in Bridge /\ br[w].signer_epoch = E(w) /\ E(w) \in br[w].cached_keys
             /\ ~br[w].delegate_failed
  <2>1. br[w] = [FreshBridge EXCEPT
                   !.delegate_ready = TRUE, !.configured_delivery = "transport_delegate",
                   !.config_signature = k, !.signer_epoch = E(w), !.cached_keys = {E(w)}]
    BY <1>2 DEF ReadyBridge
  <2> HIDE DEF E
  <2>2. br[w] = [delegate_failed |-> FALSE, delegate_ready |-> TRUE,
                 configured_delivery |-> "transport_delegate", config_signature |-> k,
                 signer_epoch |-> E(w), cached_keys |-> {E(w)}]
    BY <2>1 DEF FreshBridge
  <2>3. {E(w)} \in SUBSET Epochs
    BY <1>5
  <2> QED BY <1>5, <2>2, <2>3 DEF Bridge
<1> HIDE DEF F, h, E, own
<1>8. TypeOK
  <2>1. FirstPid(NumWorkers) \in Nat /\ <<>> \in Seq(Ops)
    BY FreshType
  <2>2. /\ pid \in [Workers -> Nat] /\ tp \in [Workers -> Transport]
        /\ br \in [Workers -> Bridge] /\ todo \in [Workers -> Seq(Ops)]
        /\ file \in [Workers -> Rows \cup {None}] /\ exported \subseteq Rows
    BY <1>1, <1>2, <1>5, <1>6, <1>7, <2>1
  <2> QED BY <1>1, <2>1, <2>2 DEF TypeOK
<1>9. IInv
  BY <1>1, <1>6, <1>8 DEF IInv, WorkersOK, ExportedReady, MarkerBacked
<1>10. HonestInv
  <2> SUFFICES ASSUME NEW v \in Workers PROVE Honest(v)
    BY DEF HonestInv
  <2>1. Proved(v)
    BY <1>6, <1>7 DEF Proved
  <2>2. file[v] = status_snapshot(v, tp[v]) /\ pid[v] # 0
    BY <1>1, <1>5
  <2> QED BY <2>1, <2>2 DEF Honest, ProofDue, WriteDue, DeadIsFresh
<1>11. ScriptTypes
  BY <1>1 DEF ScriptInit, ScriptTypes, Pcs
<1>12. SourcesOK /\ GenerationsOK
  BY <1>1, <1>6 DEF ScriptInit, SourcesOK, FilesOK, GenerationsOK
<1>13. CapturingOK /\ ClosedOK /\ MarkerOK /\ ForwardOK /\ CoverOK
  BY <1>1 DEF ScriptInit, CapturingOK, ClosedOK, MarkerOK, ForwardOK, Forwarding, CoverOK
<1> QED BY <1>1, <1>9, <1>10, <1>11, <1>12, <1>13 DEF SupInv, ScriptInv

\* The invariant of the script and the Data Plane together, from either start.
THEOREM ScriptInvariant == SupSpec \/ ReadySpec => []SupInv
<1>1. SupInit \/ ReadyInit => SupInv
  BY SupInitInv, ReadyInitInv
<1>2. SupInv /\ [SupNext]_allVars => SupInv'
  BY SupNextInv
<1> QED BY <1>1, <1>2, PTL DEF SupSpec, ReadySpec

\* Every variable of the script and of the Data Plane keeps its type; a fingerprint
\* the script holds is a well-formed marker.
THEOREM ScriptTypeCorrect == SupSpec \/ ReadySpec => []SupTypeOK
<1>1. SupInv => SupTypeOK
  BY DEF SupInv, IInv, ScriptInv, ScriptTypes, SupTypeOK
<1> QED BY <1>1, ScriptInvariant, PTL

\* The readiness script implements the launcher TransportRegistry relies on: what
\* it publishes is made of all-ready rows that workers exported, although it reads
\* generation, pids and files one after the other while workers restart
\* (capture_worker_state, publish_ready_marker, close_demo_entry).
THEOREM ScriptIsLauncher == SupSpec => Spec
<1>1. SupInit => Init
  BY DEF SupInit
<1>2. SupInv /\ [SupNext]_allVars => [Next]_vars
  BY ScriptImplements
<1> QED BY <1>1, <1>2, ScriptInvariant, PTL DEF SupSpec, Spec

\* Once the script has exited, by the closing sequence, by a signal at any point, or
\* because there was no container, the forward whose pid it knew is closed; and a
\* worker serves a reserved route only if both docker commands of the closing
\* sequence failed and the container is still the accepted one, whatever is restarted
\* later (close_demo_entry and its two "|| true").
THEOREM ExitCloses == SupSpec \/ ReadySpec => []ExitedClosed
<1>1. SupInv => ExitedClosed
  <2> SUFFICES ASSUME SupInv, pc = "exited"
               PROVE  /\ forwarder # "running"
                      /\ \A w \in Workers :
                           GateOpen(w) => closed = {} /\ generation = accepted.generation
    BY DEF ExitedClosed
  <2>1. forwarder # "running"
    BY DEF SupInv, ScriptInv, ForwardOK, OpenPcs
  <2>2. closed # {} => Outdated
    BY DEF SupInv, ScriptInv, ClosedOK
  <2>3. ASSUME NEW w \in Workers, GateOpen(w)
        PROVE  closed = {} /\ generation = accepted.generation
    <3>1. marker # None /\ marker.generation = generation /\ up
      BY <2>3, OpenGate DEF SupInv, GateOpen, Idle, Running
    <3>2. marker.generation \in Nat
      BY <3>1 DEF SupInv, IInv, TypeOK, Markers
    <3>3. closed = {}
      BY <2>2, <3>1, <3>2 DEF Outdated
    <3>4. marker = accepted
      BY <3>1 DEF SupInv, ScriptInv, MarkerOK
    <3> QED BY <3>1, <3>3, <3>4
  <2> QED BY <2>1, <2>3
<1> QED BY <1>1, ScriptInvariant, PTL

\* While the forward is open, a worker that has been through init_worker and is not
\* one the script accepted means that the marker is gone and no worker serves: the
\* polling interval of the script opens no window (remove_ready_marker in
\* init_worker; require-wp5-readiness.sh, the comment above its polling loop).
THEOREM RestartCloses == SupSpec \/ ReadySpec => []RestartFailsClosed
<1>1. SupInv => RestartFailsClosed
  <2> SUFFICES ASSUME SupInv, Forwarding, NEW w \in Workers, Running(w),
                      tp[w].worker_initialized,
                      \A i \in 1 .. Len(todo[w]) : todo[w][i] # "unmark",
                      pid[w] \notin {x.pid : x \in accepted.workers}
               PROVE  marker = None /\ \A v \in Workers : ~GateOpen(v)
    BY DEF RestartFailsClosed
  <2>1. ~Has(todo[w], Unmarks)
    BY DEF Has, Unmarks
  <2>2. marker = None
    BY <2>1 DEF SupInv, ScriptInv, CoverOK, CoveredBy, AcceptedPids
  <2>3. \A v \in Workers : ~GateOpen(v)
    BY <2>2, OpenGate DEF SupInv
  <2> QED BY <2>2, <2>3
<1> QED BY <1>1, ScriptInvariant, PTL

\* Also with the script that really runs, and also when it finds the workers ready,
\* workers that serve at the same time serve the same configuration and the same
\* client certificates.
THEOREM SupervisedWorkersAgree == SupSpec \/ ReadySpec => []ServingWorkersAgree
<1>1. SupInv => ServingWorkersAgree
  BY OpenGate DEF SupInv, ServingWorkersAgree
<1> QED BY <1>1, ScriptInvariant, PTL
=============================================================================
