------------------------------ MODULE DeckSync ------------------------------
(* scripts/run-deck.py: the guarded launch of decK against a Konnect Control  *)
(* Plane. A runtime sync needs a receipt that a reviewer wrote from a         *)
(* read-only diff; the script compares the receipt with a fresh diff, reads   *)
(* its inputs once more and then starts "deck gateway sync", which reads the  *)
(* file and the Control Plane again by itself and applies one operation at a  *)
(* time. Other people change the Control Plane, the files and the names of    *)
(* Control Planes at any moment.                                              *)
(*                                                                            *)
(* An entity is <<kind, name>> with a body; hashes are the values they cover. *)
EXTENDS Integers, Sequences, FiniteSets, FiniteSetsExt

CONSTANTS Setups,       \* situation -> [gateway, args of each execution, planes found, maxEdits]
          Approved,     \* runs with the *_APPROVED=YES variable of their gateway
          Planes,       \* ids of Control Planes
          ConfigName,   \* expected_names: gateway -> the name configured in .env
          Manifests,    \* contents that gateway_targets.json may have
          GoodManifest, GoodNames,  \* the right one, and the names as provisioned
          States,       \* for each gateway, its state files and the plans for it
          None

Stages == {"foundation", "runtime"}
Gateways == {"api", "third-party"}
Names == {ConfigName[g] : g \in Gateways}
OpNames == {"creating", "updating", "deleting"}
ASSUME DeckAssumption ==
    /\ GoodManifest \in Manifests /\ GoodNames \in [Planes -> Names] /\ DOMAIN States = Gateways
    /\ \A p, q \in Planes : GoodNames[p] = GoodNames[q] => p = q
    /\ \A g \in Gateways : /\ GoodNames[GoodManifest[g].id] = ConfigName[g]
                           /\ \A m \in Manifests : m[g].id \in Planes
                           /\ States[g].foundation \cup States[g].runtime \cup States[g].roleBound
                              \subseteq States[g].entities
    /\ \A x \in DOMAIN Setups : LET s == Setups[x] IN
         /\ s.gateway \in Gateways /\ s.maxEdits \in Nat
         /\ \A r \in DOMAIN s.args : s.args[r] \in {"diff", "sync"} \X Stages
         /\ \A c \in s.planes : /\ DOMAIN c = Planes
                                /\ \A p \in Planes : DOMAIN c[p] = States[s.gateway].entities
    /\ None \notin {"cert1", "cert2", "edited", "v2"}

VARIABLES setup,    \* the situation
          cp,       \* cp[p][e]: body of e on Control Plane p, or None
          nameOf,   \* the name of each Control Plane
          disk,     \* foundation and runtime file, role input, target manifest
          receipt,  \* the reviewer's receipt, or None
          run,      \* run[r]: the state of one execution
          edits,
          moved,    \* history: runs whose compared Control Plane others changed afterwards
          refiled,  \* history: runs whose state file is another one for decK than for the checks
          renamed   \* history: runs whose target was renamed after its check
vars == <<setup, cp, nameOf, disk, receipt, run, edits, moved, refiled, renamed>>

Gateway == Setups[setup].gateway
Runs == DOMAIN Setups[setup].args
Mode(r) == Setups[setup].args[r][1]
Stage(r) == Setups[setup].args[r][2]
MaxEdits == Setups[setup].maxEdits       \* bound on what others do
Foundation == States[Gateway].foundation \* entities of the foundation file
InRuntime == States[Gateway].runtime     \* entities of the runtime file
Entities == States[Gateway].entities     \* all entities that carry the tag fapi2-demo
RoleBound == States[Gateway].roleBound   \* entities with a body from the role input file
Kept == States[Gateway].kept             \* entities an edited file still lists
Plans == States[Gateway].plans           \* plan -> [creating, updating, deleting]

-----------------------------------------------------------------------------
(* decK (external): what a file asks for and what a diff reports.             *)

CertOf(role) == IF role = 1 THEN "cert1" ELSE "cert2"
Content(d, stage) == IF stage = "foundation" THEN d.foundation ELSE d.file
\* An edited file has other bodies and may list fewer entities.
FileOf(d, stage) ==
    LET listed == IF stage = "foundation" THEN Foundation ELSE InRuntime
    IN  IF Content(d, stage) = "edited" THEN listed \cap Kept ELSE listed
\* select_tags: the foundation file selects entities that also carry
\* fapi2-foundation, unless somebody took that tag out of it; the runtime file
\* everything with fapi2-demo.
Selected(d, stage) ==
    IF stage = "foundation" /\ Content(d, stage) /= "retagged" THEN Foundation ELSE Entities
Desired(d, e, stage) == IF e \in RoleBound THEN CertOf(d.role)
                        ELSE IF Content(d, stage) = "edited" THEN "edited" ELSE "v2"
Op(op, e, old, new) == [op |-> op, e |-> e, old |-> old, new |-> new]
Diff(plane, d, stage) ==
    {Op("creating", e, None, Desired(d, e, stage)) : e \in {x \in FileOf(d, stage) : plane[x] = None}}
    \cup {Op("updating", e, plane[e], Desired(d, e, stage)) :
            e \in {x \in FileOf(d, stage) : plane[x] /= None /\ plane[x] /= Desired(d, x, stage)}}
    \cup {Op("deleting", e, None, plane[e]) :
            e \in {x \in Selected(d, stage) \ FileOf(d, stage) : plane[x] /= None}}
\* Creates and updates run before deletes, each in the order of dependencies.
Level == [ca_certificate |-> 1, certificate |-> 1, service |-> 2, route |-> 3, plugin |-> 4]
Rank(o) == IF o.op = "deleting" THEN 9 - Level[o.e[1]] ELSE Level[o.e[1]]
Ready(ops) == {o \in ops : \A q \in ops : Rank(o) <= Rank(q)}

-----------------------------------------------------------------------------
(* Scopes and receipts.                                                       *)

Touched(ops, name) == {o.e : o \in {q \in ops : q.op = name}}
\* parse_sanitized_runtime_diff / parse_deck_diff_report with the scope check.
InScope(ops, plan) == \A name \in OpNames : Touched(ops, name) = Plans[plan][name]
validate_backend_scope(ops, plan) == plan \in DOMAIN Plans /\ InScope(ops, plan)
validate_runtime_diff_scope(ops) == ops = {} \/ InScope(ops, "migration")
\* A no-op of the API runtime is never approved.
Approvable(ops, plan) ==
    IF Gateway = "api" THEN plan = "migration" /\ InScope(ops, plan) ELSE validate_backend_scope(ops, plan)
ReceiptMatches(rc, target, file, role) ==
    /\ rc /= None /\ rc.file = file /\ rc.role = role
    /\ IF Gateway = "api" THEN rc.target.id = target.id ELSE rc.target = target
    /\ Approvable(rc.ops, rc.plan)

-----------------------------------------------------------------------------
(* main()                                                                     *)

Idle == [pc |-> "local", target |-> None, role |-> None, receipt |-> None, diff |-> {},
         plane |-> None, todo |-> {}, applied |-> {}]
Init == /\ setup \in DOMAIN Setups
        /\ cp \in Setups[setup].planes
        /\ nameOf = GoodNames
        /\ disk = [foundation |-> "pinned", file |-> "pinned", role |-> 1, manifest |-> GoodManifest]
        /\ receipt = None
        /\ run = [r \in Runs |-> Idle]
        /\ edits = 0 /\ moved = {} /\ refiled = {} /\ renamed = {}

SyncRuntime(r) == Mode(r) = "sync" /\ Stage(r) = "runtime"
Set(r, s) == run' = [run EXCEPT ![r] = s]
Refuse(r) == run' = [run EXCEPT ![r].pc = "refused"]
Untouched == UNCHANGED <<setup, cp, nameOf, disk, receipt, edits, moved, refiled, renamed>>

\* The validators compare a file with the one content the code knows.
\* Mutation: validate_foundation_state is not called.
validate_no_foundation(d) == TRUE
validate_foundation_state(d) == d.foundation = "pinned"
validate_api_runtime_state(d) == d.file = "pinned"
validate_third_party_runtime_state(d) == validate_foundation_state(d) /\ d.file = "pinned"
\* validate_targets: two different Control Planes with the configured names.
validate_targets(m) == /\ m["api"].id /= m["third-party"].id
                       /\ m["api"].name /= m["third-party"].name
                       /\ \A g \in Gateways : m[g].name = ConfigName[g]
local_manifest(stage) ==
    /\ validate_foundation_state(disk)
    /\ stage = "runtime" => IF Gateway = "api" THEN validate_api_runtime_state(disk)
                            ELSE validate_third_party_runtime_state(disk)
    /\ validate_targets(disk.manifest)
\* local_manifest, the approval variable and the role input file.
Local(r) ==
    /\ run[r].pc = "local"
    /\ IF local_manifest(Stage(r)) /\ (SyncRuntime(r) => r \in Approved)
       THEN Set(r, [run[r] EXCEPT !.pc = IF SyncRuntime(r) THEN "receipt" ELSE "remote",
                                  !.target = disk.manifest[Gateway], !.role = disk.role])
       ELSE Refuse(r)
    /\ refiled' = refiled \ {r}
    /\ UNCHANGED <<setup, cp, nameOf, disk, receipt, edits, moved, renamed>>
\* read_migration_approval and read_backend_runtime_approval.
ReadReceipt(r) ==
    /\ run[r].pc = "receipt"
    /\ IF ReceiptMatches(receipt, run[r].target, disk.file, run[r].role)
       THEN Set(r, [run[r] EXCEPT !.pc = "remote", !.receipt = receipt])
       ELSE Refuse(r)
    /\ Untouched
\* verify_remote_target asks for the Control Plane by id; its name and
\* endpoints must be the target's. For the API verify_shared_api_ca follows;
\* then check_schemas and the online validation of Routes may stop the run.
verify_nothing(r) == TRUE
verify_remote_target(r) ==
    nameOf[run[r].target.id] = run[r].target.name /\ run[r].target.endpoints = run[r].target.id
verify_shared_api_ca(r) == Gateway = "api" =>
    \A e \in Entities : e[1] = "ca_certificate" => cp[run[r].target.id][e] = CertOf(run[r].role)
Remote(r) ==
    /\ run[r].pc = "remote"
    /\ \/ /\ verify_remote_target(r) /\ verify_shared_api_ca(r)
          /\ Set(r, [run[r] EXCEPT !.pc = IF Mode(r) = "diff" \/ SyncRuntime(r) THEN "diff" ELSE "sync"])
       \/ Refuse(r)
    /\ renamed' = renamed \ {r}
    /\ UNCHANGED <<setup, cp, nameOf, disk, receipt, edits, moved, refiled>>

\* decK runs with the role values read before and with the file as it is now,
\* on the Control Plane that has the target's name now.
Inputs(r) == [disk EXCEPT !.role = run[r].role]
PlaneNow(r) == CHOOSE p \in Planes : nameOf[p] = run[r].target.name
SameReview(r, ops) == ops = run[r].receipt.ops
DiffAgrees(r, ops) == IF Gateway = "api" THEN validate_runtime_diff_scope(ops) /\ SameReview(r, ops)
                      ELSE validate_backend_scope(ops, run[r].receipt.plan) /\ SameReview(r, ops)
PreSyncDiff(r) ==
    /\ run[r].pc = "diff" /\ Mode(r) = "sync"
    /\ LET ops == Diff(cp[PlaneNow(r)], Inputs(r), "runtime")
       IN  \/ DiffAgrees(r, ops) /\ Set(r, [run[r] EXCEPT !.pc = "again"])
           \/ Refuse(r)     \* decK failed, or the diffs differ
    /\ moved' = moved \ {r}
    /\ refiled' = IF disk.file = run[r].receipt.file THEN refiled ELSE refiled \cup {r}
    /\ UNCHANGED <<setup, cp, nameOf, disk, receipt, edits, renamed>>
\* The inputs are read again; the third-party gateway also reads its manifest
\* and its receipt again.
\* Mutation: the inputs are not read again.
InputsUnread(r) == TRUE
InputsAgain(r) ==
    /\ disk.file = run[r].receipt.file /\ disk.role = run[r].receipt.role
    /\ Gateway = "third-party" =>
         /\ local_manifest("runtime") /\ disk.manifest[Gateway] = run[r].receipt.target
         /\ receipt = run[r].receipt
ReadAgain(r) ==
    /\ run[r].pc = "again"
    /\ IF InputsAgain(r) THEN Set(r, [run[r] EXCEPT !.pc = "sync"]) ELSE Refuse(r)
    /\ Untouched

\* deck gateway sync: it computes its own operations, then applies them.
StartSync(r) ==
    /\ run[r].pc = "sync"
    /\ Set(r, [run[r] EXCEPT !.pc = "apply", !.plane = PlaneNow(r),
                             !.todo = Diff(cp[PlaneNow(r)], Inputs(r), Stage(r))])
    /\ Untouched
WrittenBody(o) == IF o.op = "deleting" THEN None ELSE o.new
\* Runs that compared their diff and whose review does not cover a write of r.
Checked == {r \in Runs : run[r].pc \in {"again", "sync", "apply", "done"}}
Others(r) == {q \in Checked \ {r} : r \in moved \cup refiled \/ run[q].receipt /= run[r].receipt}
ApplyOne(r) ==
    /\ run[r].pc = "apply"
    /\ \E o \in Ready(run[r].todo) :
         /\ cp' = [cp EXCEPT ![run[r].plane][o.e] = WrittenBody(o)]
         /\ Set(r, [run[r] EXCEPT !.todo = @ \ {o}, !.applied = @ \cup {o}])
    /\ moved' = moved \cup Others(r)
    /\ UNCHANGED <<setup, nameOf, disk, receipt, edits, refiled, renamed>>
\* decK exits nonzero or is killed at the time-out: "outcome is unknown".
StopsUnnoticed(r) == run[r].pc = "apply" /\ run[r].todo /= {} /\ Set(r, [run[r] EXCEPT !.pc = "done"]) /\ Untouched
StopsHalfway(r) == run[r].pc = "apply" /\ run[r].todo /= {} /\ Set(r, [run[r] EXCEPT !.pc = "unknown"]) /\ Untouched
Completed(r) == run[r].pc = "apply" /\ run[r].todo = {} /\ Set(r, [run[r] EXCEPT !.pc = "done"]) /\ Untouched

\* The read-only diff prints operations and digests; the API one only in scope.
RuntimeDiff(r) ==
    /\ run[r].pc = "diff" /\ Mode(r) = "diff" /\ Stage(r) = "runtime"
    /\ LET ops == Diff(cp[PlaneNow(r)], Inputs(r), "runtime")
       IN  \/ /\ Gateway = "api" => validate_runtime_diff_scope(ops)
              /\ Set(r, [run[r] EXCEPT !.pc = "print", !.diff = ops])
           \/ Refuse(r)
    /\ Untouched
PrintReview(r) ==
    /\ run[r].pc = "print"
    /\ Set(r, [run[r] EXCEPT !.pc = "printed",
               !.receipt = [target |-> run[r].target, file |-> disk.file, role |-> run[r].role,
                            ops |-> run[r].diff, plan |-> None]])
    /\ Untouched
\* Root review: a person approves a printed diff as one of the plans.
Review ==
    /\ \E r \in Runs, plan \in DOMAIN Plans :
         /\ run[r].pc = "printed" /\ Approvable(run[r].receipt.ops, plan)
         /\ receipt' = [run[r].receipt EXCEPT !.plan = plan]
    /\ receipt' /= receipt
    /\ UNCHANGED <<setup, cp, nameOf, disk, run, edits, moved, refiled, renamed>>
\* The operator starts a finished execution again.
Restart(r) == /\ run[r].pc \in {"refused", "unknown", "done", "printed"} /\ edits < MaxEdits
              /\ edits' = edits + 1 /\ Set(r, Idle)
              /\ UNCHANGED <<setup, cp, nameOf, disk, receipt, moved, refiled, renamed>>

\* Others: the Control Plane, the repository's inputs, the names in Konnect.
Outside == edits < MaxEdits /\ edits' = edits + 1 /\ UNCHANGED <<setup, receipt, run>>
EditPlane(p, e, b) == /\ Outside /\ cp[p][e] /= b /\ cp' = [cp EXCEPT ![p][e] = b]
                      /\ moved' = moved \cup Checked
                      /\ UNCHANGED <<nameOf, disk, refiled, renamed>>
\* The script has read its state file for the last time, decK has not yet.
FileWindow(r) == run[r].pc \in (IF Stage(r) = "foundation" THEN {"remote", "sync"} ELSE {"sync"})
EditDisk == /\ Outside /\ UNCHANGED <<cp, nameOf, moved, renamed>>
            /\ \/ disk' \in {[disk EXCEPT !.foundation = f] : f \in {"pinned", "edited", "retagged"}}
               \/ disk' \in {[disk EXCEPT !.file = f] : f \in {"pinned", "edited"}}
               \/ disk' \in {[disk EXCEPT !.role = n] : n \in {1, 2}}
               \/ disk' \in {[disk EXCEPT !.manifest = m] : m \in Manifests}
            /\ refiled' = refiled \cup {r \in Runs : FileWindow(r) /\ Content(disk', Stage(r)) /= Content(disk, Stage(r))}
\* Two Control Planes exchange their names.
Rename == /\ Outside /\ renamed' = Runs /\ moved' = moved \cup Checked /\ UNCHANGED <<cp, disk, refiled>>
          /\ \E p, q \in Planes : p /= q /\ nameOf' = [nameOf EXCEPT ![p] = nameOf[q], ![q] = nameOf[p]]
Edit == EditDisk \/ Rename \/ \E e \in Entities, b \in {None, "foreign"} : EditPlane(GoodManifest[Gateway].id, e, b)

Step(r) == \/ Local(r) \/ ReadReceipt(r) \/ Remote(r) \/ PreSyncDiff(r) \/ ReadAgain(r) \/ StartSync(r)
           \/ ApplyOne(r) \/ StopsHalfway(r) \/ Completed(r) \/ RuntimeDiff(r) \/ PrintReview(r)
Next == (\E r \in Runs : Step(r) \/ Restart(r)) \/ Review \/ Edit
Spec == Init /\ [][Next]_vars

-----------------------------------------------------------------------------
(* Properties *)

Pcs == {"local", "receipt", "remote", "diff", "again", "sync", "apply", "unknown", "done", "print", "printed", "refused"}
(* Control Planes, inputs and executions keep their types; an execution that  *)
(* reaches decK's sync in the runtime stage holds a receipt of a known plan.  *)
TypeOK ==
    /\ DOMAIN cp = Planes /\ nameOf \in [Planes -> Names] /\ edits \in 0 .. MaxEdits
    /\ disk \in [foundation : {"pinned", "edited", "retagged"}, file : {"pinned", "edited"}, role : {1, 2}, manifest : Manifests]
    /\ moved \subseteq Runs /\ refiled \subseteq Runs /\ renamed \subseteq Runs
    /\ \A r \in Runs : /\ run[r].pc \in Pcs
                       /\ SyncRuntime(r) /\ run[r].pc \notin {"local", "receipt", "refused"}
                          => run[r].receipt /= None /\ run[r].receipt.plan \in DOMAIN Plans

Beyond(r) == run[r].applied \ run[r].receipt.ops /= {}
(* An operation that no reviewer saw is only ever applied when somebody else  *)
(* changed the Control Plane or its name after this execution compared its    *)
(* fresh diff with the receipt, changed the state file after it was read      *)
(* again, or had another one in its place during the comparison. Inputs       *)
(* changed before they are read again, two executions of the same receipt,    *)
(* and executions stopped half-way and started again never exceed the review. *)
WithinReview ==
    \A r \in Runs : SyncRuntime(r) /\ run[r].applied /= {} /\ Beyond(r) => r \in moved \cup refiled

(* Every sync, with or without a review, writes to the Control Plane whose id *)
(* is in the manifest it read, although decK finds it by name: only a rename  *)
(* after verify_remote_target leads it elsewhere. While the names are the     *)
(* provisioned ones, no manifest leads it to the other gateway.               *)
WritesAtHome ==
    \A r \in Runs : run[r].applied /= {} =>
        /\ run[r].plane /= run[r].target.id => r \in renamed
        /\ nameOf = GoodNames /\ r \notin renamed => run[r].plane = GoodManifest[Gateway].id

Reviewed(rc) == [file |-> rc.file, role |-> rc.role]
(* Unless others interfere, a sync that reports completion leaves nothing to  *)
(* do for the file and the role inputs that were reviewed.                    *)
CompletedIsExact ==
    \A r \in Runs : SyncRuntime(r) /\ run[r].pc = "done" /\ r \notin moved \cup refiled
                    => Diff(cp[run[r].plane], Reviewed(run[r].receipt), "runtime") = {}

(* A foundation sync changes other than foundation entities only if the file  *)
(* was changed after local_manifest validated its select_tags and before decK *)
(* read it: whatever was in the file before, and whatever is on the Control   *)
(* Plane, it does not delete the runtime.                                     *)
FoundationOnly ==
    \A r \in Runs : Stage(r) = "foundation" /\ r \notin refiled
                    => \A o \in run[r].applied : o.e \in Foundation
=============================================================================
