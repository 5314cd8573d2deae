---------------------------- MODULE DeckSyncProofs ----------------------------
(* What a guarded decK sync may write, for any number of executions, reviews, *)
(* Control Planes, state files and edits by others.                           *)
EXTENDS DeckSync, TLAPS

(* decK's diff with the gateway as a parameter, so that it depends on no      *)
(* variable.                                                                  *)
Wanted(g, d, e, stage) ==
    IF e \in States[g].roleBound THEN CertOf(d.role)
    ELSE IF Content(d, stage) = "edited" THEN "edited" ELSE "v2"
InFile(g, d, stage) ==
    LET listed == IF stage = "foundation" THEN States[g].foundation ELSE States[g].runtime
    IN  IF Content(d, stage) = "edited" THEN listed \cap States[g].kept ELSE listed
Tagged(g, d, stage) ==
    IF stage = "foundation" /\ Content(d, stage) /= "retagged" THEN States[g].foundation ELSE States[g].entities
DiffOf(g, plane, d, stage) ==
    {Op("creating", e, None, Wanted(g, d, e, stage)) : e \in {x \in InFile(g, d, stage) : plane[x] = None}}
    \cup {Op("updating", e, plane[e], Wanted(g, d, e, stage)) :
            e \in {x \in InFile(g, d, stage) : plane[x] /= None /\ plane[x] /= Wanted(g, d, x, stage)}}
    \cup {Op("deleting", e, None, plane[e]) :
            e \in {x \in Tagged(g, d, stage) \ InFile(g, d, stage) : plane[x] /= None}}
PlaneNamed(names, name) == CHOOSE p \in Planes : names[p] = name

\* An operation that brings its entity to what the runtime file asks for.
Fits(g, d, o) ==
    /\ o.e \in States[g].entities
    /\ \/ o.op /= "deleting" /\ o.e \in InFile(g, d, "runtime") /\ o.new = Wanted(g, d, o.e, "runtime")
       \/ o.op = "deleting" /\ o.e \notin InFile(g, d, "runtime")

(* The inductive invariant. The names of Control Planes are a permutation of  *)
(* the provisioned ones (Named). An execution passes the checks in order and  *)
(* its target is the configured one (PathOK), so it writes where              *)
(* verify_remote_target looked, unless a rename came between (HomeOK). The    *)
(* foundation file is the validated one until decK reads it, unless it was    *)
(* changed in that window (TagsOK). Until others interfere, what is left to   *)
(* do for the reviewed inputs is covered by the review, also when executions  *)
(* of the same receipt overtake each other, and the file decK reads is the    *)
(* reviewed one (ReviewOK).                                                   *)
Fields == {"pc", "target", "role", "receipt", "diff", "plane", "todo", "applied"}
Shape ==
    /\ setup \in DOMAIN Setups
    /\ DOMAIN cp = Planes /\ \A p \in Planes : DOMAIN cp[p] = Entities
    /\ DOMAIN disk = {"foundation", "file", "role", "manifest"} /\ disk.manifest \in Manifests
    /\ DOMAIN run = Runs /\ \A r \in Runs : DOMAIN run[r] = Fields
Named ==
    /\ nameOf \in [Planes -> Names]
    /\ \A p, q \in Planes : nameOf[p] = nameOf[q] => p = q
    /\ \E p \in Planes : nameOf[p] = ConfigName[Gateway]

Syncing == {"apply", "done", "unknown"}
PathOK(r) ==
    LET s == run[r] IN
    /\ s.pc \in Pcs
    /\ s.pc \in {"receipt", "again"} => SyncRuntime(r)
    /\ s.pc = "diff" => Mode(r) = "diff" \/ SyncRuntime(r)
    /\ s.pc \in {"print", "printed"} => Mode(r) = "diff"
    /\ s.pc \in Syncing \cup {"sync"} => Mode(r) = "sync"
    /\ s.pc \notin Syncing => s.applied = {} /\ s.todo = {}
    /\ s.pc \notin {"local", "refused"} => s.target.id \in Planes /\ s.target.name = ConfigName[Gateway]
    /\ SyncRuntime(r) /\ s.pc \notin {"local", "receipt", "refused"} => s.receipt /= None /\ s.receipt.role = s.role
    /\ Mode(r) = "sync" /\ Stage(r) = "foundation" => s.receipt = None
HomeOK(r) ==
    LET s == run[r] IN
    /\ s.pc \notin {"local", "receipt", "remote", "refused"} /\ r \notin renamed
          => nameOf[s.target.id] = s.target.name
    /\ s.pc \in Syncing => s.plane \in Planes /\ (r \notin renamed => s.plane = s.target.id)
TagsOK(r) ==
    Stage(r) = "foundation" /\ r \notin refiled =>
        /\ run[r].pc \in {"remote", "sync"} => disk.foundation = "pinned"
        /\ \A o \in run[r].todo \cup run[r].applied : o.e \in Foundation
Left(rc, p) == DiffOf(Gateway, cp[p], Reviewed(rc), "runtime")
ReviewOK(r) ==
    LET s == run[r] IN
    SyncRuntime(r) /\ r \notin moved \cup refiled =>
        /\ \A o \in s.applied : o \in s.receipt.ops
        /\ s.pc \in {"again", "sync", "apply", "done"} =>
             \A o \in s.receipt.ops : Fits(Gateway, Reviewed(s.receipt), o)
        /\ s.pc \in {"again", "sync"} => Left(s.receipt, PlaneNamed(nameOf, s.target.name)) \subseteq s.receipt.ops
        /\ s.pc = "sync" => disk.file = s.receipt.file
        /\ s.pc \in {"apply", "done"} => s.todo \subseteq s.receipt.ops /\ Left(s.receipt, s.plane) \subseteq s.todo
        /\ s.pc = "done" => s.todo = {}
RunOK(r) == PathOK(r) /\ HomeOK(r) /\ TagsOK(r) /\ ReviewOK(r)
IInv == Shape /\ Named /\ \A r \in Runs : RunOK(r)
-----------------------------------------------------------------------------
(* The diff.                                                                  *)

\* Diff and PlaneNow are these operators, before and after a step.
LEMMA DiffIs ==
    ASSUME NEW plane, NEW d, NEW stage \in Stages
    PROVE  /\ Diff(plane, d, stage) = DiffOf(Gateway, plane, d, stage)
           /\ Diff(plane, d, stage)' = DiffOf(Gateway', plane, d, stage)
<1>1. Diff(plane, d, stage) = DiffOf(Gateway, plane, d, stage)
  BY DEF Diff, DiffOf, FileOf, InFile, Selected, Tagged, Desired, Wanted, Foundation, InRuntime,
         Entities, RoleBound, Kept, Gateway, Stages
<1>2. Diff(plane, d, stage)' = DiffOf(Gateway', plane, d, stage)
  BY DEF Diff, DiffOf, FileOf, InFile, Selected, Tagged, Desired, Wanted, Foundation, InRuntime,
         Entities, RoleBound, Kept, Gateway, Stages
<1> QED BY <1>1, <1>2

\* What a diff of the runtime file reports, each operation brings about.
LEMMA DiffFits ==
    ASSUME NEW g \in Gateways, NEW plane, NEW d, NEW o \in DiffOf(g, plane, d, "runtime")
    PROVE  Fits(g, d, o)
BY DeckAssumption DEF DiffOf, Fits, InFile, Tagged, Op

\* A diff of the validated foundation file only concerns the foundation: the tags
\* it selects by.
LEMMA FoundationDiff ==
    ASSUME NEW g, NEW plane, NEW d, d.foundation = "pinned", NEW o \in DiffOf(g, plane, d, "foundation")
    PROVE  o.e \in States[g].foundation
BY DEF DiffOf, InFile, Tagged, Content, Op

\* A runtime diff depends on the runtime file and the role inputs only.
LEMMA SameInputs ==
    ASSUME NEW g, NEW plane, NEW d, NEW c, d.file = c.file, d.role = c.role
    PROVE  DiffOf(g, plane, d, "runtime") = DiffOf(g, plane, c, "runtime")
<1>1. \A e : Wanted(g, d, e, "runtime") = Wanted(g, c, e, "runtime")
  BY DEF Wanted, Content
<1>2. InFile(g, d, "runtime") = InFile(g, c, "runtime") /\ Tagged(g, d, "runtime") = Tagged(g, c, "runtime")
  BY DEF InFile, Tagged, Content
<1> HIDE DEF Wanted, InFile, Tagged
<1> QED BY <1>1, <1>2 DEF DiffOf

\* Once an operation that fits is applied, nothing is left to do for its entity,
\* and nothing is added for others.
Overwritten(plane, o) == [plane EXCEPT ![o.e] = WrittenBody(o)]
LEMMA DiffShrinks ==
    ASSUME NEW g \in Gateways, NEW plane, NEW d, NEW o, Fits(g, d, o), DOMAIN plane = States[g].entities
    PROVE  \A x \in DiffOf(g, Overwritten(plane, o), d, "runtime") :
              x \in DiffOf(g, plane, d, "runtime") /\ x.e /= o.e
<1> DEFINE after == Overwritten(plane, o)
<1>1. /\ after[o.e] = WrittenBody(o)
      /\ \A e \in States[g].entities : e /= o.e => after[e] = plane[e]
  BY DEF Fits, Overwritten
<1> HIDE DEF after
<1>2. /\ InFile(g, d, "runtime") \subseteq States[g].entities
      /\ Tagged(g, d, "runtime") = States[g].entities
  BY DeckAssumption DEF InFile, Tagged
<1>3. \A e : Wanted(g, d, e, "runtime") /= None
  BY DeckAssumption DEF Wanted, CertOf
<1>4. o.e \in InFile(g, d, "runtime") => after[o.e] = Wanted(g, d, o.e, "runtime")
  BY <1>1 DEF Fits, WrittenBody
<1>5. o.e \notin InFile(g, d, "runtime") => after[o.e] = None
  BY <1>1 DEF Fits, WrittenBody
<1> HIDE DEF Wanted, InFile, Tagged
<1>6. \A x \in DiffOf(g, after, d, "runtime") : x \in DiffOf(g, plane, d, "runtime") /\ x.e /= o.e
  BY <1>1, <1>2, <1>3, <1>4, <1>5 DEF DiffOf, Op
<1> QED BY <1>6 DEF after
-----------------------------------------------------------------------------
(* Steps that leave the Control Planes, the names and the inputs alone.       *)

LEMMA Fixed ==
    ASSUME UNCHANGED setup
    PROVE  /\ Gateway' = Gateway /\ Runs' = Runs /\ Entities' = Entities /\ Foundation' = Foundation
           /\ \A r : Mode(r)' = Mode(r) /\ Stage(r)' = Stage(r) /\ (SyncRuntime(r)' <=> SyncRuntime(r))
BY DEF Gateway, Runs, Entities, Foundation, Mode, Stage, SyncRuntime

LEMMA Arguments ==
    ASSUME Shape
    PROVE  /\ Gateway \in Gateways
           /\ \A r \in Runs : Mode(r) \in {"diff", "sync"} /\ Stage(r) \in {"foundation", "runtime"}
<1>1. Gateway \in Gateways
  BY DeckAssumption DEF Shape, Gateway
<1>2. \A r \in Runs : Setups[setup].args[r] \in {"diff", "sync"} \X Stages
  BY DeckAssumption DEF Shape, Runs
<1> QED BY <1>1, <1>2 DEF Mode, Stage, Stages

\* No step of another execution takes back what others did to q.
Marked(q) == /\ q \in moved => q \in moved'
             /\ q \in refiled => q \in refiled'
             /\ q \in renamed => q \in renamed'

\* An execution that does not move keeps what was known of it.
LEMMA SameRun ==
    ASSUME IInv, NEW q \in Runs, UNCHANGED <<setup, cp, nameOf, disk>>, run'[q] = run[q],
           Marked(q)
    PROVE  RunOK(q)'
<1> USE Fixed
<1>1. RunOK(q)
  BY DEF IInv
<1>2. PathOK(q)'
  BY <1>1 DEF RunOK, PathOK
<1>3. HomeOK(q)'
  BY <1>1 DEF RunOK, HomeOK, Marked
<1>4. TagsOK(q)'
  BY <1>1 DEF RunOK, TagsOK, Marked
<1>5. ReviewOK(q)'
  BY <1>1 DEF RunOK, ReviewOK, Left, Marked
<1> QED BY <1>2, <1>3, <1>4, <1>5 DEF RunOK

\* A step of one execution.
LEMMA OneRun ==
    ASSUME IInv, NEW r \in Runs, NEW s, DOMAIN s = Fields, Set(r, s),
           UNCHANGED <<setup, cp, nameOf, disk>>,
           \A q \in Runs : q /= r => Marked(q),
           run'[r] = s => RunOK(r)'
    PROVE  IInv'
<1> USE Fixed
<1>1. DOMAIN run = Runs /\ \A q \in Runs : DOMAIN run[q] = Fields
  BY DEF IInv, Shape
<1>2. DOMAIN run' = Runs /\ run'[r] = s /\ \A q \in Runs : q /= r => run'[q] = run[q]
  BY <1>1 DEF Set
<1>3. Shape'
  BY <1>1, <1>2 DEF IInv, Shape
<1>4. Named'
  BY DEF IInv, Named
<1>5. ASSUME NEW q \in Runs PROVE RunOK(q)'
  <2>1. CASE q = r
    BY <1>2, <2>1
  <2>2. CASE q /= r
    BY <1>2, <2>2, SameRun
  <2> QED BY <2>1, <2>2
<1> QED BY <1>3, <1>4, <1>5 DEF IInv

\* A check fails before anything was applied.
LEMMA RefuseStep ==
    ASSUME IInv, NEW r \in Runs, run[r].pc \notin Syncing, Refuse(r), UNCHANGED <<setup, cp, nameOf, disk>>,
           \A q \in Runs : q /= r => Marked(q)
    PROVE  IInv'
<1> USE Fixed
<1>1. DOMAIN run = Runs /\ DOMAIN run[r] = Fields /\ PathOK(r)
  BY DEF IInv, Shape, RunOK
<1> DEFINE s == [run[r] EXCEPT !.pc = "refused"]
<1>2. /\ DOMAIN s = Fields /\ s.pc = "refused" /\ s.applied = {} /\ s.todo = {} /\ s.receipt = run[r].receipt
  BY <1>1 DEF Fields, PathOK
<1>3. Set(r, s)
  BY <1>1 DEF Refuse, Set
<1> HIDE DEF s
<1>4. ASSUME run'[r] = s PROVE RunOK(r)'
  <2>1. PathOK(r)'
    BY <1>1, <1>2, <1>4 DEF PathOK, Pcs, Syncing
  <2>2. HomeOK(r)' /\ TagsOK(r)' /\ ReviewOK(r)'
    BY <1>2, <1>4 DEF HomeOK, TagsOK, ReviewOK, Syncing
  <2> QED BY <2>1, <2>2 DEF RunOK
<1> QED BY <1>2, <1>3, <1>4, OneRun

\* local_manifest: the target is the configured one.
LEMMA LocalStep ==
    ASSUME IInv, NEW r \in Runs, Local(r)
    PROVE  IInv'
<1> USE Fixed
<1>1. DOMAIN run[r] = Fields /\ PathOK(r) /\ run[r].pc = "local" /\ Gateway \in Gateways /\ disk.manifest \in Manifests
  BY Arguments DEF IInv, Shape, RunOK, Local
<1>2. /\ UNCHANGED <<setup, cp, nameOf, disk, moved, renamed>>
      /\ \A q \in Runs : q /= r => Marked(q)
  BY DEF Local, Marked
<1>3. CASE Refuse(r)
  BY <1>1, <1>2, <1>3, RefuseStep DEF Syncing
<1>4. CASE ~Refuse(r)
  <2> DEFINE s == [run[r] EXCEPT !.pc = IF SyncRuntime(r) THEN "receipt" ELSE "remote",
                                 !.target = disk.manifest[Gateway], !.role = disk.role]
  <2>1. Set(r, s) /\ local_manifest(Stage(r))
    BY <1>4 DEF Local
  <2>2. /\ DOMAIN s = Fields /\ s.pc = (IF SyncRuntime(r) THEN "receipt" ELSE "remote")
        /\ s.target = disk.manifest[Gateway] /\ s.applied = run[r].applied /\ s.todo = run[r].todo
        /\ s.receipt = run[r].receipt
    BY <1>1 DEF Fields
  <2>3. s.target.id \in Planes /\ s.target.name = ConfigName[Gateway]
    BY <1>1, <2>1, <2>2, DeckAssumption DEF local_manifest, validate_targets
  <2> HIDE DEF s
  <2>4. ASSUME run'[r] = s PROVE RunOK(r)'
    <3>1. PathOK(r)'
      BY <1>1, <1>2, <2>2, <2>3, <2>4 DEF PathOK, Pcs, Syncing, SyncRuntime
    <3>2. HomeOK(r)'
      BY <1>1, <1>2, <2>2, <2>4 DEF HomeOK, PathOK, Syncing
    <3>3. TagsOK(r)'
      BY <1>1, <1>2, <2>1, <2>2, <2>4 DEF TagsOK, PathOK, Syncing, local_manifest, validate_foundation_state
    <3>4. ReviewOK(r)'
      BY <1>1, <1>2, <2>2, <2>4 DEF ReviewOK, PathOK, Syncing
    <3> QED BY <3>1, <3>2, <3>3, <3>4 DEF RunOK
  <2> QED BY <1>2, <2>1, <2>2, <2>4, OneRun
<1> QED BY <1>3, <1>4 DEF Local

\* read_migration_approval and read_backend_runtime_approval
LEMMA ReceiptStep ==
    ASSUME IInv, NEW r \in Runs, ReadReceipt(r)
    PROVE  IInv'
<1> USE Fixed
<1>1. DOMAIN run[r] = Fields /\ PathOK(r) /\ run[r].pc = "receipt"
  BY DEF IInv, Shape, RunOK, ReadReceipt
<1>2. /\ UNCHANGED <<setup, cp, nameOf, disk, moved, refiled, renamed>>
      /\ \A q \in Runs : q /= r => Marked(q)
  BY DEF ReadReceipt, Untouched, Marked
<1>3. CASE Refuse(r)
  BY <1>1, <1>2, <1>3, RefuseStep DEF Syncing
<1>4. CASE ~Refuse(r)
  <2> DEFINE s == [run[r] EXCEPT !.pc = "remote", !.receipt = receipt]
  <2>1. Set(r, s) /\ receipt /= None /\ receipt.role = run[r].role
    BY <1>4 DEF ReadReceipt, ReceiptMatches
  <2>2. /\ DOMAIN s = Fields /\ s.pc = "remote" /\ s.receipt = receipt /\ s.role = run[r].role
        /\ s.target = run[r].target /\ s.applied = run[r].applied /\ s.todo = run[r].todo
    BY <1>1 DEF Fields
  <2> HIDE DEF s
  <2>3. ASSUME run'[r] = s PROVE RunOK(r)'
    <3>1. PathOK(r)'
      BY <1>1, <1>2, <2>1, <2>2, <2>3 DEF PathOK, Pcs, Syncing, SyncRuntime
    <3>2. HomeOK(r)' /\ TagsOK(r)' /\ ReviewOK(r)'
      BY <1>1, <1>2, <2>2, <2>3 DEF HomeOK, TagsOK, ReviewOK, PathOK, Syncing, SyncRuntime
    <3> QED BY <3>1, <3>2 DEF RunOK
  <2> QED BY <1>2, <2>1, <2>2, <2>3, OneRun
<1> QED BY <1>3, <1>4

\* verify_remote_target: the Control Plane with the target's id has its name.
LEMMA RemoteStep ==
    ASSUME IInv, NEW r \in Runs, Remote(r)
    PROVE  IInv'
<1> USE Fixed
<1>1. DOMAIN run[r] = Fields /\ PathOK(r) /\ TagsOK(r) /\ run[r].pc = "remote"
  BY DEF IInv, Shape, RunOK, Remote
<1>2. /\ UNCHANGED <<setup, cp, nameOf, disk, moved, refiled>>
      /\ \A q \in Runs : q /= r => Marked(q)
  BY DEF Remote, Marked
<1>3. CASE Refuse(r)
  BY <1>1, <1>2, <1>3, RefuseStep DEF Syncing
<1>4. CASE ~Refuse(r)
  <2> DEFINE pc == IF Mode(r) = "diff" \/ SyncRuntime(r) THEN "diff" ELSE "sync"
             s == [run[r] EXCEPT !.pc = pc]
  <2>1. Set(r, s) /\ nameOf[run[r].target.id] = run[r].target.name
    BY <1>4 DEF Remote, verify_remote_target
  <2>2. /\ DOMAIN s = Fields /\ s.pc = pc /\ s.receipt = run[r].receipt /\ s.role = run[r].role
        /\ s.target = run[r].target /\ s.applied = run[r].applied /\ s.todo = run[r].todo
    BY <1>1 DEF Fields
  <2>3. pc \in {"diff", "sync"} /\ (pc = "sync" => Mode(r) = "sync" /\ ~SyncRuntime(r))
        /\ (pc = "diff" => Mode(r) = "diff" \/ SyncRuntime(r))
    BY Arguments DEF IInv
  <2> HIDE DEF s, pc
  <2>4. ASSUME run'[r] = s PROVE RunOK(r)'
    <3>1. PathOK(r)'
      BY <1>1, <1>2, <2>2, <2>3, <2>4 DEF PathOK, Pcs, Syncing
    <3>2. HomeOK(r)'
      BY <1>1, <1>2, <2>1, <2>2, <2>3, <2>4 DEF HomeOK, PathOK, Syncing
    <3>3. TagsOK(r)'
      BY <1>1, <1>2, <2>2, <2>3, <2>4 DEF TagsOK
    <3>4. ReviewOK(r)'
      BY <1>1, <1>2, <2>2, <2>3, <2>4 DEF ReviewOK, PathOK, Syncing
    <3> QED BY <3>1, <3>2, <3>3, <3>4 DEF RunOK
  <2> QED BY <1>2, <2>1, <2>2, <2>4, OneRun
<1> QED BY <1>3, <1>4 DEF Remote

\* The fresh diff equals the reviewed one: everything left to do is reviewed.
LEMMA PreSyncStep ==
    ASSUME IInv, NEW r \in Runs, PreSyncDiff(r)
    PROVE  IInv'
<1> USE Fixed
<1>1. DOMAIN run[r] = Fields /\ RunOK(r) /\ run[r].pc = "diff" /\ Mode(r) = "sync" /\ Gateway \in Gateways
  BY Arguments DEF IInv, Shape, PreSyncDiff
<1>2. /\ UNCHANGED <<setup, cp, nameOf, disk, renamed>>
      /\ refiled \subseteq refiled' /\ (r \notin refiled' => disk.file = run[r].receipt.file)
      /\ \A q \in Runs : q /= r => Marked(q)
  BY DEF PreSyncDiff, Marked
<1> DEFINE ops == DiffOf(Gateway, cp[PlaneNamed(nameOf, run[r].target.name)], Inputs(r), "runtime")
           s == [run[r] EXCEPT !.pc = "again"]
<1>3. Refuse(r) \/ (ops = run[r].receipt.ops /\ Set(r, s))
  <2>1. Diff(cp[PlaneNow(r)], Inputs(r), "runtime") = ops
    BY DiffIs DEF PlaneNow, PlaneNamed, Stages
  <2> QED BY <2>1 DEF PreSyncDiff, DiffAgrees, SameReview
<1>4. CASE Refuse(r)
  BY <1>1, <1>2, <1>4, RefuseStep DEF Syncing
<1>5. CASE ops = run[r].receipt.ops /\ Set(r, s)
  <2>1. /\ DOMAIN s = Fields /\ s.pc = "again" /\ s.receipt = run[r].receipt /\ s.role = run[r].role
        /\ s.target = run[r].target /\ s.applied = run[r].applied /\ s.todo = run[r].todo
    BY <1>1 DEF Fields
  <2>2. SyncRuntime(r)
    BY <1>1 DEF RunOK, PathOK
  <2>3. disk.file = run[r].receipt.file =>
            /\ ops = Left(run[r].receipt, PlaneNamed(nameOf, run[r].target.name))
            /\ \A o \in ops : Fits(Gateway, Reviewed(run[r].receipt), o)
    <3> SUFFICES ASSUME disk.file = run[r].receipt.file
                 PROVE  /\ ops = Left(run[r].receipt, PlaneNamed(nameOf, run[r].target.name))
                        /\ \A o \in ops : Fits(Gateway, Reviewed(run[r].receipt), o)
      OBVIOUS
    <3>1. Inputs(r).file = Reviewed(run[r].receipt).file /\ Inputs(r).role = Reviewed(run[r].receipt).role
      BY <1>1, <2>2 DEF Inputs, Reviewed, RunOK, PathOK, IInv, Shape
    <3>2. ops = Left(run[r].receipt, PlaneNamed(nameOf, run[r].target.name))
      BY <3>1, SameInputs DEF Left
    <3> QED BY <1>1, <3>2, DiffFits DEF Left
  <2> HIDE DEF s, ops
  <2>4. ASSUME run'[r] = s PROVE RunOK(r)'
    <3>1. TagsOK(r)'
      BY <1>2, <2>2 DEF TagsOK, SyncRuntime
    <3>2. PathOK(r)'
      BY <1>1, <1>2, <2>1, <2>2, <2>4 DEF RunOK, PathOK, Pcs, Syncing
    <3>3. HomeOK(r)'
      BY <1>1, <1>2, <2>1, <2>4 DEF RunOK, HomeOK, PathOK, Syncing
    <3>4. ReviewOK(r)'
      BY <1>1, <1>2, <1>5, <2>1, <2>3, <2>4 DEF RunOK, ReviewOK, Left, PathOK, Syncing
    <3> QED BY <3>1, <3>2, <3>3, <3>4 DEF RunOK
  <2> QED BY <1>2, <1>5, <2>1, <2>4, OneRun
<1> QED BY <1>3, <1>4, <1>5

\* The inputs are read once more.
LEMMA AgainStep ==
    ASSUME IInv, NEW r \in Runs, ReadAgain(r)
    PROVE  IInv'
<1> USE Fixed
<1>1. DOMAIN run[r] = Fields /\ RunOK(r) /\ run[r].pc = "again"
  BY DEF IInv, Shape, ReadAgain
<1>2. /\ UNCHANGED <<setup, cp, nameOf, disk, moved, refiled, renamed>>
      /\ \A q \in Runs : q /= r => Marked(q)
  BY DEF ReadAgain, Untouched, Marked
<1>3. CASE Refuse(r)
  BY <1>1, <1>2, <1>3, RefuseStep DEF Syncing
<1>4. CASE ~Refuse(r)
  <2> DEFINE s == [run[r] EXCEPT !.pc = "sync"]
  <2>1. Set(r, s) /\ disk.file = run[r].receipt.file
    BY <1>4 DEF ReadAgain, InputsAgain
  <2>2. /\ DOMAIN s = Fields /\ s.pc = "sync" /\ s.receipt = run[r].receipt /\ s.role = run[r].role
        /\ s.target = run[r].target /\ s.applied = run[r].applied /\ s.todo = run[r].todo
    BY <1>1 DEF Fields
  <2> HIDE DEF s
  <2>3. ASSUME run'[r] = s PROVE RunOK(r)'
    <3>1. TagsOK(r)'
      BY <1>1, <1>2 DEF TagsOK, RunOK, PathOK, SyncRuntime
    <3>2. PathOK(r)'
      BY <1>1, <1>2, <2>2, <2>3 DEF RunOK, PathOK, Pcs, Syncing, SyncRuntime
    <3>3. HomeOK(r)'
      BY <1>1, <1>2, <2>2, <2>3 DEF RunOK, HomeOK, PathOK, Syncing
    <3>4. ReviewOK(r)'
      BY <1>1, <1>2, <2>1, <2>2, <2>3 DEF RunOK, ReviewOK, Left, PathOK, Syncing
    <3> QED BY <3>1, <3>2, <3>3, <3>4 DEF RunOK
  <2> QED BY <1>2, <2>1, <2>2, <2>3, OneRun
<1> QED BY <1>3, <1>4

\* decK computes its own operations, on the Control Plane that has the name now.
LEMMA StartStep ==
    ASSUME IInv, NEW r \in Runs, StartSync(r)
    PROVE  IInv'
<1> USE Fixed
<1>1. DOMAIN run[r] = Fields /\ RunOK(r) /\ run[r].pc = "sync" /\ Stage(r) \in {"foundation", "runtime"}
  BY Arguments DEF IInv, Shape, StartSync
<1>2. /\ UNCHANGED <<setup, cp, nameOf, disk, moved, refiled, renamed>>
      /\ \A q \in Runs : q /= r => Marked(q)
  BY DEF StartSync, Untouched, Marked
<1> DEFINE p == PlaneNamed(nameOf, run[r].target.name)
           ops == DiffOf(Gateway, cp[p], Inputs(r), Stage(r))
           s == [run[r] EXCEPT !.pc = "apply", !.plane = p, !.todo = ops]
<1>3. Set(r, s)
  <2>1. PlaneNow(r) = p
    BY DEF PlaneNow, PlaneNamed
  <2>2. Diff(cp[PlaneNow(r)], Inputs(r), Stage(r)) = ops
    BY <1>1, <2>1, DiffIs DEF Stages
  <2> QED BY <2>1, <2>2 DEF StartSync
<1>4. /\ DOMAIN s = Fields /\ s.pc = "apply" /\ s.receipt = run[r].receipt /\ s.role = run[r].role
      /\ s.target = run[r].target /\ s.applied = {} /\ s.todo = ops /\ s.plane = p
  BY <1>1 DEF Fields, RunOK, PathOK, Syncing
<1>5. run[r].target.id \in Planes /\ run[r].target.name = ConfigName[Gateway]
  BY <1>1 DEF RunOK, PathOK
<1>6. p \in Planes /\ nameOf[p] = run[r].target.name
  BY <1>5 DEF IInv, Named, PlaneNamed
<1>7. r \notin renamed => p = run[r].target.id
  BY <1>1, <1>5, <1>6 DEF IInv, Named, RunOK, HomeOK
<1>8. Stage(r) = "foundation" /\ r \notin refiled => \A o \in ops : o.e \in Foundation
  <2> SUFFICES ASSUME Stage(r) = "foundation", r \notin refiled PROVE \A o \in ops : o.e \in Foundation
    OBVIOUS
  <2>1. Inputs(r).foundation = "pinned"
    BY <1>1 DEF RunOK, TagsOK, Inputs, IInv, Shape
  <2> QED BY <2>1, FoundationDiff DEF Foundation, Gateway
<1> HIDE DEF s, p
<1>9. ASSUME run'[r] = s PROVE RunOK(r)'
  <2>1. TagsOK(r)'
    BY <1>2, <1>4, <1>8, <1>9 DEF TagsOK
  <2>2. PathOK(r)'
    BY <1>1, <1>2, <1>4, <1>9 DEF RunOK, PathOK, Pcs, Syncing
  <2>3. HomeOK(r)'
    BY <1>1, <1>2, <1>4, <1>6, <1>7, <1>9 DEF RunOK, HomeOK, Syncing
  <2>4. ReviewOK(r)'
    <3>1. SyncRuntime(r) => Stage(r) = "runtime"
      BY DEF SyncRuntime
    <3>2. SyncRuntime(r) /\ r \notin moved \cup refiled => ops = Left(run[r].receipt, p)
      <4> SUFFICES ASSUME SyncRuntime(r), r \notin moved \cup refiled PROVE ops = Left(run[r].receipt, p)
        OBVIOUS
      <4>1. Inputs(r).file = Reviewed(run[r].receipt).file /\ Inputs(r).role = Reviewed(run[r].receipt).role
        BY <1>1 DEF Inputs, Reviewed, RunOK, PathOK, ReviewOK, IInv, Shape
      <4> QED BY <3>1, <4>1, SameInputs DEF Left
    <3> HIDE DEF ops
    <3>3. SyncRuntime(r) /\ r \notin moved \cup refiled => ops \subseteq run[r].receipt.ops
      BY <1>1, <3>2 DEF RunOK, ReviewOK, p
    <3> QED BY <1>1, <1>2, <1>4, <1>9, <3>2, <3>3 DEF RunOK, ReviewOK, Left
  <2> QED BY <2>1, <2>2, <2>3, <2>4 DEF RunOK
<1> QED BY <1>2, <1>3, <1>4, <1>9, OneRun

\* decK ends, with or without an error.
LEMMA EndStep ==
    ASSUME IInv, NEW r \in Runs, StopsHalfway(r) \/ Completed(r)
    PROVE  IInv'
<1> USE Fixed
<1>1. DOMAIN run[r] = Fields /\ RunOK(r) /\ run[r].pc = "apply"
  BY DEF IInv, Shape, StopsHalfway, Completed
<1>2. /\ UNCHANGED <<setup, cp, nameOf, disk, moved, refiled, renamed>>
      /\ \A q \in Runs : q /= r => Marked(q)
  BY DEF StopsHalfway, Completed, Untouched, Marked
<1>3. PICK pc \in {"unknown", "done"} : Set(r, [run[r] EXCEPT !.pc = pc]) /\ (pc = "done" => run[r].todo = {})
  BY DEF StopsHalfway, Completed
<1> DEFINE s == [run[r] EXCEPT !.pc = pc]
<1>4. /\ DOMAIN s = Fields /\ s.pc = pc /\ s.receipt = run[r].receipt /\ s.role = run[r].role
      /\ s.target = run[r].target /\ s.applied = run[r].applied /\ s.todo = run[r].todo /\ s.plane = run[r].plane
  BY <1>1 DEF Fields
<1> HIDE DEF s
<1>5. ASSUME run'[r] = s PROVE RunOK(r)'
  <2>1. TagsOK(r)'
    BY <1>1, <1>2, <1>3, <1>4, <1>5 DEF RunOK, TagsOK
  <2>2. PathOK(r)'
    BY <1>1, <1>2, <1>3, <1>4, <1>5 DEF RunOK, PathOK, Pcs, Syncing
  <2>3. HomeOK(r)'
    BY <1>1, <1>2, <1>3, <1>4, <1>5 DEF RunOK, HomeOK, Syncing
  <2>4. ReviewOK(r)'
    BY <1>1, <1>2, <1>3, <1>4, <1>5 DEF RunOK, ReviewOK, Left
  <2> QED BY <2>1, <2>2, <2>3, <2>4 DEF RunOK
<1> QED BY <1>2, <1>3, <1>4, <1>5, OneRun DEF s

\* The read-only diff, its print, and the operator's restart
LEMMA OtherSteps ==
    ASSUME IInv, NEW r \in Runs, RuntimeDiff(r) \/ PrintReview(r) \/ Restart(r)
    PROVE  IInv'
<1> USE Fixed
<1>1. DOMAIN run[r] = Fields /\ RunOK(r) /\ DOMAIN Idle = Fields
  BY DEF IInv, Shape, Idle, Fields
<1>2. /\ UNCHANGED <<setup, cp, nameOf, disk, moved, refiled, renamed>>
      /\ \A q \in Runs : q /= r => Marked(q)
  BY DEF RuntimeDiff, PrintReview, Restart, Untouched, Marked
<1>3. CASE RuntimeDiff(r) /\ Refuse(r)
  <2>1. run[r].pc \notin Syncing
    BY <1>3 DEF RuntimeDiff, Syncing
  <2> QED BY <1>2, <1>3, <2>1, RefuseStep
<1>4. CASE RuntimeDiff(r) /\ ~Refuse(r)
  <2> DEFINE ops == Diff(cp[PlaneNow(r)], Inputs(r), "runtime")
             s == [run[r] EXCEPT !.pc = "print", !.diff = ops]
  <2>1. Set(r, s) /\ run[r].pc = "diff" /\ Mode(r) = "diff"
    BY <1>4 DEF RuntimeDiff
  <2> HIDE DEF ops
  <2>2. /\ DOMAIN s = Fields /\ s.pc = "print" /\ s.receipt = run[r].receipt
        /\ s.target = run[r].target /\ s.applied = run[r].applied /\ s.todo = run[r].todo
    BY <1>1 DEF Fields
  <2> HIDE DEF s
  <2>3. ASSUME run'[r] = s PROVE RunOK(r)'
    BY <1>1, <1>2, <2>1, <2>2, <2>3 DEF RunOK, PathOK, HomeOK, TagsOK, ReviewOK, Pcs, Syncing, SyncRuntime
  <2> QED BY <1>2, <2>1, <2>2, <2>3, OneRun
<1>5. CASE PrintReview(r)
  <2> DEFINE rc == [target |-> run[r].target, file |-> disk.file, role |-> run[r].role,
                    ops |-> run[r].diff, plan |-> None]
             s == [run[r] EXCEPT !.pc = "printed", !.receipt = rc]
  <2>1. Set(r, s) /\ run[r].pc = "print"
    BY <1>5 DEF PrintReview
  <2> HIDE DEF rc
  <2>2. /\ DOMAIN s = Fields /\ s.pc = "printed"
        /\ s.target = run[r].target /\ s.applied = run[r].applied /\ s.todo = run[r].todo
    BY <1>1 DEF Fields
  <2> HIDE DEF s
  <2>3. Mode(r) = "diff"
    BY <1>1, <2>1 DEF RunOK, PathOK
  <2>4. ASSUME run'[r] = s PROVE RunOK(r)'
    BY <1>1, <1>2, <2>1, <2>2, <2>3, <2>4 DEF RunOK, PathOK, HomeOK, TagsOK, ReviewOK, Pcs, Syncing, SyncRuntime
  <2> QED BY <1>2, <2>1, <2>2, <2>4, OneRun
<1>6. CASE Restart(r)
  <2>1. Set(r, Idle)
    BY <1>6 DEF Restart
  <2>2. ASSUME run'[r] = Idle PROVE RunOK(r)'
    BY <1>2, <2>2 DEF RunOK, PathOK, HomeOK, TagsOK, ReviewOK, Pcs, Syncing, Idle
  <2> QED BY <1>1, <1>2, <2>1, <2>2, OneRun
<1> QED BY <1>3, <1>4, <1>5, <1>6
-----------------------------------------------------------------------------
(* Writes to a Control Plane.                                                 *)

\* A write that fits the inputs of execution q leaves q no more to do than before,
\* on whichever Control Plane p it looks.
LEMMA WriteShrinks ==
    ASSUME IInv, NEW d, NEW o, Fits(Gateway, d, o), NEW w \in Planes, NEW p \in Planes,
           cp'[p] = IF w = p THEN Overwritten(cp[p], o) ELSE cp[p]
    PROVE  /\ DiffOf(Gateway, cp'[p], d, "runtime") \subseteq DiffOf(Gateway, cp[p], d, "runtime")
           /\ w = p => \A x \in DiffOf(Gateway, cp'[p], d, "runtime") : x.e /= o.e
<1>1. Gateway \in Gateways /\ DOMAIN cp = Planes /\ DOMAIN cp[p] = States[Gateway].entities
  BY Arguments DEF IInv, Shape, Entities
<1>2. CASE w /= p
  BY <1>1, <1>2
<1>3. CASE w = p
  <2>1. cp'[p] = Overwritten(cp[p], o)
    BY <1>3
  <2>2. \A x \in DiffOf(Gateway, cp'[p], d, "runtime") :
            x \in DiffOf(Gateway, cp[p], d, "runtime") /\ x.e /= o.e
    BY <1>1, <2>1, DiffShrinks
  <2> QED BY <2>2
<1> QED BY <1>2, <1>3

LEMMA ApplyStep ==
    ASSUME IInv, NEW r \in Runs, ApplyOne(r)
    PROVE  IInv'
<1> USE Fixed
<1>1. /\ DOMAIN run = Runs /\ \A q \in Runs : DOMAIN run[q] = Fields /\ RunOK(q)
      /\ run[r].pc = "apply" /\ run[r].plane \in Planes
  BY DEF IInv, Shape, ApplyOne, RunOK, HomeOK, Syncing
<1>2. UNCHANGED <<setup, nameOf, disk, receipt, edits, refiled, renamed>> /\ moved' = moved \cup Others(r)
  BY DEF ApplyOne
<1>3. PICK o \in run[r].todo :
        /\ cp' = [cp EXCEPT ![run[r].plane][o.e] = WrittenBody(o)]
        /\ Set(r, [run[r] EXCEPT !.todo = @ \ {o}, !.applied = @ \cup {o}])
  BY DEF ApplyOne, Ready
<1> DEFINE s == [run[r] EXCEPT !.todo = run[r].todo \ {o}, !.applied = run[r].applied \cup {o}]
<1>4. /\ DOMAIN s = Fields /\ s.pc = "apply" /\ s.receipt = run[r].receipt /\ s.role = run[r].role
      /\ s.target = run[r].target /\ s.applied = run[r].applied \cup {o} /\ s.todo = run[r].todo \ {o}
      /\ s.plane = run[r].plane
  BY <1>1 DEF Fields
<1>5. run'[r] = s /\ DOMAIN run' = Runs /\ \A q \in Runs : q /= r => run'[q] = run[q]
  BY <1>1, <1>3 DEF Set
<1> HIDE DEF s
<1>6. Shape'
  <2>1. DOMAIN cp' = Planes /\ \A p \in Planes : DOMAIN cp'[p] = Entities
    BY <1>3 DEF IInv, Shape
  <2> QED BY <1>1, <1>2, <1>4, <1>5, <2>1 DEF IInv, Shape
<1>7. Named'
  BY <1>2 DEF IInv, Named
<1>10. \A p \in Planes : cp'[p] = IF run[r].plane = p THEN Overwritten(cp[p], o) ELSE cp[p]
  BY <1>1, <1>3 DEF IInv, Shape, Overwritten
\* An execution that others have not disturbed and that the write leaves undisturbed
\* follows the same review.
<1>8. ASSUME NEW q \in Runs, SyncRuntime(q), q \notin moved' \cup refiled, run[q].pc \in {"again", "sync", "apply", "done"}
      PROVE  Fits(Gateway, Reviewed(run[q].receipt), o)
  <2>1. run[q].receipt = run[r].receipt /\ r \notin moved \cup refiled /\ q \notin moved \cup refiled
    BY <1>2, <1>8 DEF Others, Checked
  <2>2. SyncRuntime(r)
    <3>1. run[q].receipt /= None
      BY <1>1, <1>8 DEF RunOK, PathOK
    <3>2. Mode(r) = "sync"
      BY <1>1 DEF RunOK, PathOK, Syncing
    <3> QED BY <1>1, <2>1, <3>1, <3>2, Arguments DEF IInv, RunOK, PathOK, SyncRuntime
  <2>3. o \in run[r].receipt.ops
    BY <1>1, <1>3, <2>1, <2>2 DEF RunOK, ReviewOK
  <2> QED BY <1>1, <1>8, <2>1, <2>3 DEF RunOK, ReviewOK
<1>9. ASSUME NEW q \in Runs PROVE RunOK(q)'
  <2>1. TagsOK(q)'
    <3>1. CASE q = r
      BY <1>1, <1>2, <1>3, <1>4, <1>5, <3>1 DEF RunOK, TagsOK
    <3>2. CASE q /= r
      BY <1>1, <1>2, <1>5, <3>2 DEF RunOK, TagsOK
    <3> QED BY <3>1, <3>2
  <2>2. PathOK(q)'
    <3>1. CASE q = r
      BY <1>1, <1>2, <1>4, <1>5, <3>1 DEF RunOK, PathOK, Syncing
    <3>2. CASE q /= r
      BY <1>1, <1>2, <1>5, <3>2 DEF RunOK, PathOK
    <3> QED BY <3>1, <3>2
  <2>3. HomeOK(q)'
    <3>1. CASE q = r
      <4>1. HomeOK(r)
        BY <1>1 DEF RunOK
      <4> QED BY <1>1, <1>2, <1>4, <1>5, <3>1, <4>1 DEF HomeOK
    <3>2. CASE q /= r
      BY <1>1, <1>2, <1>5, <3>2 DEF RunOK, HomeOK
    <3> QED BY <3>1, <3>2
  <2>4. ReviewOK(q)'
    <3> SUFFICES ASSUME SyncRuntime(q), q \notin moved' \cup refiled PROVE ReviewOK(q)'
      BY <1>2 DEF ReviewOK, Left
    <3>1. q \notin moved \cup refiled /\ ReviewOK(q) /\ PathOK(q) /\ HomeOK(q)
      BY <1>1, <1>2 DEF RunOK
    <3>2. CASE run[q].pc \in {"again", "sync"}
      <4> DEFINE p == PlaneNamed(nameOf, run[q].target.name)
      <4>1. p \in Planes
        BY <3>1, <3>2 DEF PathOK, IInv, Named, PlaneNamed
      <4>2. q /= r /\ run'[q] = run[q]
        BY <1>1, <1>5, <3>2
      <4> HIDE DEF p
      <4>3. DiffOf(Gateway, cp'[p], Reviewed(run[q].receipt), "runtime") \subseteq DiffOf(Gateway, cp[p], Reviewed(run[q].receipt), "runtime")
        <5>1. Fits(Gateway, Reviewed(run[q].receipt), o)
          BY <1>8, <3>2
        <5> QED BY <1>1, <1>10, <4>1, <5>1, WriteShrinks
      <4> QED BY <1>2, <3>1, <3>2, <4>2, <4>3 DEF ReviewOK, Left, p
    <3>3. CASE run[q].pc \in {"apply", "done"}
      <4> DEFINE p == run[q].plane
      <4>1. p \in Planes
        BY <3>1, <3>3 DEF HomeOK, Syncing
      <4>2. /\ DiffOf(Gateway, cp'[p], Reviewed(run[q].receipt), "runtime") \subseteq DiffOf(Gateway, cp[p], Reviewed(run[q].receipt), "runtime")
            /\ q = r => \A x \in DiffOf(Gateway, cp'[p], Reviewed(run[q].receipt), "runtime") : x.e /= o.e
        <5>1. Fits(Gateway, Reviewed(run[q].receipt), o)
          BY <1>8, <3>3
        <5>2. run[r].plane \in Planes /\ (q = r => run[r].plane = p)
          BY <1>1
        <5> HIDE DEF p
        <5> QED BY <1>10, <4>1, <5>1, <5>2, WriteShrinks
      <4>3. CASE q = r
        BY <1>2, <1>3, <1>4, <1>5, <3>1, <3>3, <4>2, <4>3 DEF ReviewOK, Left
      <4>4. CASE q /= r
        BY <1>2, <1>5, <3>1, <3>3, <4>2, <4>4 DEF ReviewOK, Left
      <4> QED BY <4>3, <4>4
    <3>4. CASE run[q].pc \notin {"again", "sync", "apply", "done"}
      BY <1>1, <1>2, <1>5, <3>1, <3>4 DEF ReviewOK, Left
    <3> QED BY <3>2, <3>3, <3>4
  <2> QED BY <2>1, <2>2, <2>3, <2>4 DEF RunOK
<1> QED BY <1>2, <1>6, <1>7, <1>9 DEF IInv

\* A reviewer writes a receipt: no execution has read it yet.
LEMMA ReviewStep ==
    ASSUME IInv, Review
    PROVE  IInv'
<1> USE Fixed
<1>1. UNCHANGED <<setup, cp, nameOf, disk, run, moved, refiled, renamed>> /\ \A q \in Runs : Marked(q)
  BY DEF Review, Marked
<1>2. Shape' /\ Named'
  BY <1>1 DEF IInv, Shape, Named
<1>3. \A q \in Runs : RunOK(q)'
  BY <1>1, SameRun
<1> QED BY <1>1, <1>2, <1>3 DEF IInv

\* Others change a Control Plane, an input or the names: every execution whose
\* comparison, last reading of the file or check of the name lies behind is marked.
LEMMA EditStep ==
    ASSUME IInv, Edit
    PROVE  IInv'
<1> USE Fixed
<1>1. UNCHANGED <<setup, receipt, run>> /\ moved \subseteq moved' /\ refiled \subseteq refiled'
  BY DEF Edit, EditDisk, Rename, EditPlane, Outside
<1>2. Shape'
  <2>1. CASE EditDisk
    <3>1. DOMAIN disk' = {"foundation", "file", "role", "manifest"} /\ disk'.manifest \in Manifests
      BY <2>1 DEF EditDisk, IInv, Shape
    <3> QED BY <1>1, <2>1, <3>1 DEF EditDisk, IInv, Shape
  <2>2. CASE Rename
    BY <1>1, <2>2 DEF Rename, IInv, Shape
  <2>3. CASE \E e \in Entities, b \in {None, "foreign"} : EditPlane(GoodManifest[Gateway].id, e, b)
    BY <1>1, <2>3 DEF EditPlane, IInv, Shape
  <2> QED BY <2>1, <2>2, <2>3 DEF Edit
<1>3. Named'
  <2>1. CASE Rename
    <3>1. PICK p, q \in Planes : p /= q /\ nameOf' = [nameOf EXCEPT ![p] = nameOf[q], ![q] = nameOf[p]]
      BY <2>1 DEF Rename
    <3>2. /\ nameOf' \in [Planes -> Names] /\ nameOf'[p] = nameOf[q] /\ nameOf'[q] = nameOf[p]
          /\ \A x \in Planes : x /= p /\ x /= q => nameOf'[x] = nameOf[x]
      BY <3>1 DEF IInv, Named
    <3>3. \A x, y \in Planes : nameOf'[x] = nameOf'[y] => x = y
      BY <3>1, <3>2 DEF IInv, Named
    <3>4. \E x \in Planes : nameOf'[x] = ConfigName[Gateway]
      BY <3>1, <3>2 DEF IInv, Named
    <3> QED BY <1>1, <3>2, <3>3, <3>4 DEF Named
  <2>2. CASE ~Rename
    BY <1>1, <2>2 DEF Edit, EditDisk, EditPlane, IInv, Named
  <2> QED BY <2>1, <2>2
<1>4. ASSUME NEW q \in Runs PROVE RunOK(q)'
  <2>1. RunOK(q)
    BY DEF IInv
  <2>2. PathOK(q)'
    BY <1>1, <2>1 DEF RunOK, PathOK
  <2>3. HomeOK(q)'
    <3>1. UNCHANGED <<nameOf, renamed>> \/ renamed' = Runs
      BY DEF Edit, EditDisk, EditPlane, Rename
    <3> QED BY <1>1, <2>1, <3>1 DEF RunOK, HomeOK
  <2>4. CASE EditDisk
    <3>1. /\ UNCHANGED <<cp, nameOf, moved>>
          /\ q \notin refiled' /\ FileWindow(q) => Content(disk', Stage(q)) = Content(disk, Stage(q))
      BY <2>4 DEF EditDisk
    <3>2. TagsOK(q)'
      BY <1>1, <2>1, <3>1 DEF RunOK, TagsOK, FileWindow, Content
    <3>3. SyncRuntime(q) => Stage(q) = "runtime"
      BY DEF SyncRuntime
    <3>4. SyncRuntime(q) /\ run[q].pc = "sync" /\ q \notin refiled' => disk'.file = disk.file
      BY <3>1, <3>3 DEF FileWindow, Content
    <3>5. ReviewOK(q)'
      BY <1>1, <2>1, <3>1, <3>4 DEF RunOK, ReviewOK, Left
    <3> QED BY <2>2, <2>3, <3>2, <3>5 DEF RunOK
  <2>5. CASE ~EditDisk
    <3>1. UNCHANGED <<disk, refiled>> /\ moved' = moved \cup Checked
      BY <2>5 DEF Edit, Rename, EditPlane
    <3>2. TagsOK(q)'
      BY <1>1, <2>1, <3>1 DEF RunOK, TagsOK
    <3>3. ReviewOK(q)'
      BY <1>1, <2>1, <3>1 DEF RunOK, ReviewOK, Checked
    <3> QED BY <2>2, <2>3, <3>2, <3>3 DEF RunOK
  <2> QED BY <2>4, <2>5
<1> QED BY <1>1, <1>2, <1>3, <1>4 DEF IInv
-----------------------------------------------------------------------------
LEMMA InitIInv == Init => IInv
<1> SUFFICES ASSUME Init PROVE IInv
  OBVIOUS
<1>1. \A r \in Runs : run[r] = Idle
  BY DEF Init
<1>2. Shape
  BY <1>1, DeckAssumption DEF Init, Shape, Idle, Fields, Entities, Gateway
<1>3. Named
  <2>1. Gateway \in Gateways /\ GoodManifest[Gateway].id \in Planes
    BY <1>2, Arguments, DeckAssumption
  <2> QED BY <2>1, DeckAssumption DEF Init, Named
<1>4. \A r \in Runs : RunOK(r)
  BY <1>1 DEF RunOK, PathOK, HomeOK, TagsOK, ReviewOK, Idle, Pcs, Syncing
<1> QED BY <1>2, <1>3, <1>4 DEF IInv

LEMMA NextIInv == IInv /\ [Next]_vars => IInv'
<1> SUFFICES ASSUME IInv, [Next]_vars PROVE IInv'
  OBVIOUS
<1>1. CASE UNCHANGED vars
  <2>1. UNCHANGED <<setup, cp, nameOf, disk, run, moved, refiled, renamed>> /\ \A q \in Runs : Marked(q)
    BY <1>1 DEF vars, Marked
  <2>2. Shape' /\ Named' /\ Runs' = Runs
    BY <2>1, Fixed DEF IInv, Shape, Named
  <2>3. \A q \in Runs : RunOK(q)'
    BY <2>1, SameRun
  <2> QED BY <2>2, <2>3 DEF IInv
<1>2. CASE Next
  BY <1>2, LocalStep, ReceiptStep, RemoteStep, PreSyncStep, AgainStep, StartStep, ApplyStep, EndStep,
     OtherSteps, ReviewStep, EditStep DEF Next, Step
<1> QED BY <1>1, <1>2

\* Every execution of run-deck.py passes the checks of main in their order with
\* the configured target, writes where verify_remote_target looked unless a
\* Control Plane was renamed since, hands decK the files it validated unless they
\* were changed in between, and, until others interfere, has nothing left to do
\* that the receipt it compared does not cover.
THEOREM DeckInvariant == Spec => []IInv
<1> QED BY InitIInv, NextIInv, PTL DEF Spec

\* run-deck.py applies an operation no reviewer saw only if somebody changed the
\* Control Plane after the fresh diff was compared (SameReview in PreSyncDiff), or
\* the file after it was hashed again (InputsAgain) or only during the comparison.
THEOREM ReviewIsKept == Spec => []WithinReview
<1>1. IInv => WithinReview
  BY DEF IInv, RunOK, ReviewOK, WithinReview, Beyond
<1> QED BY DeckInvariant, <1>1, PTL

\* "deck gateway sync" that reports completion, undisturbed, has left nothing to do
\* for the state file and the role inputs that were reviewed.
THEOREM CompletionIsExact == Spec => []CompletedIsExact
<1>1. IInv => CompletedIsExact
  <2> SUFFICES ASSUME IInv, NEW r \in Runs, SyncRuntime(r), run[r].pc = "done", r \notin moved \cup refiled
               PROVE  Diff(cp[run[r].plane], Reviewed(run[r].receipt), "runtime") = {}
    BY DEF CompletedIsExact
  <2>1. DiffOf(Gateway, cp[run[r].plane], Reviewed(run[r].receipt), "runtime") \subseteq {}
    BY DEF IInv, RunOK, ReviewOK, Left
  <2> QED BY <2>1, DiffIs DEF Stages
<1> QED BY DeckInvariant, <1>1, PTL

\* verify_remote_target looks a Control Plane up by id and decK by name: both find
\* the same one unless the names changed in between.
THEOREM TargetIsKept == Spec => []WritesAtHome
<1>1. IInv => WritesAtHome
  <2> SUFFICES ASSUME IInv, NEW r \in Runs, run[r].applied /= {}
               PROVE  /\ run[r].plane /= run[r].target.id => r \in renamed
                      /\ nameOf = GoodNames /\ r \notin renamed => run[r].plane = GoodManifest[Gateway].id
    BY DEF WritesAtHome
  <2>1. RunOK(r) /\ run[r].pc \in Syncing
    BY DEF IInv, RunOK, PathOK
  <2>2. run[r].plane \in Planes /\ (r \notin renamed => run[r].plane = run[r].target.id)
    BY <2>1 DEF RunOK, HomeOK
  <2>3. r \notin renamed => nameOf[run[r].plane] = ConfigName[Gateway]
    BY <2>1, <2>2 DEF RunOK, HomeOK, PathOK, Syncing
  <2>4. GoodNames[GoodManifest[Gateway].id] = ConfigName[Gateway] /\ GoodManifest[Gateway].id \in Planes
    BY Arguments, DeckAssumption DEF IInv
  <2> QED BY <2>2, <2>3, <2>4, DeckAssumption
<1> QED BY DeckInvariant, <1>1, PTL

\* A foundation sync stays within the entities that the validated select_tags cover
\* (validate_foundation_state), whatever the file held before local_manifest read
\* it, unless it was changed between that reading and decK's.
THEOREM FoundationIsKept == Spec => []FoundationOnly
<1>1. IInv => FoundationOnly
  BY DEF IInv, RunOK, TagsOK, FoundationOnly
<1> QED BY DeckInvariant, <1>1, PTL
=============================================================================
