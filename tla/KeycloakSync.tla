---------------------------- MODULE KeycloakSync ----------------------------
(* scripts/sync-keycloak-demo-data.py: it plans from what it reads, writes    *)
(* the plan one request at a time, reads everything again to verify, then     *)
(* rewrites the user profile and the demo users. Several runs, an             *)
(* administrator and requests that fail or time out are interleaved at every  *)
(* request.                                                                   *)
(*                                                                            *)
(* A managed object of the realm has the part the script manages (m) and the  *)
(* part it must leave alone (other, a version number of the administrator's). *)
(* Mapper(c) is the set of mappers of client c, written with one request per  *)
(* mapper in the code and with one here. The managed part of a user is the    *)
(* routing attributes, which are all the script verifies; the names it writes *)
(* beside them are left out.                                                  *)
EXTENDS Integers, Sequences, FiniteSets, Functions

CONSTANTS Runs, Clients, Users,     \* Clients and Users are sequences of names
          InitialStores,            \* realms the script may find
          MaxTries,                 \* range(30) of wait_for_keycloak
          MaxTroubles               \* bound on lost requests, edits and overlapping starts

Provider == <<"provider", "ps256">>
Fields == <<"fields", "realm">>
Policies == <<"policies", "realm">>
Profile == <<"profile", "realm">>
Client(c) == <<"client", c>>
Mapper(c) == <<"mapper", c>>
User(u) == <<"user", u>>
Objects == {Provider, Fields, Policies, Profile}
           \cup {Client(c) : c \in Range(Clients)} \cup {Mapper(c) : c \in Range(Clients)}
           \cup {User(u) : u \in Range(Users)}
Entries == [copies : 0 .. Cardinality(Runs) + MaxTroubles + 1, m : {"desired", "drifted", "foreign"},
            other : Nat, id : Nat]
Absent == [copies |-> 0, m |-> "drifted", other |-> 0, id |-> 0]
\* Realms Keycloak can hold: only components share a name, nothing is left of
\* what does not exist, and a mapper has its client.
Realm(s) ==
    \A o \in Objects :
        /\ o /= Provider => s[o].copies <= 1 /\ s[o].m /= "foreign"
        /\ s[o].copies = 0 => s[o].m = "drifted" /\ s[o].other = 0
        /\ o[1] = "mapper" /\ s[o].copies > 0 => s[Client(o[2])].copies = 1
\* plan_client_sync refuses a desired list that names a client twice.
ASSUME SyncAssumption ==
    /\ Clients \in Seq(STRING) /\ Users \in Seq(STRING) /\ IsInjective(Clients)
    /\ InitialStores \subseteq [Objects -> Entries] /\ \A s \in InitialStores : Realm(s)
    /\ MaxTries \in Nat \ {0} /\ MaxTroubles \in Nat

VARIABLES store,    \* the realm in Keycloak
          run,      \* run[r]: the state of one execution of the script
          late,     \* writes that timed out and may still be carried out
          faults,   \* lost requests and overlapping starts so far
          edits,    \* the administrator's edits so far
          once,     \* history: objects desired since run r began to run or to check
          alone,    \* history: nothing disturbed run r since it began, nor its realm since
          outside,  \* history: the version of other the administrator left
          raced     \* history: objects edited while a planned write was pending
vars == <<store, run, late, faults, edits, once, alone, outside, raced>>

-----------------------------------------------------------------------------
(* The order of the requests in main(): Steps makes the requests ops for each *)
(* name in turn.                                                              *)
Steps(ops, F(_), names) ==
    [i \in 1 .. Len(ops) * Len(names) |->
        [op |-> ops[1 + ((i - 1) % Len(ops))], on |-> {F(names[1 + ((i - 1) \div Len(ops))])}]]
One(op, S) == <<[op |-> op, on |-> S]>>
Planning == One("plan", {Fields, Policies}) \o Steps(<<"plan">>, Client, Clients)
            \o Steps(<<"plan">>, Mapper, Clients) \o One("plan", {Provider})
Applying == One("apply", {Provider}) \o Steps(<<"apply", "created">>, Client, Clients)
            \o Steps(<<"apply">>, Mapper, Clients) \o One("apply", {Fields, Policies})
Checking == Steps(<<"verify">>, Client, Clients) \o Steps(<<"verify">>, Mapper, Clients)
            \o One("verify", {Fields, Policies}) \o One("verify", {Provider})
Ending == One("plan", {Profile}) \o One("apply", {Profile})
          \o Steps(<<"plan", "apply", "verify">>, User, Users)
Program == Planning \o Applying \o Checking \o Ending
\* The last planned write is that of the realm; what follows checks it all.
LastPlanned == Len(Planning) + Len(Applying)

Idle == [pc |-> 0, phase |-> "idle", tries |-> 0, view |-> << >>]
Init == /\ store \in InitialStores
        /\ run = [r \in Runs |-> Idle]
        /\ late = {} /\ faults = 0 /\ edits = 0
        /\ once = [r \in Runs |-> {}] /\ alone = [r \in Runs |-> TRUE]
        /\ outside = [o \in Objects |-> store[o].other] /\ raced = {}

-----------------------------------------------------------------------------
(* Plans: what one object needs, given what was read of it.                   *)

Matches(e) == e.copies = 1 /\ e.m = "desired"
\* A duplicate, a name occupied by another component, or a missing demo user
\* stops the script.
Blocked(o, e) == e.copies > 1 \/ e.m = "foreign" \/ (o[1] = "user" /\ e.copies /= 1)
\* Profile and users are written whatever was read.
NeedsWriteIfAbsent(o, v) == o[1] \in {"profile", "user"} \/ v.copies = 0
NeedsWrite(o, v) == o[1] \in {"profile", "user"} \/ ~Matches(v)

\* The server (external). Names of clients and mappers are unique, names of
\* components are not; a write to an id that is gone is refused. view holds
\* what the writer read, the id of a mapper's client included.
ParentKept(o, view) == o[1] = "mapper" =>
    LET c == Client(o[2]) IN store[c].copies = 1 /\ store[c].id = view[c].id
Accepts(o, view) ==
    LET v == view[o] IN
    /\ ParentKept(o, view)
    /\ IF v.copies = 0 THEN o = Provider \/ store[o].copies = 0
       ELSE store[o].copies >= 1 /\ store[o].id = v.id
\* The bodies: attributes of a client or user, named policies and the profile
\* are sent back as they were read; for a component and for realm fields only
\* the managed keys are sent, and the server keeps the others.
Echoes(o) == o[1] \in {"client", "policies", "profile", "user"}
ReplacedBody(o, v) == IF Echoes(o) THEN 0 ELSE store[o].other
Body(o, v) == IF Echoes(o) THEN v.other ELSE store[o].other
Written(o, v) ==
    IF v.copies = 0
    THEN [store[o] EXCEPT !.copies = @ + 1, !.m = "desired", !.other = IF store[o].copies = 0 THEN 0 ELSE @]
    ELSE [store[o] EXCEPT !.m = "desired", !.other = Body(o, v)]
Payload(S, view) == {o \in S : NeedsWrite(o, view[o])}
StoreAfter(S, view) == [o \in Objects |-> IF o \in S THEN Written(o, view[o]) ELSE store[o]]

-----------------------------------------------------------------------------
(* One execution.                                                             *)

Running == {r \in Runs : run[r].phase = "running"}
Cur(r) == Program[run[r].pc]
Without(view, S) == [o \in DOMAIN view \ S |-> view[o]]
Advance(r, view) ==
    run' = [run EXCEPT ![r] = [pc |-> run[r].pc + 1, phase |-> "running", tries |-> 0, view |-> view]]
Fail(r) == run' = [run EXCEPT ![r] = [Idle EXCEPT !.phase = "failed"]]
\* History follows every change of the realm.
Good(s) == {o \in Objects : Matches(s[o])}
Note(s) == once' = [r \in Runs |-> IF r \in Running THEN once[r] \cup Good(s) ELSE once[r]]
ReadOnly == UNCHANGED <<store, late, faults, edits, once, alone, outside, raced>>

MoreTrouble == faults + edits < MaxTroubles
\* The script has no lock: a run may start beside another one.
Begin(r) ==
    /\ run[r].phase /= "running"
    /\ \/ Running = {} /\ faults' = faults
       \/ Running /= {} /\ MoreTrouble /\ faults' = faults + 1
    /\ run' = [run EXCEPT ![r] = [Idle EXCEPT !.phase = "running"]]
    /\ once' = [once EXCEPT ![r] = Good(store)]
    /\ alone' = [q \in Runs |-> IF q = r THEN Running = {} /\ late = {} ELSE alone[q] /\ q \notin Running]
    /\ UNCHANGED <<store, late, edits, outside, raced>>
\* wait_for_keycloak and admin_token.
TokenFails(r) ==
    /\ run[r].phase = "running" /\ run[r].pc = 0 /\ MoreTrouble
    /\ IF run[r].tries + 1 < MaxTries THEN run' = [run EXCEPT ![r].tries = @ + 1] ELSE Fail(r)
    /\ faults' = faults + 1 /\ alone' = [alone EXCEPT ![r] = FALSE]
    /\ UNCHANGED <<store, late, edits, once, outside, raced>>
Token(r) == run[r].phase = "running" /\ run[r].pc = 0 /\ Advance(r, << >>) /\ ReadOnly

At(r, op) == run[r].phase = "running" /\ run[r].pc \in DOMAIN Program /\ Cur(r).op = op
\* A GET and the plan made from it. The mappers of a client that is to be
\* created are not read.
ReadNowAssumed(o, view) ==
    IF o[1] = "mapper" /\ view[Client(o[2])].copies = 0
    THEN [Absent EXCEPT !.copies = 1, !.m = "desired"] ELSE store[o]
ReadNow(o, view) ==
    IF o[1] = "mapper" /\ view[Client(o[2])].copies = 0 THEN Absent ELSE store[o]
Read(S, view) == [o \in S \cup DOMAIN view |-> IF o \in S THEN ReadNow(o, view) ELSE view[o]]
Plan(r) ==
    /\ At(r, "plan")
    /\ LET S == Cur(r).on
           view == Read(S, run[r].view)
           gone == \E o \in S : o[1] = "mapper" /\ run[r].view[Client(o[2])].copies > 0
                                /\ ~ParentKept(o, run[r].view)
       IN  IF gone \/ \E o \in S : Blocked(o, view[o])
           THEN Fail(r)
           ELSE Advance(r, view)
    /\ ReadOnly
\* The ids of the clients are needed until their mappers are written.
Forget(r, S) == Advance(r, Without(run[r].view, {o \in S : o[1] /= "client"}))
Apply(r) ==
    /\ At(r, "apply")
    /\ LET view == run[r].view
           S == Payload(Cur(r).on, view)
           s == StoreAfter(S, view)
       IN  IF \A o \in S : Accepts(o, view)
           THEN /\ Forget(r, Cur(r).on) /\ store' = s
                /\ IF run[r].pc = LastPlanned
                   THEN once' = [q \in Runs |-> IF q = r THEN Good(s)
                                   ELSE IF q \in Running THEN once[q] \cup Good(s) ELSE once[q]]
                   ELSE Note(s)
           ELSE Fail(r) /\ UNCHANGED <<store, once>>
    /\ UNCHANGED <<late, faults, edits, alone, outside, raced>>
\* After a POST the client is looked up; its id is the one its mappers need.
Created(r) ==
    /\ At(r, "created")
    /\ LET c == CHOOSE o \in Cur(r).on : TRUE
       IN  IF run[r].view[c].copies = 0
           THEN IF store[c].copies = 1 THEN Advance(r, [run[r].view EXCEPT ![c] = store[c]]) ELSE Fail(r)
           ELSE Advance(r, run[r].view)
    /\ ReadOnly
VerifyPresent(o) == store[o].copies = 1
Verified(o) == Matches(store[o])
Verify(r) ==
    /\ At(r, "verify")
    /\ IF \A o \in Cur(r).on : Verified(o) THEN Forget(r, Objects) ELSE Fail(r)
    /\ ReadOnly
Finish(r) ==
    /\ run[r].phase = "running" /\ run[r].pc = Len(Program) + 1
    /\ run' = [run EXCEPT ![r] = [Idle EXCEPT !.phase = "done"]]
    /\ ReadOnly

\* A request fails without effect, or a write times out (timeout=10) and the
\* server may still carry it out. Either ends the run; so does a time-out while
\* the answer to the token request is read, which wait_for_keycloak passes on.
RequestFails(r) ==
    /\ run[r].phase = "running" /\ run[r].pc \in 0 .. Len(Program) /\ MoreTrouble
    /\ Fail(r) /\ faults' = faults + 1 /\ alone' = [alone EXCEPT ![r] = FALSE]
    /\ \/ late' = late
       \/ /\ At(r, "apply") /\ Payload(Cur(r).on, run[r].view) /= {}
          /\ late' = late \cup {[on |-> Payload(Cur(r).on, run[r].view), view |-> run[r].view]}
    /\ UNCHANGED <<store, edits, once, outside, raced>>
LateArrives ==
    \E w \in late :
      LET ok == \A o \in w.on : Accepts(o, w.view)
          s == IF ok THEN StoreAfter(w.on, w.view) ELSE store
      IN  /\ late' = late \ {w} /\ store' = s /\ Note(s)
          /\ alone' = [r \in Runs |-> FALSE]
          /\ UNCHANGED <<run, faults, edits, outside, raced>>

-----------------------------------------------------------------------------
(* The administrator: changes the part of an object the script must keep,     *)
(* spoils the managed part, or removes an object.                             *)
Pending(o) == (\E r \in Running : o \in DOMAIN run[r].view) \/ (\E w \in late : o \in w.on)
EditTo(s, S) ==
    /\ MoreTrouble /\ edits' = edits + 1
    /\ store' = s /\ Note(s)
    /\ outside' = [o \in Objects |-> IF o \in S THEN s[o].other ELSE outside[o]]
    /\ raced' = raced \cup {o \in S : Pending(o)}
    /\ alone' = [r \in Runs |-> FALSE]
    /\ UNCHANGED <<run, late, faults>>
Touch(o) == store[o].copies = 1 /\ o[1] /= "mapper" /\ EditTo([store EXCEPT ![o].other = edits + 1], {o})
Spoil(o) == store[o].copies = 1 /\ store[o].m = "desired" /\ EditTo([store EXCEPT ![o].m = "drifted"], {})
\* A component's type is fixed: one of another type that has the name, or the
\* right one in place of that, is a new component.
Occupy(o) == /\ o = Provider /\ store[o].copies = 1
             /\ EditTo([store EXCEPT ![o].m = IF @ = "foreign" THEN "drifted" ELSE "foreign", ![o].id = @ + 1], {})
Gone(o) == [Absent EXCEPT !.id = store[o].id + 1]
Drop(o) == /\ store[o].copies = 1 /\ o[1] \in {"provider", "client", "mapper", "user"}
             /\ LET S == {o} \cup {x \in Objects : o[1] = "client" /\ x = Mapper(o[2])}
                IN  EditTo([x \in Objects |-> IF x \in S THEN Gone(x) ELSE store[x]], S)
Edit == \E o \in Objects : Touch(o) \/ Spoil(o) \/ Occupy(o) \/ Drop(o)

Script(r) == \/ Token(r) \/ Plan(r) \/ Apply(r) \/ Created(r) \/ Verify(r) \/ Finish(r)
Next == \/ \E r \in Runs : Begin(r) \/ Script(r) \/ TokenFails(r) \/ RequestFails(r)
        \/ LateArrives \/ Edit
\* Every request of the script ends, and the operator runs it again.
Fairness == \A r \in Runs : WF_vars(Script(r)) /\ WF_vars(Begin(r))
Spec == Init /\ [][Next]_vars /\ Fairness

-----------------------------------------------------------------------------
(* Properties *)

(* The realm and the plans of every run keep their types; a plan only holds   *)
(* objects of the realm.                                                      *)
TypeOK ==
    /\ store \in [Objects -> Entries]
    /\ \A r \in Runs : /\ run[r].pc \in 0 .. Len(Program) + 1
                       /\ run[r].phase \in {"idle", "running", "done", "failed"}
                       /\ run[r].tries \in 0 .. MaxTries - 1
                       /\ DOMAIN run[r].view \subseteq Objects
    /\ faults \in Nat /\ edits \in Nat /\ faults + edits <= MaxTroubles
    /\ \A o \in Objects : o[1] /= "provider" => store[o].copies <= 1

\* The promise of a reconciliation, with each object seen as desired, drifted
\* or blocked.
Seen(o) == IF Blocked(o, store[o]) THEN "blocked" ELSE IF Matches(store[o]) THEN "desired" ELSE "drifted"
Phase(r) == IF run[r].phase = "running" /\ run[r].pc > LastPlanned THEN "checking" ELSE run[r].phase
Promise == INSTANCE Reconcile WITH
    Objects <- Objects, Runs <- Runs, Duplicable <- {Provider},
    state <- [o \in Objects |-> Seen(o)], phase <- [r \in Runs |-> Phase(r)], once <- once, edits <- edits
(* The script implements Reconcile: whatever it has read before, a write of   *)
(* its own, even one that arrives after its time-out, leaves an object        *)
(* desired or, for the key provider, duplicated; and it prints success only   *)
(* if every object was desired at some moment after its last planned write.   *)
Reconciles == Promise!Spec

(* What the script does not manage survives it: unless the administrator      *)
(* edits an object while a plan for it is pending, the unmanaged part is what *)
(* the administrator left; for the key provider and the realm fields, where   *)
(* the server merges, even then.                                              *)
UnmanagedKept ==
    \A o \in Objects : store[o].copies = 1 /\ (o \notin raced \/ ~Echoes(o)) =>
        store[o].other = outside[o]

(* A run nothing disturbs succeeds at once, from any realm that does not stop *)
(* it: the plan misses nothing that the verification then asks for.           *)
UndisturbedSucceeds ==
    \A r \in Runs : run[r].phase = "failed" /\ alone[r] => \E o \in Objects : Blocked(o, store[o])

(* Re-running converges: once faults and edits stop, every object is desired  *)
(* for ever, or the realm is in a state the script refuses to repair.         *)
Converges ==
    <>[]((\A o \in Objects : Matches(store[o])) \/ (\E o \in Objects : Blocked(o, store[o])))
=============================================================================
