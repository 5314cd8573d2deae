------------------------------ MODULE Reconcile ------------------------------
(* What a reconciliation script promises about the objects it manages, with   *)
(* no word about how: it only moves an object to its desired state, and it    *)
(* reports success only when every object was in that state at some moment    *)
(* since it began to check its work. Everything else is done by others.       *)
EXTENDS Integers

CONSTANTS Runs, Objects,
          Duplicable   \* objects a second creation puts out of reach
VARIABLES state,       \* state[o]: "drifted", "desired" or "blocked"
          phase,       \* phase[r]: "idle", "running", "checking", "done", "failed"
          once,        \* once[r]: objects desired since r began to run or to check
          edits        \* changes made by others
vars == <<state, phase, once, edits>>

Running == {r \in Runs : phase[r] \in {"running", "checking"}}
Desired(s) == {o \in Objects : s[o] = "desired"}
Noted(s) == [r \in Runs |-> IF r \in Running THEN once[r] \cup Desired(s) ELSE once[r]]

Init == /\ state \in [Objects -> {"drifted", "desired", "blocked"}]
        /\ phase = [r \in Runs |-> "idle"]
        /\ once = [r \in Runs |-> {}]
        /\ edits = 0
Start(r) == /\ r \notin Running
            /\ phase' = [phase EXCEPT ![r] = "running"]
            /\ once' = [once EXCEPT ![r] = Desired(state)]
            /\ UNCHANGED <<state, edits>>
\* A write of the script: the objects it changes end as desired.
Better == /\ state' \in [Objects -> {"drifted", "desired", "blocked"}]
          /\ \A o \in Objects : state'[o] = state[o] \/ (state[o] = "drifted" /\ state'[o] = "desired")
Improve == Better /\ once' = Noted(state') /\ UNCHANGED <<phase, edits>>
\* The last planned write: from here on the script looks at everything again.
Recheck(r) == /\ phase[r] = "running" /\ Better
              /\ phase' = [phase EXCEPT ![r] = "checking"]
              /\ once' = [Noted(state') EXCEPT ![r] = Desired(state')]
              /\ UNCHANGED edits
\* The one way a script can do harm: creating what was created meanwhile.
Duplicate == \E o \in Duplicable :
    /\ state' = [state EXCEPT ![o] = "blocked"]
    /\ UNCHANGED <<phase, once, edits>>
\* Others change or remove objects.
Outside == /\ state' \in [Objects -> {"drifted", "desired", "blocked"}]
           /\ Desired(state') \subseteq Desired(state)
           /\ edits' = edits + 1 /\ UNCHANGED <<phase, once>>
Report(r) == /\ phase[r] = "checking" /\ once[r] = Objects
             /\ phase' = [phase EXCEPT ![r] = "done"] /\ UNCHANGED <<state, once, edits>>
Abort(r) == /\ r \in Running
            /\ phase' = [phase EXCEPT ![r] = "failed"] /\ UNCHANGED <<state, once, edits>>
Next == (\E r \in Runs : Start(r) \/ Recheck(r) \/ Report(r) \/ Abort(r)) \/ Improve \/ Duplicate \/ Outside
Spec == Init /\ [][Next]_vars
=============================================================================
