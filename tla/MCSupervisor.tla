----------------------------- MODULE MCSupervisor -----------------------------
(* The script and a Data Plane whose Route B certificate may be replaced. *)
EXTENDS Supervisor, TLC

CONSTANTS f1, f2

MCFingerprints == {f1, f2}

Disk(b) ==
    [identity |-> [i \in Identities |-> [cert |-> IF i = "B" THEN b ELSE f1, usable |-> TRUE]],
     signing_key |-> TRUE]

MCDisk1      == {Disk(f1)}
MCDiskStates == {Disk(f1), Disk(f2)}
=============================================================================
