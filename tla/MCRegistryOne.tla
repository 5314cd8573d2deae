---------------------------- MODULE MCRegistryOne ----------------------------
(* One process with every kind of configuration and disk state. *)
EXTENDS TransportRegistry, TLC

CONSTANTS f1, f2

MCFingerprints == {f1, f2}

Good    == [cert |-> f1, usable |-> TRUE]
Rotated == [cert |-> f2, usable |-> TRUE]
Missing == [cert |-> None, usable |-> FALSE]
NoKey   == [cert |-> f1, usable |-> FALSE]

With(b, signing) ==
    [identity |-> [i \in Identities |-> IF i = "B" THEN b ELSE Good],
     signing_key |-> signing]

MCOffered == TransportConfigs \cup BridgeConfigs

MCDiskStates == {With(Good, TRUE), With(Good, FALSE), With(NoKey, TRUE),
                 With(Missing, TRUE), With(Rotated, TRUE)}
=============================================================================
