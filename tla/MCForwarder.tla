------------------------------ MODULE MCForwarder ------------------------------
(* Two clients and the main thread. *)
EXTENDS DemoForwarder, TLC
=============================================================================
