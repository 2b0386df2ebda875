---------------------------- MODULE MCNodeStore ----------------------------
(* Instances of NodeStore: the peers are interchangeable, but symmetry is   *)
(* not used, since liveness is checked.                                     *)
EXTENDS NodeStore
=============================================================================
