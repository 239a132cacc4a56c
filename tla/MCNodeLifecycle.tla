--------------------------- MODULE MCNodeLifecycle ---------------------------
(* Small instances of NodeLifecycle.                                       *)
EXTENDS NodeLifecycle, TLC

(* Connections are interchangeable; used by the runs without liveness.     *)
Symmetry == Permutations(Conn)
=============================================================================
