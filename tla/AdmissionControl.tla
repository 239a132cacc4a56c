-------------------------- MODULE AdmissionControl --------------------------
(***************************************************************************)
(* What max_connections of a route promises (docs: "a Route over its       *)
(* limits.max_connections refuses new connections"): a connection is       *)
(* admitted only while fewer than the limit in force are.  The limit may   *)
(* be changed at any time; connections admitted under an older one stay.   *)
(***************************************************************************)
EXTENDS Naturals, FiniteSets

CONSTANTS Client, MaxLimit

VARIABLES held, limit

Init == held = {} /\ limit \in 0..MaxLimit

(* m is the limit in force when the connection was accepted.               *)
Admit(p, m) ==
    /\ p \notin held
    /\ Cardinality(held) < m
    /\ held' = held \cup {p}
    /\ UNCHANGED limit

Release(p) ==
    /\ p \in held
    /\ held' = held \ {p}
    /\ UNCHANGED limit

SetLimit ==
    /\ limit' \in 0..MaxLimit
    /\ UNCHANGED held

Next ==
    \/ \E p \in Client : Release(p) \/ (\E m \in 0..MaxLimit : Admit(p, m))
    \/ SetLimit

Spec == Init /\ [][Next]_<<held, limit>>
=============================================================================
