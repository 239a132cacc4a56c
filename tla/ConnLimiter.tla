----------------------------- MODULE ConnLimiter -----------------------------
(***************************************************************************)
(* ConnLimiter of server/src/conn_limiter.rs, the counter of one route     *)
(* (counters of different routes share nothing).  The accept loops of the  *)
(* TCP, HTTP and HTTPS proxies call try_acquire from concurrent tasks: the *)
(* counter is incremented first and compared after, and a refused caller   *)
(* takes its increment back in a second atomic operation.  Orderings are   *)
(* Relaxed, which a single counter does not tell from sequential ones.     *)
(***************************************************************************)
EXTENDS Integers, FiniteSets

CONSTANTS
    Client,     \* inbound connections; each may come again
    MaxLimit    \* the largest max_connections the route is given

ASSUME ClientAssumption == IsFiniteSet(Client)
ASSUME MaxLimitAssumption == MaxLimit \in Nat

VARIABLES
    counter,    \* the AtomicU64 of the route
    limit,      \* limits.max_connections of the route, hot-reloadable
    pc,         \* where the task of a connection stands
    max         \* the max_connections it passed to try_acquire

vars == <<counter, limit, pc, max>>

TypeOK ==
    /\ counter \in Nat
    /\ limit \in 0..MaxLimit
    /\ pc \in [Client -> {"idle", "add", "held", "rollback"}]
    /\ max \in [Client -> 0..MaxLimit]

Init ==
    /\ counter = 0
    /\ limit \in 0..MaxLimit
    /\ pc = [p \in Client |-> "idle"]
    /\ max = [p \in Client |-> 0]

(* The connections that have a ConnGuard.                                  *)
Held == {p \in Client : pc[p] = "held"}

(* A connection is accepted and its route, with its limit, is looked up.   *)
Arrive(p) ==
    /\ pc[p] = "idle"
    /\ pc' = [pc EXCEPT ![p] = "add"]
    /\ max' = [max EXCEPT ![p] = limit]
    /\ UNCHANGED <<counter, limit>>

(* Mutant: the comparison lets one more in.                                *)
FetchAddOffByOne(p) ==
    /\ pc[p] = "add"
    /\ counter' = counter + 1
    /\ pc' = [pc EXCEPT ![p] = IF counter <= max[p] THEN "held" ELSE "rollback"]
    /\ UNCHANGED <<limit, max>>

(* prev = counter.fetch_add(1), and the comparison of prev with the limit. *)
FetchAdd(p) ==
    /\ pc[p] = "add"
    /\ counter' = counter + 1
    /\ pc' = [pc EXCEPT ![p] = IF counter < max[p] THEN "held" ELSE "rollback"]
    /\ UNCHANGED <<limit, max>>

(* Mutant: the increment of a refused caller stays.                        *)
RollbackForgotten(p) ==
    /\ pc[p] = "rollback"
    /\ pc' = [pc EXCEPT ![p] = "idle"]
    /\ UNCHANGED <<counter, limit, max>>

(* counter.fetch_sub(1) of a refused caller, which then gets None.         *)
Rollback(p) ==
    /\ pc[p] = "rollback"
    /\ counter' = counter - 1
    /\ pc' = [pc EXCEPT ![p] = "idle"]
    /\ UNCHANGED <<limit, max>>

(* The connection ends and its ConnGuard is dropped.                       *)
DropGuard(p) ==
    /\ pc[p] = "held"
    /\ counter' = counter - 1
    /\ pc' = [pc EXCEPT ![p] = "idle"]
    /\ UNCHANGED <<limit, max>>

(* A route update replaces limits.max_connections.                         *)
SetLimit ==
    /\ limit' \in 0..MaxLimit
    /\ UNCHANGED <<counter, pc, max>>

Next ==
    \/ \E p \in Client : Arrive(p) \/ FetchAdd(p) \/ Rollback(p) \/ DropGuard(p)
    \/ SetLimit

Spec == Init /\ [][Next]_vars

-----------------------------------------------------------------------------
(* Properties                                                              *)

(* The callers whose increment is in the counter.                          *)
Counted == {p \in Client : pc[p] \in {"held", "rollback"}}

(* The counter is what the guards and the pending rollbacks account for:   *)
(* it never wraps below 0 (which would refuse everyone for ever) and comes *)
(* back to 0 when all connections have ended.                              *)
CounterExact == counter = Cardinality(Counted)

(* Never more connections at once than the largest limit the route had.    *)
WithinLimit == Cardinality(Held) <= MaxLimit

(* The fetch_add / compare / fetch_sub protocol implements AdmissionControl*)
(* although a refused caller is in the counter for a while.                *)
Abstract == INSTANCE AdmissionControl WITH held <- Held
ImplementsAdmissionControl == Abstract!Spec
=============================================================================
