-------------------------- MODULE ConnLimiterProofs --------------------------
(***************************************************************************)
(* For every finite set of connections and every MaxLimit: the counter is  *)
(* exact, the limit is never exceeded, and ConnLimiter implements          *)
(* AdmissionControl.                                                       *)
(*                                                                         *)
(* The inductive invariant is TypeOK /\ CounterExact.  It is needed because*)
(* FetchAdd compares the counter, not the number of guards: CounterExact   *)
(* says that the counter is at least that number.                          *)
(***************************************************************************)
EXTENDS ConnLimiter, FiniteSetTheorems, TLAPS

IInv == TypeOK /\ CounterExact

(* Subsets of Client are finite, and those with a guard are among those    *)
(* that count.                                                             *)
LEMMA HeldCounted ==
    ASSUME TypeOK
    PROVE  /\ IsFiniteSet(Counted) /\ IsFiniteSet(Held)
           /\ Cardinality(Counted) \in Nat /\ Cardinality(Held) \in Nat
           /\ Cardinality(Held) <= Cardinality(Counted)
<1>1. Counted \subseteq Client /\ Held \subseteq Counted
  BY DEF Counted, Held
<1>2. IsFiniteSet(Counted) /\ IsFiniteSet(Held)
  BY <1>1, ClientAssumption, FS_Subset
<1> QED
  BY <1>1, <1>2, FS_Subset, FS_CardinalityType

(* Nobody counts at the start.                                             *)
LEMMA InitInv == Init => IInv
<1> SUFFICES ASSUME Init PROVE IInv
  OBVIOUS
<1>1. TypeOK
  BY MaxLimitAssumption DEF Init, TypeOK
<1>2. Counted = {}
  BY DEF Init, Counted
<1> QED
  BY <1>1, <1>2, FS_EmptySet DEF IInv, CounterExact, Init

(* Each of the four steps of a connection moves it in or out of Counted    *)
(* exactly when it changes the counter.                                    *)
LEMMA StepInv == IInv /\ [Next]_vars => IInv'
<1> SUFFICES ASSUME IInv, [Next]_vars PROVE IInv'
  OBVIOUS
<1> USE MaxLimitAssumption DEF IInv, TypeOK, CounterExact
<1>f. IsFiniteSet(Counted) /\ Cardinality(Counted) \in Nat
  BY HeldCounted
<1>1. ASSUME NEW p \in Client, Arrive(p) PROVE IInv'
  <2>1. TypeOK'
    BY <1>1 DEF Arrive
  <2>2. Counted' = Counted
    BY <1>1 DEF Arrive, Counted
  <2> QED BY <1>1, <2>1, <2>2 DEF Arrive
<1>2. ASSUME NEW p \in Client, FetchAdd(p) PROVE IInv'
  <2>1. TypeOK'
    BY <1>2 DEF FetchAdd
  <2>2. Counted' = Counted \cup {p} /\ p \notin Counted
    BY <1>2 DEF FetchAdd, Counted
  <2>3. Cardinality(Counted') = Cardinality(Counted) + 1
    BY <2>2, <1>f, FS_AddElement
  <2> QED BY <1>2, <2>1, <2>3 DEF FetchAdd
<1>3. ASSUME NEW p \in Client, Rollback(p) \/ DropGuard(p) PROVE IInv'
  <2>1. Counted' = Counted \ {p} /\ p \in Counted
    BY <1>3 DEF Rollback, DropGuard, Counted
  <2>2. Cardinality(Counted') = Cardinality(Counted) - 1 /\ IsFiniteSet(Counted')
    BY <2>1, <1>f, FS_RemoveElement
  <2>3. counter' = counter - 1
    BY <1>3 DEF Rollback, DropGuard
  <2>4. counter' \in Nat
    BY <2>2, <2>3, FS_CardinalityType
  <2>5. TypeOK'
    BY <1>3, <2>4 DEF Rollback, DropGuard
  <2> QED BY <2>2, <2>3, <2>5
<1>4. CASE SetLimit
  <2>1. TypeOK'
    BY <1>4 DEF SetLimit
  <2>2. Counted' = Counted
    BY <1>4 DEF SetLimit, Counted
  <2> QED BY <1>4, <2>1, <2>2 DEF SetLimit
<1>5. CASE UNCHANGED vars
  <2>1. Counted' = Counted
    BY <1>5 DEF vars, Counted
  <2> QED BY <1>5, <2>1 DEF vars
<1> QED
  BY <1>1, <1>2, <1>3, <1>4, <1>5 DEF Next

(* The counter of a route is what its guards and its pending rollbacks     *)
(* account for, in every behaviour.                                        *)
THEOREM CounterIsExact == Spec => [](TypeOK /\ CounterExact)
<1> QED
  BY InitInv, StepInv, PTL DEF Spec, IInv

(* A step of a connection moves it in or out of Held, or leaves Held.      *)
LEMMA HeldSteps ==
    ASSUME IInv, NEW p \in Client
    PROVE  /\ Arrive(p) => Held' = Held
           /\ FetchAdd(p) => \/ Held' = Held
                             \/ /\ p \notin Held /\ Held' = Held \cup {p}
                                /\ Cardinality(Held) < max[p]
           /\ Rollback(p) => Held' = Held
           /\ DropGuard(p) => p \in Held /\ Held' = Held \ {p}
<1> USE DEF IInv, TypeOK
<1>1. Arrive(p) => Held' = Held
  BY DEF Arrive, Held
<1>2. Rollback(p) => Held' = Held
  BY DEF Rollback, Held
<1>3. DropGuard(p) => p \in Held /\ Held' = Held \ {p}
  BY DEF DropGuard, Held
<1>4. ASSUME FetchAdd(p), counter >= max[p] PROVE Held' = Held
  BY <1>4 DEF FetchAdd, Held
<1>5. ASSUME FetchAdd(p), counter < max[p]
      PROVE  p \notin Held /\ Held' = Held \cup {p} /\ Cardinality(Held) < max[p]
  <2>1. p \notin Held /\ Held' = Held \cup {p}
    BY <1>5 DEF FetchAdd, Held
  <2>2. Cardinality(Held) <= counter /\ Cardinality(Held) \in Nat
    BY HeldCounted DEF CounterExact
  <2> QED BY <1>5, <2>1, <2>2, MaxLimitAssumption
<1> QED
  BY <1>1, <1>2, <1>3, <1>4, <1>5, MaxLimitAssumption

(* Every step is a step of AdmissionControl or leaves its variables.       *)
LEMMA StepSimulation == IInv /\ [Next]_vars => [Abstract!Next]_<<Held, limit>>
<1> SUFFICES ASSUME IInv, [Next]_vars PROVE [Abstract!Next]_<<Held, limit>>
  OBVIOUS
<1> USE DEF IInv, TypeOK
<1>1. ASSUME NEW p \in Client, Arrive(p) \/ Rollback(p)
      PROVE  UNCHANGED <<Held, limit>>
  BY <1>1, HeldSteps DEF Arrive, Rollback
<1>2. ASSUME NEW p \in Client, FetchAdd(p) PROVE [Abstract!Next]_<<Held, limit>>
  <2>1. limit' = limit /\ max[p] \in 0..MaxLimit
    BY <1>2 DEF FetchAdd
  <2>2. CASE Held' = Held
    BY <2>1, <2>2
  <2>3. CASE p \notin Held /\ Held' = Held \cup {p} /\ Cardinality(Held) < max[p]
    <3>1. Abstract!Admit(p, max[p])
      BY <2>1, <2>3 DEF Abstract!Admit, Abstract!Cardinality, Cardinality
    <3> QED BY <2>1, <3>1 DEF Abstract!Next
  <2> QED BY <1>2, <2>2, <2>3, HeldSteps
<1>3. ASSUME NEW p \in Client, DropGuard(p) PROVE [Abstract!Next]_<<Held, limit>>
  <2>1. Abstract!Release(p)
    BY <1>3, HeldSteps DEF Abstract!Release, DropGuard
  <2> QED BY <2>1 DEF Abstract!Next
<1>4. CASE SetLimit
  <2>1. Held' = Held
    BY <1>4 DEF SetLimit, Held
  <2>2. Abstract!SetLimit
    BY <1>4, <2>1 DEF SetLimit, Abstract!SetLimit
  <2> QED BY <2>2 DEF Abstract!Next
<1>5. CASE UNCHANGED vars
  BY <1>5 DEF vars, Held
<1> QED
  BY <1>1, <1>2, <1>3, <1>4, <1>5 DEF Next

(* try_acquire and the drop of ConnGuard implement the admission promise.  *)
THEOREM Refinement == Spec => ImplementsAdmissionControl
<1>1. Init => Abstract!Init
  BY DEF Init, Held, Abstract!Init
<1> QED
  BY <1>1, InitInv, StepInv, StepSimulation, PTL
  DEF Spec, ImplementsAdmissionControl, Abstract!Spec

(* No interleaving of callers lets more connections in than the largest    *)
(* limit.                                                                  *)
THEOREM LimitHolds == Spec => []WithinLimit
<1>1. Init => WithinLimit
  <2> SUFFICES ASSUME Init PROVE Cardinality(Held) <= MaxLimit
    BY DEF WithinLimit
  <2>1. Held = {}
    BY DEF Init, Held
  <2> QED BY <2>1, FS_EmptySet, MaxLimitAssumption
<1>2. IInv /\ WithinLimit /\ [Next]_vars => WithinLimit'
  <2> SUFFICES ASSUME IInv, WithinLimit, [Next]_vars
               PROVE  Cardinality(Held') <= MaxLimit
    BY DEF WithinLimit
  <2> USE MaxLimitAssumption DEF IInv, WithinLimit
  <2>f. IsFiniteSet(Held) /\ Cardinality(Held) \in Nat
    BY HeldCounted
  <2>1. CASE Held' = Held
    BY <2>1
  <2>2. ASSUME NEW p \in Client, p \notin Held, Held' = Held \cup {p},
               Cardinality(Held) < max[p]
        PROVE  Cardinality(Held') <= MaxLimit
    <3>1. Cardinality(Held') = Cardinality(Held) + 1
      BY <2>2, <2>f, FS_AddElement
    <3> QED BY <2>2, <2>f, <3>1 DEF TypeOK
  <2>3. ASSUME NEW p \in Client, p \in Held, Held' = Held \ {p}
        PROVE  Cardinality(Held') <= MaxLimit
    <3>1. Cardinality(Held') = Cardinality(Held) - 1
      BY <2>3, <2>f, FS_RemoveElement
    <3> QED BY <2>f, <3>1
  <2>4. SetLimit \/ UNCHANGED vars => Held' = Held
    BY DEF SetLimit, vars, Held
  <2> QED
    BY <2>1, <2>2, <2>3, <2>4, HeldSteps DEF Next
<1> QED
  BY <1>1, <1>2, InitInv, StepInv, PTL DEF Spec
=============================================================================
