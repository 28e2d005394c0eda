--------------------------- MODULE GcLimitProofs ---------------------------
\* Proofs about GcLimit, for every first limit and every number of tables.
EXTENDS GcLimit, TLAPS

Inv == TypeOK /\ LimitAtLeastInitial

\* The first thresholds satisfy the invariant.
LEMMA InitInv == Init => Inv
BY InitialGcLimitAssumption DEF Init, Inv, TypeOK, LimitAtLeastInitial

(***************************************************************************)
(* The arithmetic of lines 1133-1136: an adjusted limit is at least the    *)
(* first one, and the survivors stay a tenth of that below it.             *)
(***************************************************************************)
LEMMA AdjustedLimitHeadroom ==
  ASSUME NEW limit \in Nat, NEW n \in Nat, limit >= InitialGcLimit
  PROVE  /\ AdjustedLimit(limit, n) \in Nat
         /\ AdjustedLimit(limit, n) >= InitialGcLimit
         /\ n + InitialGcLimit \div 10 <= AdjustedLimit(limit, n)
<1>1. /\ InitialGcLimit \div 10 <= InitialGcLimit
      /\ InitialGcLimit \div 10 <= limit \div 10
      /\ (limit \div 10) * 9 + limit \div 10 <= limit
  BY InitialGcLimitAssumption
<1>2. InitialGcLimit \div 10 \in Nat /\ limit \div 10 \in Nat
  BY InitialGcLimitAssumption
<1>3. CASE n > (limit \div 10) * 9
  BY <1>1, <1>2, <1>3, InitialGcLimitAssumption DEF AdjustedLimit
<1>4. CASE ~(n > (limit \div 10) * 9)
  BY <1>1, <1>2, <1>4, InitialGcLimitAssumption DEF AdjustedLimit
<1> QED
  BY <1>3, <1>4

\* No insertion and no sweep breaks it.
LEMMA NextInv == Inv /\ [Next]_limitVars => Inv'
<1> SUFFICES ASSUME Inv, [Next]_limitVars PROVE Inv'
  OBVIOUS
<1> USE DEF Inv, TypeOK, LimitAtLeastInitial
<1>1. CASE Insert
  BY <1>1, SizeAssumption DEF Insert
<1>2. ASSUME NEW force \in BOOLEAN, Sweep(force) PROVE Inv'
  <2>1. size' \in [Kind -> Nat]
    BY <1>2, SizeAssumption DEF Sweep
  <2>2. ASSUME NEW k \in Kind
        PROVE  gcLimit'[k] \in Nat /\ gcLimit'[k] >= InitialGcLimit
    BY <1>2, <2>1, AdjustedLimitHeadroom DEF Sweep
  <2>3. gcLimit' \in [Kind -> Nat]
    BY <1>2, <2>2 DEF Sweep
  <2>4. QED
    BY <2>1, <2>2, <2>3
<1>3. CASE UNCHANGED limitVars
  BY <1>3 DEF limitVars
<1> QED
  BY <1>1, <1>2, <1>3 DEF Next

(***************************************************************************)
(* Although a limit may shrink, it never shrinks below kInitialGcLimit.    *)
(***************************************************************************)
THEOREM LimitNeverBelowInitial == Spec => []LimitAtLeastInitial
BY InitInv, NextInv, PTL DEF Spec, Inv

(***************************************************************************)
(* After every sweep, both tables need at least kInitialGcLimit / 10 more  *)
(* nodes before an unforced garbageCollect sweeps again.                   *)
(***************************************************************************)
THEOREM SweepsAreSpaced == Spec => HeadroomAfterSweep
<1>1. ASSUME Inv, Sweep(TRUE), NEW k \in Kind
      PROVE  size'[k] + InitialGcLimit \div 10 <= gcLimit'[k]
  BY <1>1, SizeAssumption, AdjustedLimitHeadroom
     DEF Inv, TypeOK, LimitAtLeastInitial, Sweep
<1>2. Inv => [Sweep(TRUE) => \A k \in Kind :
                size'[k] + InitialGcLimit \div 10 <= gcLimit'[k]]_limitVars
  BY <1>1
<1>3. QED
  BY <1>2, InitInv, NextInv, PTL DEF Spec, HeadroomAfterSweep
=============================================================================
