------------------------------ MODULE GcLimit ------------------------------
(***************************************************************************)
(* When DwPackage::garbageCollect sweeps, and how it moves its thresholds: *)
(* vGcLimit_ and mGcLimit_ against the sizes of the two unique tables.     *)
(* What a sweep frees is left open here; DwStore says what it is.          *)
(***************************************************************************)
EXTENDS Integers

CONSTANTS
    Kind,               \* the node tables
    InitialGcLimit,     \* kInitialGcLimit
    Size                \* bound: the table sizes considered

ASSUME InitialGcLimitAssumption == InitialGcLimit \in Nat \ {0}
ASSUME SizeAssumption == Size \subseteq Nat

VARIABLES size, gcLimit

limitVars == <<size, gcLimit>>

Init == /\ size = [k \in Kind |-> 0]
        /\ gcLimit = [k \in Kind |-> InitialGcLimit]

\* A table gains nodes.
Insert == /\ size' \in [Kind -> Size]
          /\ \E k \in Kind : /\ size'[k] > size[k]
                            /\ size' = [size EXCEPT ![k] = size'[k]]
          /\ UNCHANGED gcLimit

\* The early return of garbageCollect(false) is not taken.
Triggered == \E k \in Kind : size[k] >= gcLimit[k]

AdjustedWhenFull(limit, n) ==       \* (mutant) only a full table counts
    IF n > limit THEN n + InitialGcLimit ELSE limit

AdjustedToSize(limit, n) ==         \* (mutant) no allowance on top
    IF n > (limit \div 10) * 9 THEN n ELSE limit

AdjustedLimit(limit, n) ==
    IF n > (limit \div 10) * 9 THEN n + InitialGcLimit ELSE limit

\* A sweep, forced or triggered, leaves each table no larger than it was.
Sweep(force) ==
    /\ force \/ Triggered
    /\ size' \in [Kind -> Size]
    /\ \A k \in Kind : size'[k] <= size[k]
    /\ gcLimit' = [k \in Kind |-> AdjustedLimit(gcLimit[k], size'[k])]

Next == Insert \/ Sweep(TRUE) \/ Sweep(FALSE)

Spec == Init /\ [][Next]_limitVars
-----------------------------------------------------------------------------
TypeOK == /\ size \in [Kind -> Nat]
          /\ gcLimit \in [Kind -> Nat]

(***************************************************************************)
(* The thresholds move down as well as up, but never below the first one.  *)
(***************************************************************************)
LimitAtLeastInitial == \A k \in Kind : gcLimit[k] >= InitialGcLimit

(***************************************************************************)
(* "so a table that's genuinely large doesn't trigger a full sweep on      *)
(* every subsequent allocation" (DwPackage.cpp:1130-1132): after a sweep   *)
(* each table is at least a tenth of the first limit away from the next    *)
(* one, however many nodes survived.                                       *)
(***************************************************************************)
HeadroomAfterSweep ==
    [][Sweep(TRUE) => \A k \in Kind :
          size'[k] + InitialGcLimit \div 10 <= gcLimit'[k]]_limitVars
=============================================================================
