------------------------------- MODULE DwRing -------------------------------
(***************************************************************************)
(* Two variables of type Dw, and the operators of the class applied to     *)
(* them in any order.  The property that matters is what hash-consing      *)
(* rests on: two values that were computed in different ways compare equal *)
(* exactly when they are the same element of the field.                    *)
(***************************************************************************)
EXTENDS Dw

CONSTANTS
    Constant,               \* the values the variables start with
    MaxSum, MaxK, MaxE      \* bounds on the results that are kept

\* A Dw object is made by a constructor, which canonicalizes.
ASSUME ConstantAssumption == \A z \in Constant : Canonical(z)

VARIABLES x, y
vars == <<x, y>>

Bounded(z) == /\ Abs(z.t[1]) + Abs(z.t[2]) + Abs(z.t[3]) + Abs(z.t[4]) <= MaxSum
              /\ z.k <= MaxK /\ z.e <= MaxE

Init == x \in Constant /\ y \in Constant

Becomes(z) == Bounded(z) /\ x' = z /\ UNCHANGED y

plus == Becomes(Add(x, y))
minus == Becomes(Subtract(x, y))
times == Becomes(Multiply(x, y))
negate == Becomes(Negate(x))
conj == Becomes(conjugate(x))
invert == ~isZero(x) /\ Becomes(inverse(x))
swap == x' = y /\ y' = x

Next == plus \/ minus \/ times \/ negate \/ conj \/ invert \/ swap

Spec == Init /\ [][Next]_vars
-----------------------------------------------------------------------------
(***************************************************************************)
(* Every result is in canonical form, the ones that are not kept included. *)
(***************************************************************************)
Results == {x, Add(x, y), Subtract(x, y), Multiply(x, y), Negate(x), conjugate(x)}
             \cup {inverse(z) : z \in {x} \ {Zero}}

AlwaysCanonical == \A z \in Results : Canonical(z)

Field == INSTANCE QOmegaRegisters WITH u <- Element(x), v <- Element(y),
                                       Operand <- {Element(z) : z \in Constant}

(***************************************************************************)
(* operator== is equality in the field: a value that was just computed     *)
(* equals one that was computed in another way exactly if both are the     *)
(* same element.  Hash-consing on it neither merges two different weights  *)
(* nor misses two equal ones.                                              *)
(***************************************************************************)
EqualityIsExact ==
    \A z \in Results : z = y <=> Field!Same(Element(z), Element(y))

(***************************************************************************)
(* Every operator computes the element it stands for, without error.       *)
(***************************************************************************)
ImplementsField == Field!Spec

(***************************************************************************)
(* normSquared is "always a `real' element" x + y sqrt(2) (Dw.hpp), and it *)
(* is multiplicative, which fidelity and measurement rest on.              *)
(***************************************************************************)
NormIsReal(z) == LET n == normSquared(z)
                 IN  n.t[3] = 0 /\ n.t[4] = -n.t[2]

NormsMultiply ==
    /\ NormIsReal(x)
    /\ normSquared(Multiply(x, y)) = Multiply(normSquared(x), normSquared(y))
=============================================================================
