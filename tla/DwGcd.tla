------------------------------- MODULE DwGcd -------------------------------
(***************************************************************************)
(* The loops of Dw::gcd and Dw::reduceAssociate, which gcdNormalize runs   *)
(* on the weights of a node under NormalizationStrategy::Gcd: division     *)
(* with rounding until the remainder is 0, then the choice of one among    *)
(* the associates of the result.  One action is one turn of a loop.        *)
(***************************************************************************)
EXTENDS DwEuclid

CONSTANTS Input,    \* the values gcd is called with, all with e = 1
          Divisor   \* sample of the elements that may divide them

\* gcd asserts e = 1; a Dw object is made by a constructor, which canonicalizes.
ASSUME InputAssumption == \A z \in Input : Canonical(z) /\ z.e = 1
ASSUME DivisorAssumption == \A z \in Divisor : Canonical(z)

VARIABLES in1, in2,     \* the operands of gcd
          z1, z2,       \* its local variables; then z1 is `candidate'
          pc            \* the loop that runs
vars == <<in1, in2, z1, z2, pc>>

Init == /\ in1 \in Input /\ in2 \in Input
        /\ z1 = in1 /\ z2 = in2
        /\ pc = "gcd"
-----------------------------------------------------------------------------
\* (mutant) the remainder is taken from z1 after z1 was replaced
divideAfterMove ==
    /\ pc = "gcd" /\ ~isZero(z2)
    /\ z1' = z2
    /\ z2' = Subtract(z2, Multiply(roundedDivide(z1, z2), z2))
    /\ UNCHANGED <<in1, in2, pc>>

divide ==
    /\ pc = "gcd" /\ ~isZero(z2)
    /\ z1' = z2
    /\ z2' = remainder(z1, z2)
    /\ UNCHANGED <<in1, in2, pc>>

found ==
    /\ pc = "gcd" /\ isZero(z2)
    /\ pc' = "reduceNorm"
    /\ UNCHANGED <<in1, in2, z1, z2>>
-----------------------------------------------------------------------------
reduceNormStep ==
    /\ pc = "reduceNorm" /\ ~isZero(z1) /\ reduced(z1) # z1
    /\ z1' = reduced(z1)
    /\ UNCHANGED <<in1, in2, z2, pc>>

finish ==
    /\ pc = "reduceNorm" /\ (isZero(z1) \/ reduced(z1) = z1)
    /\ z1' = lexicographicalMinimum(z1)
    /\ pc' = "done"
    /\ UNCHANGED <<in1, in2, z2>>

done == pc = "done" /\ UNCHANGED vars

Next == divide \/ found \/ reduceNormStep \/ finish \/ done

\* WF_vars(Next) with its ENABLED written out: there is a step until pc is "done".
Fairness == []<>(pc = "done") \/ []<><<Next>>_vars

Spec == Init /\ [][Next]_vars /\ Fairness
-----------------------------------------------------------------------------
\* q divides p in the ring D[w], whose elements have e = 1.
Divides(q, p) == isZero(p) \/ (~isZero(q) /\ Multiply(p, inverse(q)).e = 1)

(***************************************************************************)
(* Every turn of every loop keeps the common divisors of what is left, up  *)
(* to the value returned, which therefore is a greatest common divisor.    *)
(***************************************************************************)
CommonDivisorsKept ==
    \A q \in Divisor \cup {z1} :
        Divides(q, in1) /\ Divides(q, in2) <=> Divides(q, z1) /\ Divides(q, z2)

(***************************************************************************)
(* Division with rounding leaves a remainder whose norm over the integers  *)
(* is at most 9/16 of the divisor's, which is why gcd ends.                *)
(***************************************************************************)
NormNum(z) == normX(z.t) * normX(z.t) - 2 * normY(z.t) * normY(z.t)

RemainderShrinks ==
    [][divide => 16 * NormNum(z2') * Pow2[2 * z2.k] <= 9 * NormNum(z2) * Pow2[2 * z2'.k]]_vars

(***************************************************************************)
(* The call returns.                                                       *)
(***************************************************************************)
Returns == <>(pc = "done")

(***************************************************************************)
(* Dw.hpp:126 calls reduceAssociate "a full canonical-associate            *)
(* selection": associates of the result should lead to the same result.    *)
(***************************************************************************)
CanonicalAssociate ==
    pc = "done" => \A u \in {omega, unit, unitInv} :
                      reduceAssociate(Multiply(z1, u)) = z1
=============================================================================
