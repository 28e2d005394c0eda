------------------------------ MODULE DwEuclid ------------------------------
(***************************************************************************)
(* Greatest common divisors in D[w] (src/dd/exact/Dw.cpp): division with   *)
(* rounding, and the choice of one among the associates of a value.        *)
(***************************************************************************)
EXTENDS Dw

roundToZero(num, den) ==    \* (mutant) the quotient is truncated
    IF num < 0 THEN -(Abs(num) \div den) ELSE num \div den

\* num/den to the nearest integer, halves away from zero.
roundRatio(num, den) ==
    LET nearest == (2 * Abs(num) + den) \div (2 * den)
    IN  IF num < 0 THEN -nearest ELSE nearest

Rounded(num, den) ==
    Integral(<<roundRatio(num[1], den), roundRatio(num[2], den),
               roundRatio(num[3], den), roundRatio(num[4], den)>>)

NearestIntegral(z) == Rounded(scaleUp(z.t, z.k), Pow2[z.k] * z.e)

roundedDivide(p, q) == NearestIntegral(Multiply(p, inverse(q)))

remainder(p, q) == Subtract(p, Multiply(roundedDivide(p, q), q))

gcd[z \in Weight \X Weight] ==
    IF isZero(z[2]) THEN z[1] ELSE gcd[<<z[2], remainder(z[1], z[2])>>]
-----------------------------------------------------------------------------
CrossTerms(p) == p[1]*p[2] + p[2]*p[3] + p[3]*p[4] + p[4]*p[1]

quarticNorm(z) ==
    Abs(normX(z.t) * normX(z.t) - 2 * (CrossTerms(z.t) * CrossTerms(z.t)))

unit == Add(sqrt2, One)
unitInv == inverse(unit)

\* One turn of the loop of reduceNorm; the same value if nothing improved.
LeastNorm(z, up, down, best, upNorm, downNorm) ==
    IF upNorm < best /\ upNorm <= downNorm THEN up
    ELSE IF downNorm < best THEN down
    ELSE z

LeastOf(z, up, down) ==
    LeastNorm(z, up, down, quarticNorm(z), quarticNorm(up), quarticNorm(down))

reduced(z) == LeastOf(z, Multiply(z, unit), Multiply(z, unitInv))

AbsTuple(z) == <<Abs(z.t[1]), Abs(z.t[2]), Abs(z.t[3]), Abs(z.t[4])>>

LexLess(p, q) ==
    \E i \in 1..4 : p[i] < q[i] /\ \A j \in 1..(i - 1) : p[j] = q[j]

\* The first of the rotations of z by w with the least tuple, with d >= 0.
Lesser(best, z) == IF LexLess(AbsTuple(z), AbsTuple(best)) THEN z ELSE best

WithPositiveD(z) == IF z.t[4] < 0 THEN Negate(z) ELSE z

iUnit == Multiply(omega, omega)
lexicographicalMinimum(z) ==
    WithPositiveD(Lesser(Lesser(Lesser(z, Multiply(z, omega)), Multiply(z, iUnit)),
                         Multiply(Multiply(z, iUnit), omega)))

\* The loop ends with the first turn that improves nothing.
normStep(rec, z, turned) == IF turned = z THEN z ELSE rec[turned]

reduceNorm[z \in Weight] == normStep(reduceNorm, z, reduced(z))

reduceAssociate(z) == lexicographicalMinimum(reduceNorm[z])
=============================================================================
