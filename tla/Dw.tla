--------------------------------- MODULE Dw ---------------------------------
(***************************************************************************)
(* Exact arithmetic in Q[w], w = e^(i pi/4)  (src/dd/exact/Dw.cpp).  A     *)
(* value (a + b w + c w^2 + d w^3) / (sqrt(2)^k e) is [t, k, e], where t   *)
(* is the tuple <<a, b, c, d>>.  Integer is unbounded, as it is in the     *)
(* code.  The loops of canonicalize are recursive functions here.          *)
(***************************************************************************)
EXTENDS Integers

Tuple == Int \X Int \X Int \X Int
DwValue == [t : Tuple, k : Nat, e : Nat \ {0}]

Abs(n) == IF n < 0 THEN -n ELSE n
Scale(n, p) == <<n * p[1], n * p[2], n * p[3], n * p[4]>>
Plus(p, q) == <<p[1] + q[1], p[2] + q[2], p[3] + q[3], p[4] + q[4]>>
DividedBy(p, n) == <<p[1] \div n, p[2] \div n, p[3] \div n, p[4] \div n>>

ZeroTuple == <<0, 0, 0, 0>>

mulTuple(p, q) ==
    <<p[1]*q[1] - p[2]*q[4] - p[3]*q[3] - p[4]*q[2],
      p[1]*q[2] + p[2]*q[1] - p[3]*q[4] - p[4]*q[3],
      p[1]*q[3] + p[2]*q[2] + p[3]*q[1] - p[4]*q[4],
      p[1]*q[4] + p[2]*q[3] + p[3]*q[2] + p[4]*q[1]>>

\* z * conj(z) is always <<x, y, 0, -y>>.
normX(p) == p[1]*p[1] + p[2]*p[2] + p[3]*p[3] + p[4]*p[4]
normY(p) == p[1]*p[2] + p[2]*p[3] + p[3]*p[4] - p[1]*p[4]

mulByConjNormNumer(p, x, y) ==
    <<p[1]*x + y*(p[4] - p[2]), p[2]*x - y*(p[1] + p[3]),
      p[3]*x - y*(p[2] + p[4]), p[4]*x + y*(p[1] - p[3])>>

TimesSqrt2(p) == <<p[2] - p[4], p[1] + p[3], p[2] + p[4], p[3] - p[1]>>

\* Integer(1) << n.
Pow2[n \in Nat] == IF n = 0 THEN 1 ELSE 2 * Pow2[n - 1]

\* p times sqrt(2)^steps.
scaleUp(p, steps) ==
    LET doubled == Scale(Pow2[steps \div 2], p)
    IN  IF steps % 2 = 1 THEN TimesSqrt2(doubled) ELSE doubled
-----------------------------------------------------------------------------
(***************************************************************************)
(* The constructor, which puts every value into canonical form.            *)
(***************************************************************************)
\* Trailing zero bits of a positive number.
lsb[n \in Nat \ {0}] == IF n % 2 = 1 THEN 0 ELSE 1 + lsb[n \div 2]

Euclid[mn \in Nat \X Nat] ==
    IF mn[2] = 0 THEN mn[1] ELSE Euclid[<<mn[2], mn[1] % mn[2]>>]

Gcd(m, n) == Euclid[<<m, n>>]

NoContent(p, e) == 1    \* (mutant) phase 2 is skipped

Content(p, e) ==
    Gcd(Gcd(Gcd(Gcd(e, Abs(p[1])), Abs(p[2])), Abs(p[3])), Abs(p[4]))

WithoutFactor(p, k, e, g) == [t |-> DividedBy(p, g), k |-> k, e |-> e \div g]
WithOddE(p, k, odd) == WithoutFactor(p, k, odd, Content(p, odd))

\* [t, k, e] with e made odd, then with nothing in common with t.
reduceRationalDenominator(p, k, e) ==
    WithOddE(p, k + 2 * lsb[e], e \div Pow2[lsb[e]])

DivisibleBySqrt2(p) == p[1] % 2 = p[3] % 2 /\ p[2] % 2 = p[4] % 2

Sqrt2Cancelled(z) == [t |-> DividedBy(TimesSqrt2(z.t), 2), k |-> z.k - 1, e |-> z.e]

reduceSqrt2Power[z \in DwValue] ==
    IF z.k > 0 /\ DivisibleBySqrt2(z.t) THEN reduceSqrt2Power[Sqrt2Cancelled(z)]
                                        ELSE z

Zero == [t |-> ZeroTuple, k |-> 0, e |-> 1]
One == [t |-> <<1, 0, 0, 0>>, k |-> 0, e |-> 1]

\* (mutant) k is reduced before the twos of e are folded into it
canonicalizePowerFirst(p, k, e) ==
    IF p = ZeroTuple THEN Zero
    ELSE LET z == reduceSqrt2Power[[t |-> p, k |-> k, e |-> e]]
         IN  reduceRationalDenominator(z.t, z.k, z.e)

canonicalize(p, k, e) ==
    IF p = ZeroTuple THEN Zero
                     ELSE reduceSqrt2Power[reduceRationalDenominator(p, k, e)]

Integral(p) == canonicalize(p, 0, 1)
sqrt2 == Integral(<<0, 1, 0, -1>>)
omega == Integral(<<0, 1, 0, 0>>)

isZero(z) == z.t = ZeroTuple
isOne(z) == z = One
-----------------------------------------------------------------------------
\* (mutant) the numerators are not brought to one rational denominator
AddScaledOnly(y, z) ==
    LET k == IF y.k < z.k THEN z.k ELSE y.k
    IN  canonicalize(Plus(scaleUp(y.t, k - y.k), scaleUp(z.t, k - z.k)), k, y.e * z.e)

\* operator+: both are brought to the larger k, and to one e where they differ.
Add(y, z) ==
    LET k == IF y.k < z.k THEN z.k ELSE y.k
        lhs == scaleUp(y.t, k - y.k)
        rhs == scaleUp(z.t, k - z.k)
    IN  IF y.e = z.e
           THEN canonicalize(Plus(lhs, rhs), k, y.e)
           ELSE canonicalize(Plus(Scale(z.e, lhs), Scale(y.e, rhs)), k, y.e * z.e)

Negate(z) == canonicalize(Scale(-1, z.t), z.k, z.e)
Subtract(y, z) == Add(y, Negate(z))

Multiply(y, z) ==
    IF isOne(y) THEN z
    ELSE IF isOne(z) THEN y
    ELSE IF isZero(y) \/ isZero(z) THEN Zero
    ELSE canonicalize(mulTuple(y.t, z.t), y.k + z.k, y.e * z.e)

ConjReversed(p) == <<p[1], p[4], p[3], p[2]>>     \* (mutant) signs kept

ConjTuple(p) == <<p[1], -p[4], -p[3], -p[2]>>
conjugate(z) == canonicalize(ConjTuple(z.t), z.k, z.e)

\* 1/(x + y sqrt(2)) = (x - y sqrt(2)) / (x^2 - 2 y^2).  Precondition: not zero.
inverse(z) ==
    LET x == normX(z.t)
        y == normY(z.t)
        d == x * x - 2 * y * y
        numerator == Scale(z.e, scaleUp(mulByConjNormNumer(ConjTuple(z.t), x, y), z.k))
    IN  canonicalize(IF d < 0 THEN Scale(-1, numerator) ELSE numerator, 0, Abs(d))

normSquared(z) == Multiply(z, conjugate(z))
-----------------------------------------------------------------------------
(***************************************************************************)
(* The canonical form of Dw.hpp: k is minimal, e is odd and positive, and  *)
(* no integer divides all of a, b, c, d and e.                             *)
(***************************************************************************)
Canonical(z) ==
    /\ z \in DwValue
    /\ z.k > 0 => ~DivisibleBySqrt2(z.t)
    /\ z.e % 2 = 1
    /\ \A g \in 2..z.e : z.e % g = 0 => \E i \in 1..4 : z.t[i] % g # 0
    /\ isZero(z) => z = Zero

\* The values that a Dw object holds.
Weight == {z \in DwValue : Canonical(z)}

(***************************************************************************)
(* The element of the field that a Dw stands for, in coordinates: the      *)
(* tuple times sqrt(2)^k, over 2^k e.                                      *)
(***************************************************************************)
Element(z) == [n |-> scaleUp(z.t, z.k), d |-> Pow2[z.k] * z.e]
=============================================================================
