------------------------------ MODULE DwGcdProofs ------------------------------
(***************************************************************************)
(* Theorems of DwGcd, for all inputs: no turn of a loop gains or loses a   *)
(* common divisor, and a turn of gcd's loop leaves a norm at most 9/16 of  *)
(* the divisor's.                                                          *)
(***************************************************************************)
EXTENDS DwGcd, DwProofs

(***************************************************************************)
(* Divisibility.  Divides says that there is a quotient in the ring.       *)
(***************************************************************************)
\* q divides p exactly if p is q times an element of D[w].
LEMMA DividesIsMultiple ==
    ASSUME NEW q, NEW p, Canonical(q), Canonical(p)
    PROVE  Divides(q, p) <=> \E h : RingElement(h) /\ p = Multiply(h, q)
<1>1. CASE isZero(p)
  <2>1. p = Zero /\ RingElement(Zero) /\ Multiply(Zero, q) = Zero
    BY <1>1, OneAndZero
  <2> QED BY <1>1, <2>1 DEF Divides
<1>2. CASE ~isZero(p) /\ isZero(q)
  <2>1. q = Zero /\ p # Zero
    BY <1>2, OneAndZero
  <2>2. ASSUME NEW h, RingElement(h) PROVE Multiply(h, q) = Zero
    BY <2>1, <2>2, OneAndZero DEF RingElement
  <2> QED BY <1>2, <2>1, <2>2 DEF Divides
<1>3. CASE ~isZero(p) /\ ~isZero(q)
  <2> DEFINE i == inverse(q)
             h == Multiply(p, i)
  <2>1. Canonical(i) /\ Multiply(i, q) = One /\ Multiply(q, i) = One
    <3>1. Canonical(i) /\ Multiply(i, q) = One
      BY <1>3, InverseTimes
    <3> HIDE DEF i
    <3> QED BY <3>1, TimesCommutes
  <2>2. Divides(q, p) <=> h.e = 1
    BY <1>3 DEF Divides
  <2> HIDE DEF i
  <2>3. Canonical(h)
    BY <2>1, CanonicalClosure
  <2>4. Multiply(h, q) = p
    <3>1. Multiply(h, q) = Multiply(p, Multiply(i, q))
      BY <2>1, TimesAssociates
    <3> QED BY <2>1, <3>1, OneAndZero
  <2>5. ASSUME NEW g, RingElement(g), p = Multiply(g, q) PROVE h = g
    <3>1. Multiply(Multiply(g, q), i) = Multiply(g, Multiply(q, i))
      BY <2>1, <2>5, TimesAssociates DEF RingElement
    <3> QED BY <2>1, <2>5, <3>1, OneAndZero DEF RingElement
  <2> HIDE DEF h
  <2> QED BY <2>2, <2>3, <2>4, <2>5 DEF RingElement
<1> QED BY <1>1, <1>2, <1>3

\* A common divisor divides the sum.
LEMMA DividesSum ==
    ASSUME NEW q, NEW a, NEW b, Canonical(q), Canonical(a), Canonical(b),
           Divides(q, a), Divides(q, b)
    PROVE  Divides(q, Add(a, b))
<1>1. PICK g : RingElement(g) /\ a = Multiply(g, q)
  BY DividesIsMultiple
<1>2. PICK h : RingElement(h) /\ b = Multiply(h, q)
  BY DividesIsMultiple
<1>3. Add(a, b) = Multiply(Add(g, h), q)
  BY <1>1, <1>2, TimesDistributes DEF RingElement
<1>4. RingElement(Add(g, h)) /\ Canonical(Add(a, b))
  BY <1>1, <1>2, RingClosure, CanonicalClosure
<1> QED BY <1>3, <1>4, DividesIsMultiple

\* A divisor divides every multiple.
LEMMA DividesMultiple ==
    ASSUME NEW q, NEW a, NEW m, Canonical(q), Canonical(a), RingElement(m), Divides(q, a)
    PROVE  Divides(q, Multiply(m, a))
<1>1. PICK g : RingElement(g) /\ a = Multiply(g, q)
  BY DividesIsMultiple
<1>2. Multiply(m, a) = Multiply(Multiply(m, g), q)
  BY <1>1, TimesAssociates DEF RingElement
<1>3. RingElement(Multiply(m, g)) /\ Canonical(Multiply(m, a))
  BY <1>1, RingClosure, CanonicalClosure DEF RingElement
<1> QED BY <1>2, <1>3, DividesIsMultiple

\* A common divisor divides the difference.
LEMMA DividesDifference ==
    ASSUME NEW q, NEW a, NEW b, Canonical(q), Canonical(a), Canonical(b),
           Divides(q, a), Divides(q, b)
    PROVE  Divides(q, Subtract(a, b))
<1>1. PICK h : RingElement(h) /\ b = Multiply(h, q)
  BY DividesIsMultiple
<1>2. Negate(b) = Multiply(Negate(h), q)
  BY <1>1, NegateTimes DEF RingElement
<1>3. RingElement(Negate(h)) /\ Canonical(Negate(b))
  BY <1>1, RingClosure, CanonicalClosure
<1>4. Divides(q, Negate(b))
  BY <1>2, <1>3, DividesIsMultiple
<1> QED BY <1>3, <1>4, DividesSum DEF Subtract

(***************************************************************************)
(* One turn of gcd's loop: the pairs of operands before and after have the *)
(* same common divisors.                                                   *)
(***************************************************************************)
LEMMA RemainderKeepsDivisors ==
    ASSUME NEW q, NEW a, NEW b, Canonical(q), RingElement(a), RingElement(b), ~isZero(b)
    PROVE  /\ RingElement(remainder(a, b))
           /\ Divides(q, a) /\ Divides(q, b)
                 <=> Divides(q, b) /\ Divides(q, remainder(a, b))
<1> DEFINE r == roundedDivide(a, b)
           m == Multiply(r, b)
           s == Subtract(a, m)
<1>1. RingElement(r)
  BY RoundedInRing DEF RingElement
<1> HIDE DEF r
<1>2. RingElement(m)
  BY <1>1, RingClosure
<1>3. ASSUME Divides(q, b) PROVE Divides(q, m)
  BY <1>1, <1>3, DividesMultiple DEF RingElement
<1> HIDE DEF m
<1>4. RingElement(s) /\ Add(s, m) = a
  BY <1>2, RingClosure, DifferencePlus DEF RingElement
<1>5. ASSUME Divides(q, a), Divides(q, b) PROVE Divides(q, s)
  BY <1>2, <1>3, <1>5, DividesDifference DEF RingElement
<1> HIDE DEF s
<1>6. ASSUME Divides(q, b), Divides(q, s) PROVE Divides(q, a)
  BY <1>2, <1>3, <1>4, <1>6, DividesSum DEF RingElement
<1>7. remainder(a, b) = s
  BY DEF remainder, r, m, s
<1> QED BY <1>4, <1>5, <1>6, <1>7
\* Associates have the same divisors.
LEMMA AssociateKeepsDivisors ==
    ASSUME NEW z, NEW y, NEW q, RingElement(z), Canonical(q), Associate(y, z)
    PROVE  Divides(q, y) <=> Divides(q, z)
<1>1. PICK u : Unit(u) /\ y = Multiply(z, u)
  BY DEF Associate
<1>2. PICK v : RingElement(v) /\ Multiply(u, v) = One
  BY <1>1 DEF Unit
<1>3. /\ RingElement(u) /\ RingElement(y) /\ Canonical(u) /\ Canonical(v) /\ Canonical(y)
      /\ Canonical(z)
  BY <1>1, <1>2, RingClosure DEF Unit, RingElement
<1>4. y = Multiply(u, z)
  BY <1>1, <1>3, TimesCommutes
<1>5. z = Multiply(v, y)
  <2>1. Multiply(Multiply(z, u), v) = Multiply(z, Multiply(u, v))
    BY <1>3, TimesAssociates
  <2>2. Multiply(z, One) = z
    BY <1>3, OneAndZero
  <2>3. Multiply(y, v) = Multiply(v, y)
    BY <1>3, TimesCommutes
  <2>4. Multiply(y, v) = z
    BY <1>1, <1>2, <2>1, <2>2
  <2> QED BY <2>3, <2>4
<1>6. ASSUME Divides(q, z) PROVE Divides(q, y)
  BY <1>3, <1>4, <1>6, DividesMultiple
<1>7. ASSUME Divides(q, y) PROVE Divides(q, z)
  <2> HIDE <1>1
  <2> QED BY <1>2, <1>3, <1>5, <1>7, DividesMultiple
<1> QED BY <1>6, <1>7

-----------------------------------------------------------------------------
(***************************************************************************)
(* The invariant: the numbers stay in the ring, and what is left has the   *)
(* common divisors of the operands, among all canonical values.            *)
(***************************************************************************)
RingInv == RingElement(in1) /\ RingElement(in2) /\ RingElement(z1) /\ RingElement(z2)

DivisorInv ==
    \A q : Canonical(q) =>
              (Divides(q, in1) /\ Divides(q, in2) <=> Divides(q, z1) /\ Divides(q, z2))

IInv == RingInv /\ DivisorInv

\* Before the first turn the pair is the pair of operands.
LEMMA InitKeepsDivisors == Init => IInv
BY InputAssumption DEF Init, IInv, RingInv, DivisorInv, RingElement

\* An associate of z1 in its place.
LEMMA ReplacedByAssociate ==
    ASSUME IInv, UNCHANGED <<in1, in2, z2>>, Associate(z1', z1)
    PROVE  IInv'
<1>1. RingElement(z1')
  BY AssociateInRing DEF IInv, RingInv
<1>2. ASSUME NEW q, Canonical(q) PROVE Divides(q, z1') <=> Divides(q, z1)
  BY <1>2, AssociateKeepsDivisors DEF IInv, RingInv
<1>3. RingInv'
  BY <1>1 DEF IInv, RingInv
<1>4. DivisorInv'
  BY <1>2 DEF IInv, DivisorInv
<1> QED BY <1>3, <1>4 DEF IInv

\* No turn of a loop gains or loses a common divisor.
LEMMA StepKeepsDivisors == IInv /\ [Next]_vars => IInv'
<1> SUFFICES ASSUME IInv, [Next]_vars PROVE IInv'
  OBVIOUS
<1>1. CASE divide
  <2>1. /\ RingElement(z1) /\ RingElement(z2) /\ ~isZero(z2)
        /\ z1' = z2 /\ z2' = remainder(z1, z2) /\ in1' = in1 /\ in2' = in2
    BY <1>1 DEF divide, IInv, RingInv
  <2>2. RingElement(remainder(z1, z2))
    BY <2>1, RemainderKeepsDivisors DEF RingElement
  <2>3. ASSUME NEW q, Canonical(q)
        PROVE  Divides(q, z1) /\ Divides(q, z2) <=> Divides(q, z2) /\ Divides(q, remainder(z1, z2))
    BY <2>1, <2>3, RemainderKeepsDivisors
  <2>4. RingInv'
    BY <2>1, <2>2 DEF IInv, RingInv
  <2>5. DivisorInv'
    BY <2>1, <2>3 DEF IInv, DivisorInv
  <2> QED BY <2>4, <2>5 DEF IInv
<1>2. CASE found
  BY <1>2, AssociateItself, ReplacedByAssociate DEF found, IInv, RingInv
<1>3. CASE reduceNormStep
  BY <1>3, ReducedIsAssociate, ReplacedByAssociate DEF reduceNormStep, IInv, RingInv
<1>4. CASE finish
  BY <1>4, MinimumIsAssociate, ReplacedByAssociate DEF finish, IInv, RingInv
<1>5. CASE UNCHANGED vars
  BY <1>5 DEF vars, IInv, RingInv, DivisorInv
<1> QED BY <1>1, <1>2, <1>3, <1>4, <1>5 DEF Next, done

\* Hence the invariant holds at every turn.
LEMMA DivisorsKept == Spec => []IInv
BY InitKeepsDivisors, StepKeepsDivisors, PTL DEF Spec

(***************************************************************************)
(* No turn of gcd's loop, of reduceNorm's, nor the choice of an associate  *)
(* gains or loses a common divisor of the operands.                        *)
(***************************************************************************)
THEOREM CommonDivisorsAlwaysKept == Spec => []CommonDivisorsKept
<1>1. IInv => CommonDivisorsKept
  BY DivisorAssumption DEF IInv, RingInv, DivisorInv, RingElement, CommonDivisorsKept
<1> QED BY <1>1, DivisorsKept, PTL
-----------------------------------------------------------------------------
\* Both sides of an equality of norms divided by what they have in common.
LEMMA NormRatio ==
    ASSUME NEW e \in Nat \ {0}, NEW u \in Nat \ {0}, NEW w \in Nat \ {0},
           NEW m \in Nat, NEW b \in Nat, NEW v \in Nat,
           ((e * u) * (e * u)) * (w * m) = (w * w) * (v * (u * b)),
           16 * v <= 9 * (e * e)
    PROVE  (16 * m) * u <= (9 * b) * w
<1> DEFINE g == w * u
           l == (e * e) * (u * m)
           r == v * (w * b)
<1>1. g \in Nat \ {0} /\ l \in Nat /\ r \in Nat /\ w * b \in Nat /\ u * m \in Nat
      /\ e * e \in Nat \ {0}
  OBVIOUS
<1>2. g * l = g * r
  <2>1. g * l = ((e * u) * (e * u)) * (w * m)
    OBVIOUS
  <2>2. g * r = (w * w) * (v * (u * b))
    OBVIOUS
  <2> QED BY <2>1, <2>2
<1>3. l = r
  <2> HIDE DEF g, l, r
  <2> QED BY <1>1, <1>2, Cancellation
<1> DEFINE c == w * b
           x == u * m
           f == e * e
<1>4. c \in Nat /\ x \in Nat /\ f \in Nat \ {0} /\ f * x = v * c /\ 16 * v <= 9 * f
  BY <1>1, <1>3
<1> HIDE DEF c, x, f
<1>5. f * (16 * x) <= f * (9 * c)
  <2>1. f * (16 * x) = (16 * v) * c
    BY <1>4
  <2>2. (9 * f - 16 * v) * c >= 0 /\ (9 * f - 16 * v) * c = f * (9 * c) - (16 * v) * c
    BY <1>4
  <2> QED BY <1>4, <2>1, <2>2
<1>6. 16 * x <= 9 * c
  <2> DEFINE y == 9 * c - 16 * x
  <2>1. y \in Int /\ f * y >= 0
    BY <1>4, <1>5
  <2> HIDE DEF y
  <2>2. ASSUME y <= -1 PROVE FALSE
    <3>1. f * (-1 - y) >= 0 /\ f * (-1 - y) = -f - f * y
      BY <1>4, <2>1, <2>2
    <3> QED BY <1>4, <2>1, <3>1
  <2>3. y >= 0
    BY <2>1, <2>2
  <2> QED BY <1>4, <2>3 DEF y
<1> QED BY <1>6 DEF c, x

\* An element of D[w]: its denominator is a power of 2.
LEMMA ElementInRing ==
    ASSUME NEW z, RingElement(z)
    PROVE  /\ Canonical(z) /\ z.t \in Tuple /\ z.k \in Nat
           /\ Element(z) \in Fraction /\ Element(z).n = scaleUp(z.t, z.k) /\ Element(z).d = Pow2[z.k]
           /\ Pow2[z.k] \in Nat \ {0} /\ Pow2[2 * z.k] = Pow2[z.k] * Pow2[z.k]
           /\ NormNum(z) \in Nat
           /\ FieldNorm(scaleUp(z.t, z.k)) = Pow2[2 * z.k] * NormNum(z)
<1>1. Canonical(z) /\ z.e = 1
  BY DEF RingElement
<1>2. z \in DwValue /\ z.t \in Tuple /\ z.k \in Nat
  BY <1>1, CanonicalFacts
<1>3. Pow2[z.k] \in Nat \ {0} /\ Pow2[z.k] * 1 = Pow2[z.k]
  <2>1. Pow2[z.k] \in Nat \ {0}
    BY <1>2, Pow2Def
  <2> QED BY <2>1
<1>4. /\ Element(z) \in Fraction /\ Element(z).n = scaleUp(z.t, z.k) /\ Element(z).d = Pow2[z.k]
  BY <1>1, <1>2, <1>3, ElementFields DEF Element
<1>5. Pow2[2 * z.k] = Pow2[z.k] * Pow2[z.k]
  <2>1. 2 * z.k = z.k + z.k
    BY <1>2
  <2>2. Pow2[z.k + z.k] = Pow2[z.k] * Pow2[z.k]
    BY <1>2, Pow2Sum
  <2> QED BY <2>1, <2>2
<1>6. NormNum(z) = FieldNorm(z.t)
  BY DEF NormNum, FieldNorm
<1>7. FieldNorm(z.t) \in Nat
  BY <1>2, NormInt
<1>8. FieldNorm(scaleUp(z.t, z.k)) = Pow2[2 * z.k] * FieldNorm(z.t)
  BY <1>2, NormOfScaleUp
<1> QED BY <1>1, <1>2, <1>3, <1>4, <1>5, <1>6, <1>7, <1>8

\* One division of gcd: the bound for all operands.
LEMMA RemainderNorm ==
    ASSUME NEW a, NEW b, RingElement(a), RingElement(b), ~isZero(b)
    PROVE  16 * NormNum(remainder(a, b)) * Pow2[2 * b.k]
              <= 9 * NormNum(b) * Pow2[2 * remainder(a, b).k]
<1> DEFINE z == Multiply(a, inverse(b))
           q == roundedDivide(a, b)
           m == remainder(a, b)
           s == Subtract(z, q)
           M == scaleUp(m.t, m.k)
           B == scaleUp(b.t, b.k)
           i == Pow2[m.k]
           j == Pow2[b.k]
           f == NormNum(m)
           g == NormNum(b)
<1>1. Canonical(z) /\ RingElement(q) /\ m = Multiply(s, b) /\ q = NearestIntegral(z)
  BY RemainderIsProduct DEF roundedDivide, RingElement
<1>2. RingElement(m)
  <2>1. Canonical(Zero)
    BY Constants
  <2> QED BY <2>1, RemainderKeepsDivisors
<1> HIDE DEF z, q, m
<1>3. PICK v \in Tuple, n \in Nat \ {0} :
         /\ Denotes(s, [n |-> v, d |-> n])
         /\ 2 * Abs(v[1]) <= n /\ 2 * Abs(v[2]) <= n
         /\ 2 * Abs(v[3]) <= n /\ 2 * Abs(v[4]) <= n
  BY <1>1, LeftByRounding
<1> HIDE DEF s
<1>4. 16 * FieldNorm(v) <= 9 * ((n * n) * (n * n))
  BY <1>3, NormOfRounding
<1>5. /\ b.t \in Tuple /\ b.k \in Nat /\ Denotes(b, Element(b)) /\ Element(b) \in Fraction
      /\ Element(b).n = B /\ Element(b).d = j /\ j \in Nat \ {0} /\ Pow2[2 * b.k] = j * j
      /\ g \in Nat /\ FieldNorm(B) = (j * j) * g
  <2>1. Denotes(b, Element(b))
    BY DenotesElement DEF RingElement
  <2> QED BY <2>1, ElementInRing
<1>6. /\ Canonical(m) /\ m.t \in Tuple /\ m.k \in Nat /\ Element(m) \in Fraction
      /\ Element(m).n = M /\ Element(m).d = i /\ i \in Nat \ {0} /\ Pow2[2 * m.k] = i * i
      /\ f \in Nat /\ FieldNorm(M) = (i * i) * f
  BY <1>2, ElementInRing
<1>7. B \in Tuple /\ M \in Tuple
  BY <1>5, <1>6, ScaleUpStep
<1> HIDE DEF B, M, i, j, f, g
<1> DEFINE V == [n |-> v, d |-> n]
           P == F!Product(V, Element(b))
<1>8. V \in Fraction /\ V.n = v /\ V.d = n
  BY <1>3 DEF Fraction
<1> HIDE DEF V
<1>9. P.n = mulTuple(v, B) /\ P.d = n * j
  BY <1>5, <1>8, FieldClosure
<1>10. SameValue(Element(m), P)
  <2>1. Denotes(Multiply(s, b), P)
    BY <1>3, <1>5, DenotesProduct DEF V
  <2> QED BY <1>1, <2>1 DEF Denotes
<1> DEFINE nj == n * j
           vB == mulTuple(v, B)
<1>11. Scale(nj, M) = Scale(i, vB) /\ nj \in Int /\ vB \in Tuple /\ i \in Int
  <2>1. Scale(nj, M) = Scale(i, vB)
    BY <1>6, <1>9, <1>10 DEF SameValue
  <2>2. vB \in Tuple
    BY <1>3, <1>7, TupleClosure
  <2>3. nj \in Int /\ i \in Int
    BY <1>3, <1>5, <1>6
  <2> QED BY <2>1, <2>2, <2>3
<1>12. FieldNorm(vB) = FieldNorm(v) * FieldNorm(B)
  BY <1>3, <1>7, NormOfTuples
<1> HIDE DEF nj, vB
<1>13. ((nj * nj) * (nj * nj)) * FieldNorm(M) = ((i * i) * (i * i)) * FieldNorm(vB)
  <2>1. FieldNorm(Scale(nj, M)) = ((nj * nj) * (nj * nj)) * FieldNorm(M)
    BY <1>7, <1>11, NormOfScale
  <2>2. FieldNorm(Scale(i, vB)) = ((i * i) * (i * i)) * FieldNorm(vB)
    BY <1>11, NormOfScale
  <2> QED BY <1>11, <2>1, <2>2
<1> DEFINE e == n * n
           u == j * j
           w == i * i
           x == FieldNorm(v)
<1>14. e \in Nat \ {0} /\ u \in Nat \ {0} /\ w \in Nat \ {0} /\ x \in Nat
  <2>1. \A k \in Nat \ {0} : k * k \in Nat \ {0}
    OBVIOUS
  <2> QED BY <1>3, <1>5, <1>6, <2>1, NormInt
<1>15. nj * nj = e * u
  <2>1. (n * j) * (n * j) = (n * n) * (j * j)
    BY <1>3, <1>5
  <2> QED BY <2>1 DEF nj
<1>16. ((e * u) * (e * u)) * (w * f) = (w * w) * (x * (u * g))
  BY <1>5, <1>6, <1>12, <1>13, <1>15
<1>17. 16 * x <= 9 * (e * e)
  BY <1>4
<1>18. Pow2[2 * b.k] = u /\ Pow2[2 * m.k] = w
  BY <1>5, <1>6
<1> HIDE DEF e, u, w, x
<1>19. (16 * f) * u <= (9 * g) * w
  BY <1>5, <1>6, <1>14, <1>16, <1>17, NormRatio
<1> QED BY <1>18, <1>19 DEF f, g, m

(***************************************************************************)
(* Every turn of gcd's loop leaves a remainder whose norm is at most 9/16  *)
(* of the divisor's.                                                       *)
(***************************************************************************)
THEOREM RemainderAlwaysShrinks == Spec => RemainderShrinks
<1>1. IInv /\ [Next]_vars =>
         [divide => 16 * NormNum(z2') * Pow2[2 * z2.k] <= 9 * NormNum(z2) * Pow2[2 * z2'.k]]_vars
  <2> SUFFICES ASSUME IInv, divide
               PROVE  16 * NormNum(z2') * Pow2[2 * z2.k] <= 9 * NormNum(z2) * Pow2[2 * z2'.k]
    OBVIOUS
  <2>1. RingElement(z1) /\ RingElement(z2) /\ ~isZero(z2) /\ z2' = remainder(z1, z2)
    BY DEF divide, IInv, RingInv
  <2> QED BY <2>1, RemainderNorm
<1> QED BY <1>1, DivisorsKept, PTL DEF Spec, RemainderShrinks
=============================================================================
