----------------------------- MODULE DwRingProofs -----------------------------
(***************************************************************************)
(* Theorems of DwRing, for every set of constants and every bound.  The    *)
(* inductive invariant is that both variables are canonical: each operator *)
(* keeps it, because it ends in the constructor, and canonical values are  *)
(* equal exactly if they stand for one element of the field.               *)
(***************************************************************************)
EXTENDS DwRing, DwProofs

IInv == Canonical(x) /\ Canonical(y)

\* Zero is the only canonical value without coefficients.
LEMMA NonZeroTuple ==
    ASSUME NEW z, Canonical(z)
    PROVE  (isZero(z) <=> z = Zero) /\ (z # Zero => z.t # ZeroTuple)
BY DEF Canonical, isZero, Zero

\* Each operator, applied to canonical values, makes a canonical value.
LEMMA ResultsAreCanonical ==
    ASSUME NEW p, NEW q, Canonical(p), Canonical(q)
    PROVE  /\ Canonical(Add(p, q)) /\ Canonical(Subtract(p, q)) /\ Canonical(Multiply(p, q))
           /\ Canonical(Negate(p)) /\ Canonical(conjugate(p))
           /\ p # Zero => Canonical(inverse(p))
<1>1. p \in DwValue /\ q \in DwValue
  BY CanonicalFacts
<1>2. p # Zero => Canonical(inverse(p))
  BY <1>1, NonZeroTuple, InverseIsInverse
<1>3. Canonical(Add(p, q))
  BY <1>1, AddIsExact
<1>4. Canonical(Subtract(p, q))
  BY <1>1, SubtractIsExact
<1>5. Canonical(Multiply(p, q))
  BY MultiplyIsExact
<1>6. Canonical(Negate(p)) /\ Canonical(conjugate(p))
  BY <1>1, NegateIsExact, ConjugateIsExact
<1> QED BY <1>2, <1>3, <1>4, <1>5, <1>6

\* The variables start canonical, as constructors make them.
LEMMA InitIsCanonical == Init => IInv
BY ConstantAssumption DEF Init, IInv

\* No operator leaves the canonical values.
LEMMA StepIsCanonical == IInv /\ [Next]_vars => IInv'
<1> SUFFICES ASSUME IInv, [Next]_vars PROVE IInv'
  OBVIOUS
<1> USE DEF IInv
<1>1. ASSUME NEW z, Canonical(z), Becomes(z) PROVE IInv'
  BY <1>1 DEF Becomes
<1>2. CASE plus
  BY <1>1, <1>2, ResultsAreCanonical DEF plus
<1>3. CASE minus
  BY <1>1, <1>3, ResultsAreCanonical DEF minus
<1>4. CASE times
  BY <1>1, <1>4, ResultsAreCanonical DEF times
<1>5. CASE negate
  BY <1>1, <1>5, ResultsAreCanonical DEF negate
<1>6. CASE conj
  BY <1>1, <1>6, ResultsAreCanonical DEF conj
<1>7. CASE invert
  <2>1. x # Zero
    BY <1>7, NonZeroTuple DEF invert
  <2> QED BY <1>1, <1>7, <2>1, ResultsAreCanonical DEF invert
<1>8. CASE swap
  BY <1>8 DEF swap
<1>9. CASE UNCHANGED vars
  BY <1>9 DEF vars
<1> QED BY <1>2, <1>3, <1>4, <1>5, <1>6, <1>7, <1>8, <1>9 DEF Next

\* The variables hold canonical values, whatever operators were applied.
LEMMA VariablesAreCanonical == Spec => []IInv
<1>1. Init => IInv
  BY InitIsCanonical
<1>2. IInv /\ [Next]_vars => IInv'
  BY StepIsCanonical
<1> QED BY <1>1, <1>2, PTL DEF Spec

\* The operators that are applied to the variables next make canonical values.
LEMMA CanonicalResults == IInv => AlwaysCanonical
<1> SUFFICES ASSUME IInv, NEW z \in Results PROVE Canonical(z)
  BY DEF AlwaysCanonical
<1> USE DEF IInv
<1>1. CASE z \in {x, Add(x, y), Subtract(x, y), Multiply(x, y), Negate(x), conjugate(x)}
  BY <1>1, ResultsAreCanonical
<1>2. CASE z \in {inverse(w) : w \in {x} \ {Zero}}
  BY <1>2, ResultsAreCanonical
<1> QED BY <1>1, <1>2 DEF Results

(***************************************************************************)
(* Every result of every operator is canonical, at any depth of expression *)
(* and however large its integers grow.                                    *)
(***************************************************************************)
THEOREM ResultsStayCanonical == Spec => []AlwaysCanonical
BY CanonicalResults, VariablesAreCanonical, PTL

\* The field's operators are the ones the lemmas about Dw are stated with.
LEMMA FieldIsF ==
    /\ \A p, q : Field!Same(p, q) <=> F!Same(p, q)
    /\ \A p, q : Field!Sum(p, q) = F!Sum(p, q)
    /\ \A p, q : Field!Product(p, q) = F!Product(p, q)
    /\ \A p : Field!Opposite(p) = F!Opposite(p)
    /\ \A p : Field!Conjugate(p) = F!Conjugate(p)
    /\ Field!One = F!One
<1>1. \A m, p : Field!Times(m, p) = F!Times(m, p)
  BY DEF Field!Times, F!Times
<1>2. \A p, q : Field!Plus(p, q) = F!Plus(p, q)
  BY DEF Field!Plus, F!Plus
<1>3. \A p : Field!TimesOmega(p) = F!TimesOmega(p)
  BY DEF Field!TimesOmega, F!TimesOmega
<1>4. \A p, q : Field!Convolution(p, q) = F!Convolution(p, q)
  BY <1>1, <1>2, <1>3 DEF Field!Convolution, F!Convolution
<1>5. \A p, q : Field!Same(p, q) <=> F!Same(p, q)
  BY <1>1 DEF Field!Same, F!Same
<1>6. \A p, q : Field!Sum(p, q) = F!Sum(p, q)
  BY <1>1, <1>2 DEF Field!Sum, F!Sum
<1>7. \A p, q : Field!Product(p, q) = F!Product(p, q)
  BY <1>4 DEF Field!Product, F!Product
<1>8. \A p : Field!Opposite(p) = F!Opposite(p)
  BY <1>1 DEF Field!Opposite, F!Opposite
<1>9. \A p : Field!Conjugate(p) = F!Conjugate(p)
  BY DEF Field!Conjugate, F!Conjugate
<1>10. Field!One = F!One
  BY DEF Field!One, F!One
<1> QED BY <1>5, <1>6, <1>7, <1>8, <1>9, <1>10

(***************************************************************************)
(* operator== is equality in the field, for the result of any operator and *)
(* a value that was computed in another way.                               *)
(***************************************************************************)
THEOREM EqualityAlwaysExact == Spec => []EqualityIsExact
<1>1. IInv => EqualityIsExact
  <2> SUFFICES ASSUME IInv, NEW z \in Results
               PROVE  z = y <=> Field!Same(Element(z), Element(y))
    BY DEF EqualityIsExact
  <2>1. Canonical(z) /\ Canonical(y)
    BY CanonicalResults DEF AlwaysCanonical, IInv
  <2> QED BY <2>1, CanonicalIsUnique, FieldIsF, FieldCoordinates
<1> QED BY <1>1, VariablesAreCanonical, PTL

(***************************************************************************)
(* Every step of the program is a step of the field: refinement.           *)
(***************************************************************************)
THEOREM RingImplementsField == Spec => ImplementsField
<1>1. Init => Field!Init
  BY DEF Init, Field!Init
<1>2. IInv /\ [Next]_vars => [Field!Next]_<<Element(x), Element(y)>>
  <2> SUFFICES ASSUME IInv, [Next]_vars PROVE Field!Next \/ UNCHANGED <<Element(x), Element(y)>>
    OBVIOUS
  <2> USE DEF IInv
  <2>1. x \in DwValue /\ y \in DwValue
    BY CanonicalFacts
  <2>2. ASSUME NEW z, Becomes(z)
        PROVE  Element(x)' = Element(z) /\ UNCHANGED Element(y)
    BY <2>2 DEF Becomes
  <2>3. CASE plus
    <3>1. Element(x)' = Element(Add(x, y)) /\ UNCHANGED Element(y)
      BY <2>2, <2>3 DEF plus
    <3>2. Field!Same(Element(x)', Field!Sum(Element(x), Element(y)))
      BY <2>1, <3>1, AddIsExact, FieldIsF
    <3> QED BY <3>1, <3>2 DEF Field!Next
  <2>4. CASE minus
    <3>1. Element(x)' = Element(Subtract(x, y)) /\ UNCHANGED Element(y)
      BY <2>2, <2>4 DEF minus
    <3>2. Field!Same(Element(x)', Field!Sum(Element(x), Field!Opposite(Element(y))))
      BY <2>1, <3>1, SubtractIsExact, FieldIsF
    <3> QED BY <3>1, <3>2 DEF Field!Next
  <2>5. CASE times
    <3>1. Element(x)' = Element(Multiply(x, y)) /\ UNCHANGED Element(y)
      BY <2>2, <2>5 DEF times
    <3>2. Field!Same(Element(x)', Field!Product(Element(x), Element(y)))
      BY <3>1, MultiplyIsExact, FieldIsF
    <3> QED BY <3>1, <3>2 DEF Field!Next
  <2>6. CASE negate
    <3>1. Element(x)' = Element(Negate(x)) /\ UNCHANGED Element(y)
      BY <2>2, <2>6 DEF negate
    <3>2. Field!Same(Element(x)', Field!Opposite(Element(x)))
      BY <2>1, <3>1, NegateIsExact, FieldIsF
    <3> QED BY <3>1, <3>2 DEF Field!Next
  <2>7. CASE conj
    <3>1. Element(x)' = Element(conjugate(x)) /\ UNCHANGED Element(y)
      BY <2>2, <2>7 DEF conj
    <3>2. Field!Same(Element(x)', Field!Conjugate(Element(x)))
      BY <2>1, <3>1, ConjugateIsExact, FieldIsF
    <3> QED BY <3>1, <3>2 DEF Field!Next
  <2>8. CASE invert
    <3>1. Element(x)' = Element(inverse(x)) /\ UNCHANGED Element(y)
      BY <2>2, <2>8 DEF invert
    <3>2. x.t # ZeroTuple
      BY <2>8 DEF invert, isZero
    <3>3. Field!Same(Field!Product(Element(x)', Element(x)), Field!One)
      BY <2>1, <3>1, <3>2, InverseIsInverse, FieldIsF
    <3> QED BY <3>1, <3>3 DEF Field!Next
  <2>9. CASE swap
    BY <2>9 DEF swap, Field!Next
  <2>10. CASE UNCHANGED vars
    BY <2>10 DEF vars
  <2> QED BY <2>3, <2>4, <2>5, <2>6, <2>7, <2>8, <2>9, <2>10 DEF Next
<1> QED BY <1>1, <1>2, VariablesAreCanonical, PTL DEF Spec, ImplementsField, Field!Spec

-----------------------------------------------------------------------------
(***************************************************************************)
(* The norm.                                                               *)
(***************************************************************************)
\* normSquared computes z conj(z).
LEMMA NormIsExact ==
    ASSUME NEW z, Canonical(z)
    PROVE  /\ Canonical(normSquared(z)) /\ Element(z) \in Fraction
           /\ SameValue(Element(normSquared(z)),
                        F!Product(Element(z), F!Conjugate(Element(z))))
<1> DEFINE c == conjugate(z)
           n == normSquared(z)
           e == Element(z)
<1>1. z \in DwValue /\ e \in Fraction
  BY CanonicalFacts, ElementFields
<1>2. Canonical(c) /\ SameValue(Element(c), F!Conjugate(e)) /\ n = Multiply(z, c)
  BY <1>1, ConjugateIsExact, FieldCoordinates DEF normSquared
<1> HIDE DEF c, n
<1>3. Canonical(n) /\ SameValue(Element(n), F!Product(e, Element(c)))
  BY <1>2, MultiplyIsExact, FieldCoordinates
<1>4. Element(c) \in Fraction /\ Element(n) \in Fraction
  BY <1>2, <1>3, CanonicalFacts, ElementFields
<1> HIDE DEF e
<1>5. F!Conjugate(e) \in Fraction
  BY <1>1, FieldClosure
<1>6. SameValue(F!Product(e, Element(c)), F!Product(e, F!Conjugate(e)))
  BY <1>1, <1>2, <1>4, <1>5, ProductCongruence
<1>7. F!Product(e, Element(c)) \in Fraction /\ F!Product(e, F!Conjugate(e)) \in Fraction
  BY <1>1, <1>4, <1>5, FieldClosure
<1>8. SameValue(Element(n), F!Product(e, F!Conjugate(e)))
  BY <1>3, <1>4, <1>6, <1>7, SameTransitive
<1> QED BY <1>1, <1>3, <1>8 DEF e, n

\* z conj(z) is its own conjugate, so it has no coordinate i and its
\* coordinates of w and w^3 are opposite.
LEMMA NormHasNoImaginaryPart ==
    ASSUME NEW z, Canonical(z)
    PROVE  NormIsReal(z)
<1> DEFINE n == normSquared(z)
           N == Element(z).n
           r == F!Product(Element(z), F!Conjugate(Element(z)))
           t == n.t
           A == scaleUp(t, n.k)
<1>1. Canonical(n) /\ Element(z) \in Fraction /\ SameValue(Element(n), r)
  BY NormIsExact
<1>2. N \in Tuple /\ r.n = mulTuple(N, ConjTuple(N)) /\ r.d \in Nat \ {0}
  <2>1. N \in Tuple
    BY <1>1, FractionFields
  <2>2. F!Conjugate(Element(z)) \in Fraction /\ F!Conjugate(Element(z)).n = ConjTuple(N)
    BY <1>1, FieldClosure
  <2>3. r \in Fraction /\ r.n = mulTuple(N, ConjTuple(N))
    BY <1>1, <2>2, FieldClosure
  <2> QED BY <2>1, <2>3, FractionFields
<1>3. ConjTuple(r.n) = r.n /\ r.n \in Tuple
  <2>1. mulTuple(N, ConjTuple(N)) = <<normX(N), normY(N), 0, -normY(N)>>
    BY <1>2, NormTuple
  <2>2. normX(N) \in Int /\ normY(N) \in Int
    BY <1>2, Components DEF normX, normY
  <2> QED BY <1>2, <2>1, <2>2 DEF ConjTuple, Tuple
<1>4. /\ t \in Tuple /\ n.k \in Nat /\ A \in Tuple
      /\ Element(n).n = A /\ Element(n).d \in Nat \ {0}
  <2>1. n \in DwValue /\ t \in Tuple /\ n.k \in Nat
    BY <1>1, CanonicalFacts
  <2>2. Element(n).n = A /\ Element(n) \in Fraction
    BY <2>1, ElementFields DEF Element
  <2> QED BY <2>1, <2>2, ScaleUpStep, FractionFields
<1> DEFINE a == r.d
           b == Element(n).d
           R == r.n
<1>5. Scale(a, A) = Scale(b, R)
  BY <1>1, <1>4 DEF SameValue
<1>6. a \in Nat \ {0} /\ b \in Nat \ {0} /\ a \in Int /\ b \in Int /\ R \in Tuple /\ ConjTuple(R) = R
  BY <1>2, <1>3, <1>4
<1> HIDE DEF n, N, r, t, A, a, b, R
<1>7. ConjTuple(A) = A
  <2>1. ConjTuple(A) \in Tuple
    BY <1>4, TupleClosure
  <2>2. Scale(a, ConjTuple(A)) = ConjTuple(Scale(a, A))
    BY <1>4, <1>6, ScaleIsLinear
  <2>3. ConjTuple(Scale(b, R)) = Scale(b, ConjTuple(R))
    BY <1>6, ScaleIsLinear
  <2>4. Scale(a, ConjTuple(A)) = Scale(a, A)
    BY <1>5, <1>6, <2>2, <2>3
  <2> QED BY <1>4, <1>6, <2>1, <2>4, ScaleCancels
<1>8. ConjTuple(t) = t
  <2>1. scaleUp(ConjTuple(t), n.k) = scaleUp(t, n.k)
    BY <1>4, <1>7, ScaleUpLaws DEF A
  <2>2. ConjTuple(t) \in Tuple
    BY <1>4, TupleClosure
  <2> QED BY <1>4, <2>1, <2>2, ScaleUpCancels
<1>9. t[3] = 0 /\ t[4] = -t[2]
  BY <1>4, <1>8, Components DEF ConjTuple
<1> QED BY <1>9 DEF NormIsReal, n, t

\* Factors may be regrouped.
LEMMA ProductRegroups ==
    ASSUME NEW p \in Fraction, NEW q \in Fraction, NEW r \in Fraction, NEW s \in Fraction
    PROVE  F!Product(F!Product(p, q), F!Product(r, s))
              = F!Product(F!Product(p, r), F!Product(q, s))
<1> DEFINE P == p.n
           Q == q.n
           R == r.n
           S == s.n
           a == p.d
           b == q.d
           c == r.d
           d == s.d
<1>1. /\ P \in Tuple /\ Q \in Tuple /\ R \in Tuple /\ S \in Tuple
      /\ a \in Int /\ b \in Int /\ c \in Int /\ d \in Int
  BY FractionFields
<1>2. F!Product(F!Product(p, q), F!Product(r, s))
         = [n |-> mulTuple(mulTuple(P, Q), mulTuple(R, S)), d |-> (a * b) * (c * d)]
  <2>1. /\ F!Product(p, q) \in Fraction
        /\ F!Product(p, q).n = mulTuple(P, Q) /\ F!Product(p, q).d = a * b
        /\ F!Product(r, s) \in Fraction
        /\ F!Product(r, s).n = mulTuple(R, S) /\ F!Product(r, s).d = c * d
    BY FieldClosure
  <2> HIDE DEF P, Q, R, S, a, b, c, d
  <2> QED BY <2>1, FieldClosure
<1>3. F!Product(F!Product(p, r), F!Product(q, s))
         = [n |-> mulTuple(mulTuple(P, R), mulTuple(Q, S)), d |-> (a * c) * (b * d)]
  <2>1. /\ F!Product(p, r) \in Fraction
        /\ F!Product(p, r).n = mulTuple(P, R) /\ F!Product(p, r).d = a * c
        /\ F!Product(q, s) \in Fraction
        /\ F!Product(q, s).n = mulTuple(Q, S) /\ F!Product(q, s).d = b * d
    BY FieldClosure
  <2> HIDE DEF P, Q, R, S, a, b, c, d
  <2> QED BY <2>1, FieldClosure
<1> HIDE DEF P, Q, R, S, a, b, c, d
<1>4. mulTuple(mulTuple(P, Q), mulTuple(R, S)) = mulTuple(mulTuple(P, R), mulTuple(Q, S))
  BY <1>1, TuplesRegroup
<1>5. (a * b) * (c * d) = (a * c) * (b * d)
  BY <1>1
<1> QED BY <1>2, <1>3, <1>4, <1>5

\* Conjugates of equal elements are equal.
LEMMA ConjugateCongruence ==
    ASSUME NEW p \in Fraction, NEW q \in Fraction, SameValue(p, q)
    PROVE  SameValue(F!Conjugate(p), F!Conjugate(q))
<1>1. p.n \in Tuple /\ q.n \in Tuple /\ p.d \in Int /\ q.d \in Int
  BY FractionFields
<1>2. Scale(q.d, ConjTuple(p.n)) = ConjTuple(Scale(q.d, p.n))
  BY <1>1, ScaleIsLinear
<1>3. Scale(p.d, ConjTuple(q.n)) = ConjTuple(Scale(p.d, q.n))
  BY <1>1, ScaleIsLinear
<1>4. /\ F!Conjugate(p).n = ConjTuple(p.n) /\ F!Conjugate(p).d = p.d
      /\ F!Conjugate(q).n = ConjTuple(q.n) /\ F!Conjugate(q).d = q.d
  BY FieldClosure
<1> QED BY <1>2, <1>3, <1>4 DEF SameValue

\* The norm of a product is the product of the norms.
LEMMA NormOfProduct ==
    ASSUME NEW p, NEW q, Canonical(p), Canonical(q)
    PROVE  normSquared(Multiply(p, q)) = Multiply(normSquared(p), normSquared(q))
<1> DEFINE m == Multiply(p, q)
           np == normSquared(p)
           nq == normSquared(q)
           left == normSquared(m)
           right == Multiply(np, nq)
           P == Element(p)
           Q == Element(q)
           M == Element(m)
           Pc == F!Conjugate(P)
           Qc == F!Conjugate(Q)
           Mc == F!Conjugate(M)
           PQ == F!Product(P, Q)
           PQc == F!Conjugate(PQ)
<1>1. Canonical(m) /\ SameValue(M, PQ)
  BY MultiplyIsExact, FieldCoordinates
<1>2. /\ Canonical(np) /\ SameValue(Element(np), F!Product(P, Pc)) /\ P \in Fraction
      /\ Canonical(nq) /\ SameValue(Element(nq), F!Product(Q, Qc)) /\ Q \in Fraction
  BY NormIsExact
<1> HIDE DEF m
<1>3. Canonical(left) /\ SameValue(Element(left), F!Product(M, Mc)) /\ M \in Fraction
  BY <1>1, NormIsExact
<1> HIDE DEF np, nq
<1>4. Canonical(right) /\ SameValue(Element(right), F!Product(Element(np), Element(nq)))
  BY <1>2, MultiplyIsExact, FieldCoordinates
<1>5. /\ Element(np) \in Fraction /\ Element(nq) \in Fraction
      /\ Element(left) \in Fraction /\ Element(right) \in Fraction
  BY <1>2, <1>3, <1>4, CanonicalFacts, ElementFields
<1> HIDE DEF left, right, P, Q, M
<1>6. Pc \in Fraction /\ Qc \in Fraction /\ Mc \in Fraction /\ PQ \in Fraction
  BY <1>2, <1>3, FieldClosure
<1>7. PQc = F!Product(Pc, Qc)
  <2>1. P.n \in Tuple /\ Q.n \in Tuple
    BY <1>2, FractionFields
  <2>2. ConjTuple(mulTuple(P.n, Q.n)) = mulTuple(ConjTuple(P.n), ConjTuple(Q.n))
    BY <2>1, ConjugateProduct
  <2>3. PQ.n = mulTuple(P.n, Q.n) /\ PQ.d = P.d * Q.d
    BY <1>2, FieldClosure
  <2>4. Pc.n = ConjTuple(P.n) /\ Pc.d = P.d /\ Qc.n = ConjTuple(Q.n) /\ Qc.d = Q.d
    BY <1>2, FieldClosure
  <2>5. F!Product(Pc, Qc) = [n |-> mulTuple(Pc.n, Qc.n), d |-> Pc.d * Qc.d]
    BY <1>6, FieldClosure
  <2>6. PQc = [n |-> ConjTuple(PQ.n), d |-> PQ.d]
    BY <1>6, FieldClosure
  <2> QED BY <2>2, <2>3, <2>4, <2>5, <2>6
<1>8. SameValue(Mc, PQc) /\ PQc \in Fraction
  BY <1>1, <1>3, <1>6, ConjugateCongruence, FieldClosure
<1> HIDE DEF PQc, Mc, Pc, Qc
<1> DEFINE l1 == F!Product(M, Mc)
           l2 == F!Product(PQ, PQc)
           r1 == F!Product(Element(np), Element(nq))
           r2 == F!Product(F!Product(P, Pc), F!Product(Q, Qc))
<1>9. l2 = r2
  BY <1>2, <1>6, <1>7, ProductRegroups
<1>10. F!Product(P, Pc) \in Fraction /\ F!Product(Q, Qc) \in Fraction
  BY <1>2, <1>6, FieldClosure
<1>11. SameValue(l1, l2) /\ l1 \in Fraction /\ l2 \in Fraction
  <2> HIDE DEF PQ
  <2> QED BY <1>1, <1>3, <1>6, <1>8, ProductCongruenceBoth, FieldClosure
<1>12. SameValue(r1, r2) /\ r1 \in Fraction /\ r2 \in Fraction
  BY <1>2, <1>5, <1>10, ProductCongruenceBoth, FieldClosure
<1>13. SameValue(Element(left), l1) /\ SameValue(Element(right), r1)
  BY <1>3, <1>4
<1> HIDE DEF l1, l2, r1, r2
<1>14. SameValue(Element(left), l2) /\ SameValue(Element(right), r2)
  BY <1>5, <1>11, <1>12, <1>13, SameTransitive
<1>15. SameValue(r2, Element(right))
  BY <1>14, SameSymmetric
<1>16. SameValue(Element(left), Element(right))
  BY <1>5, <1>9, <1>11, <1>14, <1>15, SameTransitive
<1>17. left = right
  BY <1>3, <1>4, <1>16, CanonicalIsUnique
<1> QED BY <1>17 DEF left, right, m, np, nq

(***************************************************************************)
(* Norms are real and multiplicative, for all canonical values.            *)
(***************************************************************************)
THEOREM NormsAlwaysMultiply == Spec => []NormsMultiply
<1>1. IInv => NormsMultiply
  BY NormHasNoImaginaryPart, NormOfProduct DEF IInv, NormsMultiply
<1> QED BY <1>1, VariablesAreCanonical, PTL
=============================================================================
