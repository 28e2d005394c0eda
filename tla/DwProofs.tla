------------------------------ MODULE DwProofs ------------------------------
(***************************************************************************)
(* Facts about the arithmetic of Dw that hold for all integers.  The       *)
(* recursive functions satisfy their equations.  The closed forms that the *)
(* code uses in place of general products are the products they stand for. *)
(* canonicalize ends in a canonical value of the element it was given, and *)
(* an element has one canonical value only; so each operator of the class  *)
(* returns the canonical value of what the field operation returns, and    *)
(* inverse divides by a positive number.  A quotient is rounded to an      *)
(* integer at most one half away.                                          *)
(*                                                                         *)
(* From these follow the laws of the field, as equalities of canonical     *)
(* values, and what DwEuclid computes.  Division with rounding leaves a    *)
(* remainder of a smaller norm over any common denominator, so the         *)
(* recursion of gcd ends, with a value other than 0 unless both operands   *)
(* are 0; so does the recursion of reduceNorm.                             *)
(*                                                                         *)
(* Last, an order: NormLike holds of the sums of squared moduli, and of    *)
(* sums, products and conjugates of its members, and of a number and its   *)
(* opposite only if the number is 0.                                       *)
(***************************************************************************)
EXTENDS DwEuclid, FiniteSetTheorems, TLAPS

(***************************************************************************)
(* A set of numbers closed under successor misses none.  If it missed n,   *)
(* m |-> m + 1 would map its members up to n one to one to its members up  *)
(* to n other than 0, which are fewer.                                     *)
(***************************************************************************)
LEMMA SetInduction ==
    ASSUME NEW S, 0 \in S, \A n \in Nat : n \in S => n + 1 \in S
    PROVE  Nat \subseteq S
<1> SUFFICES ASSUME NEW n \in Nat, n \notin S PROVE FALSE
  OBVIOUS
<1> DEFINE A == {m \in 0..n : m \in S}
           f == [m \in A |-> m + 1]
<1>1. A \subseteq 0..n /\ 0 \in A
  OBVIOUS
<1>2. f \in [A -> A \ {0}]
  <2> SUFFICES ASSUME NEW m \in A PROVE m + 1 \in A \ {0}
    OBVIOUS
  <2>1. m # n
    OBVIOUS
  <2> QED BY <2>1
<1>3. \A x, y \in A : x # y => f[x] # f[y]
  OBVIOUS
<1> HIDE DEF A, f
<1>4. IsFiniteSet(A)
  <2>1. IsFiniteSet(0..n)
    BY FS_Interval
  <2> QED BY <1>1, <2>1, FS_Subset
<1>5. /\ IsFiniteSet(A \ {0})
      /\ Cardinality(A \ {0}) = Cardinality(A) - 1
      /\ Cardinality(A) \in Nat
  BY <1>1, <1>4, FS_RemoveElement, FS_CardinalityType
<1>6. Cardinality(A \ {0}) < Cardinality(A)
  BY <1>5
<1>7. \E x, y \in A : x # y /\ f[x] = f[y]
  BY <1>2, <1>4, <1>5, <1>6, FS_PigeonHole
<1> QED BY <1>3, <1>7

\* A set of numbers that has a member has a least one.
LEMMA LeastElement ==
    ASSUME NEW S \in SUBSET Nat, S # {}
    PROVE  \E m \in S : \A n \in S : m <= n
<1> SUFFICES ASSUME \A m \in S : \E n \in S : ~(m <= n) PROVE FALSE
  OBVIOUS
<1> DEFINE T == {n \in Nat : \A m \in S : n < m}
<1>1. 0 \in T
  <2>1. 0 \notin S
    OBVIOUS
  <2> QED BY <2>1
<1>2. ASSUME NEW n \in Nat, n \in T PROVE n + 1 \in T
  <2>1. \A m \in S : n + 1 <= m
    BY <1>2
  <2>2. n + 1 \notin S
    BY <2>1
  <2> QED BY <2>1, <2>2
<1> HIDE DEF T
<1>3. Nat \subseteq T
  BY <1>1, <1>2, SetInduction
<1>4. PICK n \in S : TRUE
  OBVIOUS
<1>5. n \in T
  BY <1>3
<1> QED BY <1>5 DEF T

(***************************************************************************)
(* Recursion on a measure mu: where it stops the value is base, elsewhere  *)
(* it is comb of the argument and of the value at the next argument, which *)
(* has a smaller measure.                                                  *)
(***************************************************************************)
Recursion(D, V, Stop, mu, base, next, comb) ==
    /\ Stop \in SUBSET D /\ mu \in [D -> Nat] /\ base \in [D -> V]
    /\ next \in [D -> D] /\ comb \in [D -> [V -> V]]
    /\ \A x \in D \ Stop : mu[next[x]] < mu[x]

Follows(f, D, V, Stop, base, next, comb) ==
    \A x \in D : IF x \in Stop THEN f[x] = base[x]
                               ELSE f[next[x]] \in V => f[x] = comb[x][f[next[x]]]

\* Some function follows the recursion.
LEMMA RecursiveFunction ==
    ASSUME NEW D, NEW V, NEW Stop, NEW mu, NEW base, NEW next, NEW comb,
           Recursion(D, V, Stop, mu, base, next, comb)
    PROVE  \E f \in [D -> V] : Follows(f, D, V, Stop, base, next, comb)
<1> USE DEF Recursion
<1> DEFINE Upto(n) == {x \in D : mu[x] <= n}
           Solves(f, n) == \A x \in Upto(n) :
                              f[x] = IF x \in Stop THEN base[x] ELSE comb[x][f[next[x]]]
           Solvable == {n \in Nat : \E f \in [D -> V] : Solves(f, n)}
<1>1. \A n \in Nat : \A x \in Upto(n + 1) : x \notin Stop => next[x] \in Upto(n)
  OBVIOUS
<1>2. 0 \in Solvable
  <2>1. \A x \in Upto(0) : x \in Stop
    OBVIOUS
  <2>2. Solves(base, 0)
    BY <2>1
  <2> QED BY <2>2
<1>3. ASSUME NEW n \in Nat, n \in Solvable PROVE n + 1 \in Solvable
  <2>1. PICK g \in [D -> V] : Solves(g, n)
    BY <1>3
  <2> DEFINE f == [x \in D |-> IF x \in Stop THEN base[x] ELSE comb[x][g[next[x]]]]
  <2>2. /\ f \in [D -> V]
        /\ \A x \in D : f[x] = IF x \in Stop THEN base[x] ELSE comb[x][g[next[x]]]
    OBVIOUS
  <2> HIDE DEF f
  <2>3. \A x \in Upto(n) : f[x] = g[x]
    BY <2>1, <2>2
  <2>4. Solves(f, n + 1)
    BY <1>1, <2>2, <2>3
  <2> QED BY <2>2, <2>4
<1>4. Nat \subseteq Solvable
  <2> HIDE DEF Solvable
  <2> QED BY <1>2, <1>3, SetInduction
<1> DEFINE F == [n \in Nat |-> CHOOSE f \in [D -> V] : Solves(f, n)]
<1>5. \A n \in Nat : F[n] \in [D -> V] /\ Solves(F[n], n)
  <2> TAKE n \in Nat
  <2>1. \E f \in [D -> V] : Solves(f, n)
    BY <1>4
  <2> HIDE DEF Solves
  <2> QED BY <2>1
<1> DEFINE Agree == {n \in Nat : \A i, j \in Nat : \A x \in Upto(n) :
                                    n <= i /\ n <= j => F[i][x] = F[j][x]}
<1>6. \A n, i \in Nat : \A x \in Upto(n) : n <= i => x \in Upto(i)
  OBVIOUS
<1> HIDE DEF F
<1>7. 0 \in Agree
  <2> SUFFICES ASSUME NEW i \in Nat, NEW j \in Nat, NEW x \in Upto(0)
               PROVE  F[i][x] = F[j][x]
    OBVIOUS
  <2>1. x \in Upto(i) /\ x \in Upto(j) /\ x \in Stop
    BY <1>6
  <2> QED BY <1>5, <2>1
<1>8. ASSUME NEW n \in Nat, n \in Agree PROVE n + 1 \in Agree
  <2> SUFFICES ASSUME NEW i \in Nat, NEW j \in Nat, NEW x \in Upto(n + 1),
                      n + 1 <= i, n + 1 <= j
               PROVE  F[i][x] = F[j][x]
    OBVIOUS
  <2>1. x \in Upto(i) /\ x \in Upto(j)
    BY <1>6
  <2>2. x \notin Stop => F[i][next[x]] = F[j][next[x]]
    BY <1>1, <1>8
  <2> QED BY <1>5, <2>1, <2>2
<1>9. Nat \subseteq Agree
  <2> HIDE DEF Agree
  <2> QED BY <1>7, <1>8, SetInduction
<1> DEFINE f == [x \in D |-> F[mu[x]][x]]
<1>10. f \in [D -> V]
  BY <1>5
<1>11. ASSUME NEW x \in D
       PROVE  f[x] = IF x \in Stop THEN base[x] ELSE comb[x][f[next[x]]]
  <2>1. x \in Upto(mu[x])
    OBVIOUS
  <2>2. F[mu[x]][x] = IF x \in Stop THEN base[x] ELSE comb[x][F[mu[x]][next[x]]]
    BY <1>5, <2>1
  <2>3. CASE x \notin Stop
    <3>1. next[x] \in Upto(mu[next[x]]) /\ mu[next[x]] <= mu[x]
      BY <2>3
    <3>2. F[mu[x]][next[x]] = F[mu[next[x]]][next[x]]
      BY <1>9, <3>1
    <3> QED BY <2>2, <3>2
  <2> QED BY <2>2, <2>3
<1> HIDE DEF f
<1> QED BY <1>10, <1>11 DEF Follows

\* Whatever follows it takes its values where base and comb do.
LEMMA RecursiveFunctionType ==
    ASSUME NEW D, NEW V, NEW Stop, NEW mu, NEW base, NEW next, NEW comb,
           Recursion(D, V, Stop, mu, base, next, comb),
           NEW f, Follows(f, D, V, Stop, base, next, comb)
    PROVE  \A x \in D : f[x] \in V
<1> USE DEF Recursion, Follows
<1> DEFINE Typed == {n \in Nat : \A x \in D : mu[x] <= n => f[x] \in V}
<1>1. 0 \in Typed
  <2> SUFFICES ASSUME NEW x \in D, mu[x] <= 0 PROVE f[x] \in V
    OBVIOUS
  <2>1. x \in Stop
    OBVIOUS
  <2> QED BY <2>1
<1>2. ASSUME NEW n \in Nat, n \in Typed PROVE n + 1 \in Typed
  <2> SUFFICES ASSUME NEW x \in D, mu[x] <= n + 1, x \notin Stop PROVE f[x] \in V
    OBVIOUS
  <2>1. f[next[x]] \in V
    BY <1>2
  <2>2. comb[x] \in [V -> V]
    OBVIOUS
  <2> QED BY <2>1, <2>2
<1> HIDE DEF Typed
<1>3. Nat \subseteq Typed
  BY <1>1, <1>2, SetInduction
<1> QED BY <1>3 DEF Typed

\* Induction on a measure.
LEMMA MeasureInduction ==
    ASSUME NEW D, NEW mu \in [D -> Nat], NEW S,
           \A x \in D : (\A y \in D : mu[y] < mu[x] => y \in S) => x \in S
    PROVE  D \subseteq S
<1> DEFINE Upto == {n \in Nat : \A x \in D : mu[x] < n => x \in S}
<1>1. 0 \in Upto
  OBVIOUS
<1>2. ASSUME NEW n \in Nat, n \in Upto PROVE n + 1 \in Upto
  <2> SUFFICES ASSUME NEW x \in D, mu[x] < n + 1 PROVE x \in S
    OBVIOUS
  <2>1. \A y \in D : mu[y] < mu[x] => mu[y] < n
    OBVIOUS
  <2> QED BY <1>2, <2>1
<1> HIDE DEF Upto
<1>3. Nat \subseteq Upto
  BY <1>1, <1>2, SetInduction
<1>4. ASSUME NEW x \in D PROVE x \in S
  <2>1. mu[x] + 1 \in Upto /\ mu[x] < mu[x] + 1
    BY <1>3
  <2> QED BY <2>1 DEF Upto
<1> QED BY <1>4

(***************************************************************************)
(* Recursion on a measure with any number of recursive calls: the value at *)
(* x is comb[<<x, f>>], which depends on f only where the measure is       *)
(* smaller, and is in Good[x] if f has its values in Good.                 *)
(***************************************************************************)
Selections(D, Good) == {g \in [D -> UNION {Good[x] : x \in D}] : \A x \in D : g[x] \in Good[x]}

WellFounded(D, mu, Good, comb) ==
    /\ mu \in [D -> Nat]
    /\ \A x \in D : Good[x] # {}
    /\ \A x \in D : \A g \in Selections(D, Good), h \in Selections(D, Good) :
          /\ comb[<<x, g>>] \in Good[x]
          /\ (\A y \in D : mu[y] < mu[x] => g[y] = h[y]) => comb[<<x, g>>] = comb[<<x, h>>]

LEMMA RecursionExists ==
    ASSUME NEW D, NEW mu, NEW Good, NEW comb, WellFounded(D, mu, Good, comb)
    PROVE  \E f \in Selections(D, Good) : \A x \in D : f[x] = comb[<<x, f>>]
<1> DEFINE G == Selections(D, Good)
           Solves(f, n) == \A x \in D : mu[x] < n => f[x] = comb[<<x, f>>]
           Solvable == {n \in Nat : \E f \in G : Solves(f, n)}
<1>0. mu \in [D -> Nat]
  BY DEF WellFounded
<1> USE <1>0
<1>1. /\ \A x \in D : Good[x] # {}
      /\ \A x \in D : \A g \in G, h \in G :
             (\A y \in D : mu[y] < mu[x] => g[y] = h[y]) => comb[<<x, g>>] = comb[<<x, h>>]
      /\ \A x \in D : \A g \in G : comb[<<x, g>>] \in Good[x]
  BY DEF WellFounded
<1>2. ASSUME NEW f, f = [x \in D |-> f[x]], \A x \in D : f[x] \in Good[x] PROVE f \in G
  BY <1>2 DEF Selections
<1>3. \A g \in G : \A x \in D : g[x] \in Good[x]
  BY DEF Selections
<1> HIDE DEF G
<1>4. 0 \in Solvable
  <2> DEFINE Any(x) == CHOOSE e : e \in Good[x]
             f == [x \in D |-> Any(x)]
  <2>1. f = [x \in D |-> f[x]] /\ \A x \in D : f[x] \in Good[x]
    BY <1>1
  <2> HIDE DEF f
  <2>2. f \in G
    BY <1>2, <2>1
  <2> QED BY <2>2
<1>5. ASSUME NEW n \in Nat, n \in Solvable PROVE n + 1 \in Solvable
  <2>1. PICK g \in G : Solves(g, n)
    BY <1>5
  <2> DEFINE f == [x \in D |-> IF mu[x] < n THEN g[x] ELSE comb[<<x, g>>]]
  <2>2. /\ f = [x \in D |-> f[x]]
        /\ \A x \in D : f[x] = IF mu[x] < n THEN g[x] ELSE comb[<<x, g>>]
    OBVIOUS
  <2> HIDE DEF f
  <2>3. f \in G
    BY <1>1, <1>2, <1>3, <2>2
  <2>4. ASSUME NEW x \in D, mu[x] < n + 1 PROVE f[x] = comb[<<x, f>>]
    <3>1. \A y \in D : mu[y] < mu[x] => f[y] = g[y]
      <4>1. \A y \in D : mu[y] < mu[x] => mu[y] < n
        BY <2>4
      <4> QED BY <2>2, <4>1
    <3>2. comb[<<x, f>>] = comb[<<x, g>>]
      BY <1>1, <2>3, <3>1
    <3>3. f[x] = comb[<<x, g>>]
      BY <2>1, <2>2
    <3> QED BY <3>2, <3>3
  <2>5. Solves(f, n + 1)
    BY <2>4
  <2> HIDE DEF Solves
  <2> QED BY <2>3, <2>5
<1>6. Nat \subseteq Solvable
  <2> HIDE DEF Solvable
  <2> QED BY <1>4, <1>5, SetInduction
<1> DEFINE Solution(n) == CHOOSE f \in G : Solves(f, n)
           F == [n \in Nat |-> Solution(n)]
<1>7. \A n \in Nat : F[n] \in G /\ Solves(F[n], n)
  <2> TAKE n \in Nat
  <2>1. \E f \in G : Solves(f, n)
    BY <1>6
  <2> HIDE DEF Solves
  <2> QED BY <2>1
<1> DEFINE Agree == {n \in Nat : \A i \in Nat, j \in Nat : \A x \in D :
                        n <= i /\ n <= j /\ mu[x] < n => F[i][x] = F[j][x]}
<1> HIDE DEF F
<1>8. 0 \in Agree
  OBVIOUS
<1>9. ASSUME NEW n \in Nat, n \in Agree PROVE n + 1 \in Agree
  <2> SUFFICES ASSUME NEW i \in Nat, NEW j \in Nat, NEW x \in D,
                      n + 1 <= i, n + 1 <= j, mu[x] < n + 1
               PROVE  F[i][x] = F[j][x]
    OBVIOUS
  <2>1. mu[x] < i /\ mu[x] < j
    OBVIOUS
  <2>2. \A y \in D : mu[y] < mu[x] => F[i][y] = F[j][y]
    <3>1. \A y \in D : mu[y] < mu[x] => mu[y] < n
      OBVIOUS
    <3> QED BY <1>9, <3>1
  <2>3. comb[<<x, F[i]>>] = comb[<<x, F[j]>>]
    BY <1>1, <1>7, <2>2
  <2> QED BY <1>7, <2>1, <2>3
<1>10. Nat \subseteq Agree
  <2> HIDE DEF Agree
  <2> QED BY <1>8, <1>9, SetInduction
<1> DEFINE f == [x \in D |-> F[mu[x] + 1][x]]
<1>11. f = [x \in D |-> f[x]] /\ \A x \in D : f[x] = F[mu[x] + 1][x]
  OBVIOUS
<1>12. \A x \in D : mu[x] + 1 \in Nat /\ mu[x] < mu[x] + 1
  OBVIOUS
<1> HIDE DEF f
<1>13. f \in G
  BY <1>2, <1>3, <1>7, <1>11, <1>12
<1>14. ASSUME NEW x \in D PROVE f[x] = comb[<<x, f>>]
  <2>1. ASSUME NEW y \in D, mu[y] < mu[x] PROVE f[y] = F[mu[x] + 1][y]
    <3>1. mu[y] + 1 \in Agree /\ mu[y] + 1 <= mu[x] + 1
      BY <1>10, <2>1
    <3> QED BY <1>11, <1>12, <3>1
  <2>2. comb[<<x, f>>] = comb[<<x, F[mu[x] + 1]>>]
    BY <1>1, <1>7, <1>12, <1>13, <2>1
  <2> QED BY <1>7, <1>11, <1>12, <2>2
<1> QED BY <1>13, <1>14 DEF G
-----------------------------------------------------------------------------
\* Division with remainder.
LEMMA Division ==
    ASSUME NEW a \in Int, NEW b \in Nat \ {0}
    PROVE  /\ a \div b \in Int
           /\ 0 <= a % b /\ a % b < b /\ a % b \in Int
           /\ a = b * (a \div b) + (a % b)
OBVIOUS

\* A product of integers can be cancelled by a positive factor.
LEMMA Cancellation ==
    ASSUME NEW n \in Nat \ {0}, NEW a \in Int, NEW b \in Int, n * a = n * b
    PROVE  a = b
OBVIOUS

\* Quotient and remainder are determined by the remainder's range.
LEMMA DivisionUnique ==
    ASSUME NEW b \in Nat \ {0}, NEW q \in Int, NEW r \in Int, 0 <= r, r < b
    PROVE  (b * q + r) \div b = q /\ (b * q + r) % b = r
OBVIOUS

\* Multiples of n are what n divides without a remainder.
LEMMA Multiples ==
    ASSUME NEW n \in Nat \ {0}
    PROVE  /\ \A q \in Int : (n * q) \div n = q /\ (n * q) % n = 0
           /\ \A a \in Int : a % n = 0 <=> \E q \in Int : a = n * q
           /\ \A a \in Int : a % n = 0 => a = n * (a \div n)
<1>1. ASSUME NEW q \in Int PROVE (n * q) \div n = q /\ (n * q) % n = 0
  BY DivisionUnique
<1>2. ASSUME NEW a \in Int, a % n = 0 PROVE a = n * (a \div n) /\ a \div n \in Int
  BY <1>2, Division
<1> QED BY <1>1, <1>2

\* ... with a named for the multiple, for a fact that is an equation of its own.
LEMMA IsMultiple ==
    ASSUME NEW n \in Nat \ {0}, NEW q \in Int, NEW a, a = n * q
    PROVE  a \in Int /\ a % n = 0 /\ a \div n = q
BY Multiples

\* \div is exact where the remainder is 0.
LEMMA HasQuotient ==
    ASSUME NEW n \in Nat \ {0}, NEW a \in Int, a % n = 0
    PROVE  a \div n \in Int /\ a = n * (a \div n)
BY Multiples, Division

\* g divides n.
IsFactor(g, n) == \E q \in Int : n = g * q

\* g divides n exactly if the remainder is 0.
LEMMA FactorMod ==
    ASSUME NEW g \in Nat \ {0}, NEW n \in Int
    PROVE  n % g = 0 <=> IsFactor(g, n)
BY Multiples DEF IsFactor

\* Every number divides itself and 0.
LEMMA FactorSelf ==
    ASSUME NEW g \in Int
    PROVE  IsFactor(g, g) /\ IsFactor(g, 0)
<1>1. g = g * 1 /\ 0 = g * 0
  OBVIOUS
<1> QED BY <1>1 DEF IsFactor

\* A divisor of n divides -n.
LEMMA FactorOpposite ==
    ASSUME NEW g \in Int, NEW n \in Int
    PROVE  IsFactor(g, -n) <=> IsFactor(g, n)
<1>1. ASSUME NEW m \in Int, IsFactor(g, m) PROVE IsFactor(g, -m)
  <2>1. PICK i \in Int : m = g * i
    BY <1>1 DEF IsFactor
  <2>2. -m = g * (-i) /\ -i \in Int
    BY <2>1
  <2> QED BY <2>2 DEF IsFactor
<1>2. -n \in Int /\ -(-n) = n
  OBVIOUS
<1> QED BY <1>1, <1>2

\* g divides a, so it divides a sum with a exactly if it divides the rest.
LEMMA FactorSum ==
    ASSUME NEW g \in Int, NEW a \in Int, NEW b \in Int, NEW c \in Int,
           c = a + b, IsFactor(g, a)
    PROVE  IsFactor(g, c) <=> IsFactor(g, b)
<1>1. PICK i \in Int : a = g * i
  BY DEF IsFactor
<1>2. ASSUME NEW j \in Int, b = g * j PROVE IsFactor(g, c)
  <2>1. c = g * (i + j) /\ i + j \in Int
    BY <1>1, <1>2
  <2> QED BY <2>1 DEF IsFactor
<1>3. ASSUME NEW j \in Int, c = g * j PROVE IsFactor(g, b)
  <2>1. b = g * (j - i) /\ j - i \in Int
    BY <1>1, <1>3
  <2> QED BY <2>1 DEF IsFactor
<1> QED BY <1>2, <1>3 DEF IsFactor

\* A divisor of n divides its multiples.
LEMMA FactorProduct ==
    ASSUME NEW g \in Int, NEW a \in Int, NEW q \in Int, IsFactor(g, a)
    PROVE  IsFactor(g, a * q) /\ IsFactor(g, q * a)
<1>1. PICK i \in Int : a = g * i
  BY DEF IsFactor
<1>2. i * q \in Int /\ a * q = g * (i * q) /\ q * a = g * (i * q)
  BY <1>1
<1> QED BY <1>2 DEF IsFactor
-----------------------------------------------------------------------------
(***************************************************************************)
(* The recursive functions of Dw satisfy their equations, on the whole of  *)
(* their domains.                                                          *)
(***************************************************************************)
\* Integer(1) << n doubles n times.
LEMMA Pow2Def ==
    \A n \in Nat : Pow2[n] \in Nat \ {0} /\ Pow2[n] = IF n = 0 THEN 1 ELSE 2 * Pow2[n - 1]
<1> DEFINE D == Nat
           V == Nat \ {0}
           Stop == {0}
           mu == [n \in D |-> n]
           base == [n \in D |-> 1]
           next == [n \in D |-> IF n = 0 THEN 0 ELSE n - 1]
           comb == [n \in D |-> [v \in V |-> 2 * v]]
<1>1. Recursion(D, V, Stop, mu, base, next, comb)
  BY DEF Recursion
<1>2. \A n \in D : /\ n \in Stop <=> n = 0
                   /\ base[n] = 1 /\ (n \notin Stop => next[n] = n - 1)
                   /\ \A v \in V : comb[n][v] = 2 * v
  OBVIOUS
<1> HIDE DEF mu, base, next, comb, V, Stop, D
<1>3. PICK f \in [D -> V] : Follows(f, D, V, Stop, base, next, comb)
  BY <1>1, RecursiveFunction
<1>4. ASSUME NEW n \in D PROVE f[n] = IF n = 0 THEN 1 ELSE 2 * f[n - 1]
  <2>1. next[n] \in D
    BY <1>1 DEF Recursion
  <2> QED BY <1>2, <1>3, <2>1 DEF Follows
<1>5. f = [n \in D |-> IF n = 0 THEN 1 ELSE 2 * f[n - 1]]
  BY <1>3, <1>4
<1>6. Pow2 = [n \in D |-> IF n = 0 THEN 1 ELSE 2 * Pow2[n - 1]]
  BY <1>5 DEF Pow2, D
<1>7. Follows(Pow2, D, V, Stop, base, next, comb)
  <2> SUFFICES ASSUME NEW n \in D
               PROVE  IF n \in Stop THEN Pow2[n] = base[n]
                      ELSE Pow2[next[n]] \in V => Pow2[n] = comb[n][Pow2[next[n]]]
    BY DEF Follows
  <2>1. Pow2[n] = IF n = 0 THEN 1 ELSE 2 * Pow2[n - 1]
    BY <1>6
  <2> QED BY <1>2, <2>1
<1>8. \A n \in D : Pow2[n] \in V
  BY <1>1, <1>7, RecursiveFunctionType
<1> QED BY <1>6, <1>8 DEF D, V

\* The bits below the lowest one that is set are counted.
LEMMA LsbDef ==
    \A n \in Nat \ {0} :
       lsb[n] \in Nat /\ lsb[n] = IF n % 2 = 1 THEN 0 ELSE 1 + lsb[n \div 2]
<1> DEFINE D == Nat \ {0}
           V == Nat
           Stop == {n \in D : n % 2 = 1}
           mu == [n \in D |-> n]
           base == [n \in D |-> 0]
           next == [n \in D |-> IF n % 2 = 1 THEN n ELSE n \div 2]
           comb == [n \in D |-> [v \in V |-> 1 + v]]
<1>1. Recursion(D, V, Stop, mu, base, next, comb)
  <2>1. \A n \in D : n % 2 # 1 => n \div 2 \in D /\ n \div 2 < n
    OBVIOUS
  <2> QED BY <2>1 DEF Recursion
<1>2. \A n \in D : /\ n \in Stop <=> n % 2 = 1
                   /\ base[n] = 0 /\ (n \notin Stop => next[n] = n \div 2)
                   /\ \A v \in V : comb[n][v] = 1 + v
  OBVIOUS
<1> HIDE DEF mu, base, next, comb, V, Stop, D
<1>3. PICK f \in [D -> V] : Follows(f, D, V, Stop, base, next, comb)
  BY <1>1, RecursiveFunction
<1>4. ASSUME NEW n \in D PROVE f[n] = IF n % 2 = 1 THEN 0 ELSE 1 + f[n \div 2]
  <2>1. next[n] \in D
    BY <1>1 DEF Recursion
  <2> QED BY <1>2, <1>3, <2>1 DEF Follows
<1>5. f = [n \in D |-> IF n % 2 = 1 THEN 0 ELSE 1 + f[n \div 2]]
  BY <1>3, <1>4
<1>6. lsb = [n \in D |-> IF n % 2 = 1 THEN 0 ELSE 1 + lsb[n \div 2]]
  BY <1>5 DEF lsb, D
<1>7. Follows(lsb, D, V, Stop, base, next, comb)
  <2> SUFFICES ASSUME NEW n \in D
               PROVE  IF n \in Stop THEN lsb[n] = base[n]
                      ELSE lsb[next[n]] \in V => lsb[n] = comb[n][lsb[next[n]]]
    BY DEF Follows
  <2>1. lsb[n] = IF n % 2 = 1 THEN 0 ELSE 1 + lsb[n \div 2]
    BY <1>6
  <2> QED BY <1>2, <2>1
<1>8. \A n \in D : lsb[n] \in V
  BY <1>1, <1>7, RecursiveFunctionType
<1> QED BY <1>6, <1>8 DEF D, V

\* Remainders get smaller until one is 0.
LEMMA GcdDef ==
    ASSUME NEW m \in Nat, NEW n \in Nat
    PROVE  Gcd(m, n) \in Nat /\ Gcd(m, n) = IF n = 0 THEN m ELSE Gcd(n, m % n)
<1> DEFINE D == Nat \X Nat
           V == Nat
           Stop == {mn \in D : mn[2] = 0}
           mu == [mn \in D |-> mn[2]]
           base == [mn \in D |-> mn[1]]
           next == [mn \in D |-> IF mn[2] = 0 THEN mn ELSE <<mn[2], mn[1] % mn[2]>>]
           comb == [mn \in D |-> [v \in V |-> v]]
<1>1. Recursion(D, V, Stop, mu, base, next, comb)
  <2>1. \A mn \in D : mn[2] # 0 => mn[1] % mn[2] \in Nat /\ mn[1] % mn[2] < mn[2]
    BY Division
  <2> QED BY <2>1 DEF Recursion
<1>2. \A mn \in D : /\ mn \in Stop <=> mn[2] = 0
                    /\ base[mn] = mn[1]
                    /\ mn \notin Stop => next[mn] = <<mn[2], mn[1] % mn[2]>>
                    /\ \A v \in V : comb[mn][v] = v
  OBVIOUS
<1> HIDE DEF mu, base, next, comb, V, Stop
<1>3. PICK f \in [D -> V] : Follows(f, D, V, Stop, base, next, comb)
  BY <1>1, RecursiveFunction
<1>4. ASSUME NEW mn \in D
      PROVE  f[mn] = IF mn[2] = 0 THEN mn[1] ELSE f[<<mn[2], mn[1] % mn[2]>>]
  <2>1. next[mn] \in D
    BY <1>1 DEF Recursion
  <2> QED BY <1>2, <1>3, <2>1 DEF Follows
<1>5. f = [mn \in D |-> IF mn[2] = 0 THEN mn[1] ELSE f[<<mn[2], mn[1] % mn[2]>>]]
  BY <1>3, <1>4
<1>6. Euclid = [mn \in D |-> IF mn[2] = 0 THEN mn[1] ELSE Euclid[<<mn[2], mn[1] % mn[2]>>]]
  BY <1>5 DEF Euclid
<1>7. Follows(Euclid, D, V, Stop, base, next, comb)
  <2> SUFFICES ASSUME NEW mn \in D
               PROVE  IF mn \in Stop THEN Euclid[mn] = base[mn]
                      ELSE Euclid[next[mn]] \in V => Euclid[mn] = comb[mn][Euclid[next[mn]]]
    BY DEF Follows
  <2>1. Euclid[mn] = IF mn[2] = 0 THEN mn[1] ELSE Euclid[<<mn[2], mn[1] % mn[2]>>]
    BY <1>6
  <2> QED BY <1>2, <2>1
<1>8. \A mn \in D : Euclid[mn] \in V
  BY <1>1, <1>7, RecursiveFunctionType
<1>9. <<m, n>> \in D /\ <<m, n>>[1] = m /\ <<m, n>>[2] = n
  OBVIOUS
<1> QED BY <1>6, <1>8, <1>9 DEF V, Gcd

-----------------------------------------------------------------------------
\* The components of a tuple are integers.
LEMMA Components ==
    ASSUME NEW p \in Tuple
    PROVE  /\ p = <<p[1], p[2], p[3], p[4]>>
           /\ p[1] \in Int /\ p[2] \in Int /\ p[3] \in Int /\ p[4] \in Int
BY DEF Tuple

\* The product of tuples is one of a commutative ring.
THEOREM MulTupleCommutes ==
    ASSUME NEW p \in Tuple, NEW q \in Tuple
    PROVE  mulTuple(p, q) \in Tuple /\ mulTuple(p, q) = mulTuple(q, p)
BY Components, SMT DEF mulTuple, Tuple

\* ... and associative: products of weights may be taken in any order.
THEOREM MulTupleAssociates ==
    ASSUME NEW p \in Tuple, NEW q \in Tuple, NEW r \in Tuple
    PROVE  mulTuple(mulTuple(p, q), r) = mulTuple(p, mulTuple(q, r))
BY Components, SMTT(60) DEF mulTuple

\* normXY computes z * conj(z) without the general product.
THEOREM NormTuple ==
    ASSUME NEW p \in Tuple
    PROVE  mulTuple(p, ConjTuple(p)) = <<normX(p), normY(p), 0, -normY(p)>>
BY Components, SMTT(60) DEF mulTuple, ConjTuple, normX, normY

\* mulByConjNormNumer is the product with x - y sqrt(2).
THEOREM NumeratorTuple ==
    ASSUME NEW p \in Tuple, NEW x \in Int, NEW y \in Int
    PROVE  mulByConjNormNumer(p, x, y) = mulTuple(p, <<x, -y, 0, y>>)
BY Components, SMTT(60) DEF mulTuple, mulByConjNormNumer

\* An odd step of scaleUp multiplies by sqrt(2), and two of them by 2.
THEOREM ScaleUpTwice ==
    ASSUME NEW p \in Tuple
    PROVE  /\ TimesSqrt2(p) = mulTuple(p, <<0, 1, 0, -1>>)
           /\ TimesSqrt2(TimesSqrt2(p)) = Scale(2, p)
BY Components, SMTT(60) DEF mulTuple, TimesSqrt2, Scale
\* The tuple inverse() builds, times the tuple it inverts, is the integer it
\* puts into the denominator: the numerator of 1/z is exact for every z.
THEOREM InverseIsExact ==
    ASSUME NEW p \in Tuple
    PROVE  LET x == normX(p)
               y == normY(p)
           IN  mulTuple(p, mulByConjNormNumer(ConjTuple(p), x, y))
                  = <<x * x - 2 * y * y, 0, 0, 0>>
<1> DEFINE x == normX(p)
           y == normY(p)
           conj == ConjTuple(p)
           other == <<x, -y, 0, y>>
<1>1. x \in Int /\ y \in Int /\ conj \in Tuple
  BY Components DEF normX, normY, ConjTuple, Tuple
<1>2. other \in Tuple /\ <<x, y, 0, -y>> \in Tuple
  BY <1>1 DEF Tuple
<1>3. mulTuple(p, mulByConjNormNumer(conj, x, y)) = mulTuple(p, mulTuple(conj, other))
  BY <1>1, NumeratorTuple
<1>4. @ = mulTuple(mulTuple(p, conj), other)
  BY <1>1, <1>2, MulTupleAssociates
<1>5. @ = mulTuple(<<x, y, 0, -y>>, other)
  BY NormTuple
<1>6. @ = <<x * x - 2 * y * y, 0, 0, 0>>
  <2> HIDE DEF x, y
  <2> QED BY <1>1 DEF mulTuple
<1> QED BY <1>3, <1>4, <1>5, <1>6

\* That denominator is never negative: the branch of inverse() that moves a
\* sign into the numerator is never taken.
THEOREM InverseDenominatorSign ==
    ASSUME NEW p \in Tuple
    PROVE  normX(p) * normX(p) - 2 * normY(p) * normY(p) >= 0
<1> DEFINE s == p[2]*p[2] + p[4]*p[4]
           t == p[1]*p[1] + p[3]*p[3]
           y == normY(p)
           h == p[2] * (p[3] - p[1]) - p[4] * (p[1] + p[3])
<1>1. s \in Int /\ t \in Int /\ y \in Int /\ h \in Int
  BY Components DEF normY
<1>2. y * y + h * h = 2 * (s * t)
  BY Components DEF normY
<1>3. normX(p) = s + t
  BY Components DEF normX
<1> HIDE DEF s, t, y, h
<1>4. (s + t) * (s + t) - 2 * y * y = (s - t) * (s - t) + 2 * (h * h)
  BY <1>1, <1>2
<1>5. \A n \in Int : n * n >= 0
  OBVIOUS
<1>6. (s - t) * (s - t) >= 0 /\ h * h >= 0
  BY <1>1, <1>5
<1>7. normX(p) * normX(p) - 2 * y * y >= 0
  BY <1>1, <1>3, <1>4, <1>6
<1> QED BY <1>7 DEF y

\* Numbers of the same parity differ by an even number.
LEMMA EvenDifference ==
    ASSUME NEW m \in Int, NEW n \in Int, m % 2 = n % 2
    PROVE  \E i \in Int : m - n = 2 * i
<1>1. m = 2 * (m \div 2) + (m % 2) /\ n = 2 * (n \div 2) + (n % 2)
  OBVIOUS
<1>2. (m \div 2) - (n \div 2) \in Int /\ m - n = 2 * ((m \div 2) - (n \div 2))
  BY <1>1
<1> QED BY <1>2

\* Where reduceSqrt2Power finds the parities equal, its halved tuple is one of
\* integers, and sqrt(2) times it is the tuple it replaces.
THEOREM ReductionIsExact ==
    ASSUME NEW p \in Tuple, DivisibleBySqrt2(p)
    PROVE  LET half == DividedBy(TimesSqrt2(p), 2)
           IN  half \in Tuple /\ TimesSqrt2(half) = p
<1> DEFINE half == DividedBy(TimesSqrt2(p), 2)
<1>1. /\ \E m \in Int : p[1] - p[3] = 2 * m
      /\ \E n \in Int : p[2] - p[4] = 2 * n
  BY Components, EvenDifference DEF DivisibleBySqrt2
<1>2. PICK m \in Int, n \in Int : p[1] = p[3] + 2 * m /\ p[2] = p[4] + 2 * n
  BY <1>1, Components
<1>3. half = <<n, p[3] + m, p[4] + n, -m>>
  BY <1>2, Components DEF DividedBy, TimesSqrt2
<1> QED BY <1>2, <1>3, Components DEF TimesSqrt2, Tuple

\* Dividing by an odd number does not change those parities ("this phase alone
\* can never expose a new sqrt(2) common factor", Dw.cpp), so reducing e first
\* and k second leaves both reduced.
THEOREM OddFactorKeepsParity ==
    ASSUME NEW p \in Tuple, NEW n \in Int, n % 2 = 1
    PROVE  DivisibleBySqrt2(Scale(n, p)) <=> DivisibleBySqrt2(p)
<1>1. PICK m \in Int : n = 2 * m + 1
  OBVIOUS
<1>2. ASSUME NEW c \in Int PROVE (n * c) % 2 = c % 2
  <2>1. n * c = 2 * (m * c) + c
    BY <1>1
  <2>2. m * c \in Int
    OBVIOUS
  <2> HIDE <1>1
  <2> DEFINE i == m * c
  <2> HIDE DEF i
  <2>3. \A j \in Int : (2 * j + c) % 2 = c % 2
    OBVIOUS
  <2> QED BY <2>1, <2>2, <2>3
<1> QED BY <1>2, Components DEF DivisibleBySqrt2, Scale

\* roundRatio is never more than one half away from num/den, for numbers of
\* either sign: the bound that the remainder of gcd's division rests on.
THEOREM RoundingIsNearest ==
    ASSUME NEW num \in Int, NEW den \in Nat \ {0}
    PROVE  /\ roundRatio(num, den) \in Int
           /\ 2 * Abs(num - den * roundRatio(num, den)) <= den
<1> DEFINE n == Abs(num)
           q == (2 * n + den) \div (2 * den)
           r == (2 * n + den) % (2 * den)
<1>1. n \in Nat /\ n = (IF num < 0 THEN -num ELSE num)
  BY DEF Abs
<1>2. q \in Int /\ r \in Int /\ 0 <= r /\ r < 2 * den /\ 2 * n + den = (2 * den) * q + r
  <2>1. 2 * n + den \in Int /\ 2 * den \in Nat \ {0}
    BY <1>1
  <2> QED BY <2>1, Division
<1>3. roundRatio(num, den) = (IF num < 0 THEN -q ELSE q)
  BY DEF roundRatio
<1> HIDE DEF n, q, r
<1>4. PICK p \in Int : p = den * q
  BY <1>2
<1>5. 2 * n + den = 2 * p + r
  BY <1>1, <1>2, <1>4
<1>6. num - den * roundRatio(num, den) = (IF num < 0 THEN p - n ELSE n - p)
  BY <1>1, <1>2, <1>3, <1>4
<1>7. 2 * (n - p) <= den /\ 2 * (p - n) <= den
  BY <1>1, <1>2, <1>4, <1>5
<1>8. 2 * Abs(num - den * roundRatio(num, den)) <= den
  BY <1>1, <1>4, <1>6, <1>7 DEF Abs
<1> QED BY <1>2, <1>3, <1>8
-----------------------------------------------------------------------------
(***************************************************************************)
(* The algebra of tuples: the operations of Dw are linear, and scaling by  *)
(* powers of sqrt(2) commutes with all of them.                            *)
(***************************************************************************)
LEMMA TupleClosure ==
    /\ \A p \in Tuple : TimesSqrt2(p) \in Tuple /\ ConjTuple(p) \in Tuple
    /\ \A p \in Tuple : \A q \in Tuple : Plus(p, q) \in Tuple /\ mulTuple(p, q) \in Tuple
    /\ \A n \in Int : \A p \in Tuple : Scale(n, p) \in Tuple
<1>1. ASSUME NEW p \in Tuple
      PROVE  TimesSqrt2(p) \in Tuple /\ ConjTuple(p) \in Tuple
  BY Components DEF TimesSqrt2, ConjTuple, Tuple
<1>2. ASSUME NEW p \in Tuple, NEW q \in Tuple
      PROVE  Plus(p, q) \in Tuple /\ mulTuple(p, q) \in Tuple
  BY Components, MulTupleCommutes DEF Plus, Tuple
<1>3. ASSUME NEW n \in Int, NEW p \in Tuple PROVE Scale(n, p) \in Tuple
  BY Components DEF Scale, Tuple
<1> QED BY <1>1, <1>2, <1>3

\* A tuple times 1.
LEMMA ScaleOne ==
    ASSUME NEW p \in Tuple
    PROVE  Scale(1, p) = p
BY Components DEF Scale

\* Integer factors multiply.
LEMMA ScaleTwice ==
    ASSUME NEW m \in Int, NEW n \in Int, NEW p \in Tuple
    PROVE  Scale(m, Scale(n, p)) = Scale(m * n, p)
BY Components, SMTT(30) DEF Scale

\* Scale distributes over Plus.
LEMMA ScaleDistributes ==
    ASSUME NEW n \in Int, NEW p \in Tuple, NEW q \in Tuple
    PROVE  Scale(n, Plus(p, q)) = Plus(Scale(n, p), Scale(n, q))
BY Components, SMTT(30) DEF Scale, Plus

\* An integer factor passes through sqrt(2) and conjugation.
LEMMA ScaleIsLinear ==
    ASSUME NEW n \in Int, NEW p \in Tuple
    PROVE  /\ TimesSqrt2(Scale(n, p)) = Scale(n, TimesSqrt2(p))
           /\ ConjTuple(Scale(n, p)) = Scale(n, ConjTuple(p))
BY Components, SMTT(30) DEF Scale, TimesSqrt2, ConjTuple

\* An integer factor passes through either side of a product.
LEMMA ScaleOfProduct ==
    ASSUME NEW n \in Int, NEW p \in Tuple, NEW q \in Tuple
    PROVE  /\ mulTuple(Scale(n, p), q) = Scale(n, mulTuple(p, q))
           /\ mulTuple(p, Scale(n, q)) = Scale(n, mulTuple(p, q))
<1>1. ASSUME NEW r \in Tuple, NEW s \in Tuple
      PROVE  mulTuple(Scale(n, r), s) = Scale(n, mulTuple(r, s))
  BY Components, SMTT(60) DEF mulTuple, Scale
<1>2. mulTuple(p, Scale(n, q)) = Scale(n, mulTuple(p, q))
  <2>1. Scale(n, q) \in Tuple
    BY TupleClosure
  <2>2. mulTuple(p, Scale(n, q)) = mulTuple(Scale(n, q), p) /\ mulTuple(p, q) = mulTuple(q, p)
    BY <2>1, MulTupleCommutes
  <2> QED BY <1>1, <2>2
<1> QED BY <1>1, <1>2

\* Times sqrt(2) distributes over Plus.
LEMMA Sqrt2Distributes ==
    ASSUME NEW p \in Tuple, NEW q \in Tuple
    PROVE  /\ TimesSqrt2(Plus(p, q)) = Plus(TimesSqrt2(p), TimesSqrt2(q))
           /\ mulTuple(TimesSqrt2(p), q) = TimesSqrt2(mulTuple(p, q))
<1>1. TimesSqrt2(Plus(p, q)) = Plus(TimesSqrt2(p), TimesSqrt2(q))
  BY Components DEF Plus, TimesSqrt2
<1>2. mulTuple(TimesSqrt2(p), q) = TimesSqrt2(mulTuple(p, q))
  BY Components, SMTT(60) DEF mulTuple, TimesSqrt2
<1> QED BY <1>1, <1>2

\* sqrt(2) is its own conjugate, and a multiple of it is divisible by it.
LEMMA Sqrt2Divides ==
    ASSUME NEW p \in Tuple
    PROVE  /\ TimesSqrt2(ConjTuple(p)) = ConjTuple(TimesSqrt2(p))
           /\ DivisibleBySqrt2(TimesSqrt2(p))
BY Components DEF ConjTuple, TimesSqrt2, DivisibleBySqrt2

\* Conjugation is multiplicative.
LEMMA ConjugateProduct ==
    ASSUME NEW p \in Tuple, NEW q \in Tuple
    PROVE  ConjTuple(mulTuple(p, q)) = mulTuple(ConjTuple(p), ConjTuple(q))
BY Components, SMTT(60) DEF mulTuple, ConjTuple

\* Factors may be regrouped.
LEMMA TuplesRegroup ==
    ASSUME NEW p \in Tuple, NEW q \in Tuple, NEW r \in Tuple, NEW s \in Tuple
    PROVE  mulTuple(mulTuple(p, q), mulTuple(r, s)) = mulTuple(mulTuple(p, r), mulTuple(q, s))
<1>1. /\ mulTuple(p, q) \in Tuple /\ mulTuple(r, s) \in Tuple /\ mulTuple(p, r) \in Tuple
      /\ mulTuple(q, s) \in Tuple /\ mulTuple(q, r) \in Tuple /\ mulTuple(r, q) \in Tuple
  BY TupleClosure
<1>2. mulTuple(mulTuple(p, q), mulTuple(r, s)) = mulTuple(p, mulTuple(q, mulTuple(r, s)))
  BY <1>1, MulTupleAssociates
<1>3. mulTuple(q, mulTuple(r, s)) = mulTuple(mulTuple(q, r), s)
  BY <1>1, MulTupleAssociates
<1>4. mulTuple(q, r) = mulTuple(r, q)
  BY <1>1, MulTupleCommutes
<1>5. mulTuple(mulTuple(r, q), s) = mulTuple(r, mulTuple(q, s))
  BY <1>1, MulTupleAssociates
<1>6. mulTuple(p, mulTuple(r, mulTuple(q, s))) = mulTuple(mulTuple(p, r), mulTuple(q, s))
  BY <1>1, MulTupleAssociates
<1> QED BY <1>2, <1>3, <1>4, <1>5, <1>6

\* A positive integer factor can be cancelled.
LEMMA ScaleCancels ==
    ASSUME NEW n \in Nat \ {0}, NEW p \in Tuple, NEW q \in Tuple,
           Scale(n, p) = Scale(n, q)
    PROVE  p = q
<1>1. /\ n * p[1] = n * q[1] /\ n * p[2] = n * q[2]
      /\ n * p[3] = n * q[3] /\ n * p[4] = n * q[4]
  BY DEF Scale
<1>2. p[1] = q[1] /\ p[2] = q[2] /\ p[3] = q[3] /\ p[4] = q[4]
  BY <1>1, Components, Cancellation
<1> QED BY <1>2, Components

\* Powers of 2 multiply.
LEMMA Pow2Sum ==
    ASSUME NEW m \in Nat
    PROVE  \A n \in Nat : Pow2[m + n] = Pow2[m] * Pow2[n]
<1> DEFINE S == {n \in Nat : Pow2[m + n] = Pow2[m] * Pow2[n]}
<1>1. 0 \in S
  BY Pow2Def
<1>2. ASSUME NEW n \in Nat, n \in S PROVE n + 1 \in S
  <2>1. Pow2[m + (n + 1)] = 2 * Pow2[m + n] /\ Pow2[n + 1] = 2 * Pow2[n]
    BY Pow2Def
  <2>2. Pow2[m] \in Int /\ Pow2[n] \in Int /\ Pow2[m + n] = Pow2[m] * Pow2[n]
    BY <1>2, Pow2Def
  <2>3. 2 * (Pow2[m] * Pow2[n]) = Pow2[m] * (2 * Pow2[n])
    BY <2>2
  <2> QED BY <2>1, <2>2, <2>3
<1> HIDE DEF S
<1>3. Nat \subseteq S
  BY <1>1, <1>2, SetInduction
<1> QED BY <1>3 DEF S

\* scaleUp multiplies by sqrt(2) that many times.
LEMMA ScaleUpStep ==
    ASSUME NEW p \in Tuple, NEW k \in Nat
    PROVE  /\ scaleUp(p, k) \in Tuple
           /\ scaleUp(p, 0) = p
           /\ scaleUp(p, k + 1) = TimesSqrt2(scaleUp(p, k))
<1>1. ASSUME NEW m \in Nat
      PROVE  /\ Scale(Pow2[m], p) \in Tuple /\ TimesSqrt2(Scale(Pow2[m], p)) \in Tuple
             /\ TimesSqrt2(TimesSqrt2(Scale(Pow2[m], p))) = Scale(Pow2[m + 1], p)
  <2>1. Pow2[m] \in Int /\ Pow2[m + 1] = 2 * Pow2[m]
    BY Pow2Def
  <2>2. Scale(Pow2[m], p) \in Tuple
    BY <2>1, TupleClosure
  <2>3. TimesSqrt2(TimesSqrt2(Scale(Pow2[m], p))) = Scale(2, Scale(Pow2[m], p))
    BY <2>2, ScaleUpTwice
  <2>4. Scale(2, Scale(Pow2[m], p)) = Scale(2 * Pow2[m], p)
    BY <2>1, ScaleTwice
  <2> QED BY <2>1, <2>2, <2>3, <2>4, TupleClosure
<1>2. scaleUp(p, 0) = p
  <2>1. Pow2[0 \div 2] = 1 /\ 0 % 2 = 0
    BY Pow2Def
  <2> QED BY <2>1, ScaleOne DEF scaleUp
<1>3. CASE k % 2 = 0
  <2>1. k \div 2 \in Nat /\ (k + 1) \div 2 = k \div 2 /\ (k + 1) % 2 = 1
    BY <1>3
  <2> QED BY <1>1, <1>2, <1>3, <2>1 DEF scaleUp
<1>4. CASE k % 2 = 1
  <2>1. k \div 2 \in Nat /\ (k + 1) \div 2 = k \div 2 + 1 /\ (k + 1) % 2 = 0
    BY <1>4
  <2> QED BY <1>1, <1>2, <1>4, <2>1 DEF scaleUp
<1> QED BY <1>3, <1>4

\* ... and so it is linear, and commutes with the product and the conjugate.
LEMMA ScaleUpLaws ==
    ASSUME NEW k \in Nat
    PROVE  /\ \A n \in Int : \A p \in Tuple :
                 scaleUp(Scale(n, p), k) = Scale(n, scaleUp(p, k))
           /\ \A p \in Tuple : \A q \in Tuple :
                 scaleUp(Plus(p, q), k) = Plus(scaleUp(p, k), scaleUp(q, k))
           /\ \A p \in Tuple : scaleUp(ConjTuple(p), k) = ConjTuple(scaleUp(p, k))
           /\ \A p \in Tuple : \A q \in Tuple :
                 /\ mulTuple(scaleUp(p, k), q) = scaleUp(mulTuple(p, q), k)
                 /\ mulTuple(q, scaleUp(p, k)) = scaleUp(mulTuple(q, p), k)
<1> DEFINE m == Pow2[k \div 2]
<1>1. m \in Int
  BY Pow2Def
<1> HIDE DEF m
<1>2. ASSUME NEW r \in Tuple
      PROVE  /\ Scale(m, r) \in Tuple
             /\ scaleUp(r, k) = IF k % 2 = 1 THEN TimesSqrt2(Scale(m, r)) ELSE Scale(m, r)
  BY <1>1, TupleClosure DEF scaleUp, m
<1>3. ASSUME NEW n \in Int, NEW p \in Tuple
      PROVE  scaleUp(Scale(n, p), k) = Scale(n, scaleUp(p, k))
  <2>1. m * n = n * m
    BY <1>1
  <2>2. Scale(m, Scale(n, p)) = Scale(m * n, p) /\ Scale(n, Scale(m, p)) = Scale(n * m, p)
    BY <1>1, ScaleTwice
  <2>3. Scale(m, Scale(n, p)) = Scale(n, Scale(m, p))
    BY <2>1, <2>2
  <2>4. TimesSqrt2(Scale(n, Scale(m, p))) = Scale(n, TimesSqrt2(Scale(m, p)))
    BY <1>2, ScaleIsLinear
  <2>5. Scale(n, p) \in Tuple
    BY TupleClosure
  <2> QED BY <1>2, <2>3, <2>4, <2>5
<1>4. ASSUME NEW p \in Tuple, NEW q \in Tuple
      PROVE  scaleUp(Plus(p, q), k) = Plus(scaleUp(p, k), scaleUp(q, k))
  <2>1. Scale(m, Plus(p, q)) = Plus(Scale(m, p), Scale(m, q))
    BY <1>1, ScaleDistributes
  <2>2. TimesSqrt2(Plus(Scale(m, p), Scale(m, q)))
           = Plus(TimesSqrt2(Scale(m, p)), TimesSqrt2(Scale(m, q)))
    BY <1>2, Sqrt2Distributes
  <2>3. Plus(p, q) \in Tuple
    BY TupleClosure
  <2> QED BY <1>2, <2>1, <2>2, <2>3
<1>5. ASSUME NEW p \in Tuple
      PROVE  scaleUp(ConjTuple(p), k) = ConjTuple(scaleUp(p, k))
  <2>1. Scale(m, ConjTuple(p)) = ConjTuple(Scale(m, p))
    BY <1>1, ScaleIsLinear
  <2>2. TimesSqrt2(ConjTuple(Scale(m, p))) = ConjTuple(TimesSqrt2(Scale(m, p)))
    BY <1>2, Sqrt2Divides
  <2>3. ConjTuple(p) \in Tuple
    BY TupleClosure
  <2> QED BY <1>2, <2>1, <2>2, <2>3
<1>6. ASSUME NEW p \in Tuple, NEW q \in Tuple
      PROVE  mulTuple(scaleUp(p, k), q) = scaleUp(mulTuple(p, q), k)
  <2>1. mulTuple(Scale(m, p), q) = Scale(m, mulTuple(p, q))
    BY <1>1, ScaleOfProduct
  <2>2. mulTuple(TimesSqrt2(Scale(m, p)), q) = TimesSqrt2(mulTuple(Scale(m, p), q))
    BY <1>2, Sqrt2Distributes
  <2>3. mulTuple(p, q) \in Tuple
    BY TupleClosure
  <2> QED BY <1>2, <2>1, <2>2, <2>3
<1>7. ASSUME NEW p \in Tuple, NEW q \in Tuple
      PROVE  mulTuple(q, scaleUp(p, k)) = scaleUp(mulTuple(q, p), k)
  <2>1. scaleUp(p, k) \in Tuple
    BY ScaleUpStep
  <2>2. /\ mulTuple(q, scaleUp(p, k)) = mulTuple(scaleUp(p, k), q)
        /\ mulTuple(q, p) = mulTuple(p, q)
    BY <2>1, MulTupleCommutes
  <2> QED BY <1>6, <2>2
<1> QED BY <1>3, <1>4, <1>5, <1>6, <1>7

\* Scaling by sqrt(2)^k and then by sqrt(2)^l scales by their product.
LEMMA ScaleUpSum ==
    ASSUME NEW p \in Tuple, NEW k \in Nat
    PROVE  \A l \in Nat : scaleUp(scaleUp(p, k), l) = scaleUp(p, k + l)
<1> DEFINE S == {l \in Nat : scaleUp(scaleUp(p, k), l) = scaleUp(p, k + l)}
<1>1. 0 \in S
  BY ScaleUpStep
<1>2. ASSUME NEW l \in Nat, l \in S PROVE l + 1 \in S
  <2>1. scaleUp(scaleUp(p, k), l + 1) = TimesSqrt2(scaleUp(scaleUp(p, k), l))
    BY ScaleUpStep
  <2>2. scaleUp(p, (k + l) + 1) = TimesSqrt2(scaleUp(p, k + l))
    BY ScaleUpStep
  <2>3. (k + l) + 1 = k + (l + 1)
    OBVIOUS
  <2> QED BY <1>2, <2>1, <2>2, <2>3
<1> HIDE DEF S
<1>3. Nat \subseteq S
  BY <1>1, <1>2, SetInduction
<1> QED BY <1>3 DEF S

\* sqrt(2)^(2k) is 2^k.
LEMMA ScaleUpDouble ==
    ASSUME NEW p \in Tuple, NEW k \in Nat
    PROVE  scaleUp(p, 2 * k) = Scale(Pow2[k], p)
<1>1. (2 * k) \div 2 = k /\ (2 * k) % 2 = 0
  OBVIOUS
<1> QED BY <1>1 DEF scaleUp

\* A power of sqrt(2) may be cancelled.
LEMMA ScaleUpCancels ==
    ASSUME NEW p \in Tuple, NEW q \in Tuple, NEW k \in Nat, scaleUp(p, k) = scaleUp(q, k)
    PROVE  p = q
<1>1. scaleUp(scaleUp(p, k), k) = Scale(Pow2[k], p)
  <2>1. k + k = 2 * k
    OBVIOUS
  <2> QED BY <2>1, ScaleUpSum, ScaleUpDouble
<1>2. scaleUp(scaleUp(q, k), k) = Scale(Pow2[k], q)
  <2>1. k + k = 2 * k
    OBVIOUS
  <2> QED BY <2>1, ScaleUpSum, ScaleUpDouble
<1> QED BY <1>1, <1>2, Pow2Def, ScaleCancels
-----------------------------------------------------------------------------
(***************************************************************************)
(* The two loops over integers: counting the factors 2, and the greatest   *)
(* common divisor.                                                         *)
(***************************************************************************)
\* What is left after the trailing zero bits are shifted out is odd.
LEMMA LsbFacts ==
    ASSUME NEW n \in Nat \ {0}
    PROVE  /\ lsb[n] \in Nat /\ Pow2[lsb[n]] \in Nat \ {0}
           /\ n \div Pow2[lsb[n]] \in Nat \ {0}
           /\ (n \div Pow2[lsb[n]]) % 2 = 1
           /\ n = Pow2[lsb[n]] * (n \div Pow2[lsb[n]])
<1> DEFINE Shifted(m) == \E o \in Nat \ {0} : o % 2 = 1 /\ m = Pow2[lsb[m]] * o
           S == {b \in Nat : \A m \in Nat \ {0} : m <= b => Shifted(m)}
<1>1. 0 \in S
  OBVIOUS
<1>2. ASSUME NEW b \in Nat, b \in S PROVE b + 1 \in S
  <2> SUFFICES ASSUME NEW m \in Nat \ {0}, m <= b + 1 PROVE Shifted(m)
    OBVIOUS
  <2>1. CASE m % 2 = 1
    <3>1. lsb[m] = 0 /\ Pow2[0] = 1
      BY <2>1, LsbDef, Pow2Def
    <3> QED BY <2>1, <3>1
  <2>2. CASE m % 2 = 0
    <3> DEFINE h == m \div 2
    <3>1. h \in Nat \ {0} /\ h <= b /\ m = 2 * h
      BY <2>2
    <3>2. PICK o \in Nat \ {0} : o % 2 = 1 /\ h = Pow2[lsb[h]] * o
      BY <1>2, <3>1
    <3>3. lsb[m] = 1 + lsb[h] /\ lsb[h] \in Nat
      BY <2>2, <3>1, LsbDef
    <3>4. Pow2[lsb[m]] = 2 * Pow2[lsb[h]] /\ Pow2[lsb[h]] \in Nat
      BY <3>3, Pow2Def
    <3>5. m = Pow2[lsb[m]] * o
      BY <3>1, <3>2, <3>4
    <3> QED BY <3>2, <3>5
  <2> QED BY <2>1, <2>2
<1> HIDE DEF S
<1>3. Nat \subseteq S
  BY <1>1, <1>2, SetInduction
<1>4. PICK o \in Nat \ {0} : o % 2 = 1 /\ n = Pow2[lsb[n]] * o
  <2>1. n \in S /\ n <= n
    BY <1>3
  <2> QED BY <2>1 DEF S
<1>5. lsb[n] \in Nat /\ Pow2[lsb[n]] \in Nat \ {0}
  BY LsbDef, Pow2Def
<1>6. n \div Pow2[lsb[n]] = o
  <2> DEFINE w == Pow2[lsb[n]]
  <2> HIDE DEF w
  <2>1. (w * o) \div w = o
    <3>1. w \in Nat \ {0} /\ o \in Int
      BY <1>5 DEF w
    <3> QED BY <3>1, Multiples
  <2> QED BY <1>4, <2>1 DEF w
<1> QED BY <1>4, <1>5, <1>6

\* A number and its absolute value have the same divisors.
LEMMA FactorOfAbs ==
    ASSUME NEW g \in Int, NEW a \in Int
    PROVE  Abs(a) \in Nat /\ (IsFactor(g, Abs(a)) <=> IsFactor(g, a))
BY FactorOpposite DEF Abs

\* Euclid's algorithm finds a common divisor that every other one divides.
LEMMA GcdFacts ==
    ASSUME NEW m \in Nat \ {0}, NEW n \in Nat
    PROVE  /\ Gcd(m, n) \in Nat \ {0}
           /\ \A g \in Int : IsFactor(g, Gcd(m, n)) <=> IsFactor(g, m) /\ IsFactor(g, n)
<1> DEFINE Greatest(i, j) ==
              /\ Gcd(i, j) \in Nat \ {0}
              /\ \A g \in Int : IsFactor(g, Gcd(i, j)) <=> IsFactor(g, i) /\ IsFactor(g, j)
           S == {b \in Nat : \A i \in Nat \ {0} : \A j \in Nat : j <= b => Greatest(i, j)}
<1>1. ASSUME NEW i \in Nat \ {0} PROVE Greatest(i, 0)
  <2>1. Gcd(i, 0) = i
    BY GcdDef
  <2>2. \A g \in Int : IsFactor(g, 0)
    BY DEF IsFactor
  <2> QED BY <2>1, <2>2
<1>2. 0 \in S
  BY <1>1
<1>3. ASSUME NEW b \in Nat, b \in S PROVE b + 1 \in S
  <2> SUFFICES ASSUME NEW i \in Nat \ {0}, NEW j \in Nat, j <= b + 1 PROVE Greatest(i, j)
    OBVIOUS
  <2>1. CASE j = 0
    BY <1>1, <2>1
  <2>2. CASE j # 0
    <3> DEFINE r == i % j
               q == i \div j
    <3>1. q \in Int /\ r \in Nat /\ r <= b /\ i = j * q + r
      BY <2>2, Division
    <3>2. Gcd(i, j) = Gcd(j, r)
      BY <2>2, GcdDef
    <3>3. Greatest(j, r)
      BY <1>3, <2>2, <3>1
    <3> HIDE DEF r, q
    <3>4. i \in Int /\ j \in Int /\ r \in Int
      BY <3>1
    <3>5. ASSUME NEW g \in Int, IsFactor(g, j) PROVE IsFactor(g, i) <=> IsFactor(g, r)
      <4> DEFINE t == j * q
      <4>1. t \in Int /\ i = t + r
        BY <3>1
      <4>2. IsFactor(g, t)
        BY <3>1, <3>5, <3>4, FactorProduct
      <4> HIDE DEF t
      <4> QED BY <3>4, <4>1, <4>2, FactorSum
    <3> QED BY <3>2, <3>3, <3>5
  <2> QED BY <2>1, <2>2
<1> HIDE DEF S
<1>4. Nat \subseteq S
  BY <1>2, <1>3, SetInduction
<1>5. n \in S /\ n <= n
  BY <1>4
<1> QED BY <1>5 DEF S

\* Phase 2 of canonicalize: the common divisors of a tuple and a denominator
\* are the divisors of their content.
LEMMA ContentFacts ==
    ASSUME NEW p \in Tuple, NEW e \in Nat \ {0}
    PROVE  /\ Content(p, e) \in Nat \ {0}
           /\ \A g \in Int :
                 IsFactor(g, Content(p, e)) <=> IsFactor(g, e) /\ \A i \in 1..4 : IsFactor(g, p[i])
<1> DEFINE c1 == Gcd(e, Abs(p[1]))
           c2 == Gcd(c1, Abs(p[2]))
           c3 == Gcd(c2, Abs(p[3]))
           c4 == Gcd(c3, Abs(p[4]))
<1>1. ASSUME NEW c \in Nat \ {0}, NEW a \in Int
      PROVE  /\ Gcd(c, Abs(a)) \in Nat \ {0}
             /\ \A g \in Int : IsFactor(g, Gcd(c, Abs(a))) <=> IsFactor(g, c) /\ IsFactor(g, a)
  BY GcdFacts, FactorOfAbs
<1>2. Content(p, e) = c4
  BY DEF Content
<1>3. p[1] \in Int /\ p[2] \in Int /\ p[3] \in Int /\ p[4] \in Int
  BY Components
<1>4. c1 \in Nat \ {0} /\ \A g \in Int : IsFactor(g, c1) <=> IsFactor(g, e) /\ IsFactor(g, p[1])
  BY <1>1, <1>3
<1> HIDE DEF c1
<1>5. c2 \in Nat \ {0} /\ \A g \in Int : IsFactor(g, c2) <=> IsFactor(g, c1) /\ IsFactor(g, p[2])
  BY <1>1, <1>3, <1>4
<1> HIDE DEF c2
<1>6. c3 \in Nat \ {0} /\ \A g \in Int : IsFactor(g, c3) <=> IsFactor(g, c2) /\ IsFactor(g, p[3])
  BY <1>1, <1>3, <1>5
<1> HIDE DEF c3
<1>7. c4 \in Nat \ {0} /\ \A g \in Int : IsFactor(g, c4) <=> IsFactor(g, c3) /\ IsFactor(g, p[4])
  BY <1>1, <1>3, <1>6
<1> HIDE DEF c4
<1>8. ASSUME NEW g \in Int
      PROVE  IsFactor(g, c4) <=> /\ IsFactor(g, e) /\ IsFactor(g, p[1]) /\ IsFactor(g, p[2])
                               /\ IsFactor(g, p[3]) /\ IsFactor(g, p[4])
  BY <1>4, <1>5, <1>6, <1>7
<1>9. \A i \in 1..4 : i = 1 \/ i = 2 \/ i = 3 \/ i = 4
  OBVIOUS
<1> QED BY <1>2, <1>7, <1>8, <1>9
-----------------------------------------------------------------------------
(***************************************************************************)
(* The constructor.  canonicalize keeps the value and puts it into         *)
(* canonical form.                                                         *)
(***************************************************************************)
LEMMA DwValueFields ==
    ASSUME NEW z \in DwValue
    PROVE  /\ z.t \in Tuple /\ z.k \in Nat /\ z.e \in Nat \ {0}
           /\ z = [t |-> z.t, k |-> z.k, e |-> z.e]
BY DEF DwValue

\* The record made of a tuple, an exponent and a denominator.
LEMMA DwValueMade ==
    ASSUME NEW p \in Tuple, NEW k \in Nat, NEW e \in Nat \ {0}
    PROVE  /\ [t |-> p, k |-> k, e |-> e] \in DwValue
BY DEF DwValue

\* One turn of the loop takes one power of sqrt(2) out of both sides.
LEMMA Sqrt2CancelledFacts ==
    ASSUME NEW z \in DwValue, z.k > 0, DivisibleBySqrt2(z.t)
    PROVE  /\ Sqrt2Cancelled(z) \in DwValue
           /\ TimesSqrt2(Sqrt2Cancelled(z).t) = z.t
           /\ Sqrt2Cancelled(z).k = z.k - 1 /\ Sqrt2Cancelled(z).e = z.e
<1> DEFINE half == DividedBy(TimesSqrt2(z.t), 2)
<1>1. half \in Tuple /\ TimesSqrt2(half) = z.t
  BY DwValueFields, ReductionIsExact
<1>2. Sqrt2Cancelled(z) = [t |-> half, k |-> z.k - 1, e |-> z.e]
  BY DEF Sqrt2Cancelled
<1> HIDE DEF half
<1>3. z.k - 1 \in Nat /\ z.e \in Nat \ {0}
  BY DwValueFields
<1> QED BY <1>1, <1>2, <1>3, DwValueMade

\* reduceSqrt2Power satisfies its equation: k bounds its turns.
LEMMA ReduceSqrt2PowerDef ==
    \A z \in DwValue :
       reduceSqrt2Power[z] = IF z.k > 0 /\ DivisibleBySqrt2(z.t)
                                THEN reduceSqrt2Power[Sqrt2Cancelled(z)] ELSE z
<1> DEFINE D == DwValue
           Stop == {z \in D : ~(z.k > 0 /\ DivisibleBySqrt2(z.t))}
           mu == [z \in D |-> z.k]
           base == [z \in D |-> z]
           next == [z \in D |-> IF z.k > 0 /\ DivisibleBySqrt2(z.t)
                                   THEN Sqrt2Cancelled(z) ELSE z]
           comb == [z \in D |-> [v \in D |-> v]]
<1>1. Recursion(D, D, Stop, mu, base, next, comb)
  <2>1. mu \in [D -> Nat]
    BY DwValueFields
  <2>2. next \in [D -> D]
    BY Sqrt2CancelledFacts
  <2>3. ASSUME NEW z \in D \ Stop PROVE mu[next[z]] < mu[z]
    <3>1. z.k > 0 /\ DivisibleBySqrt2(z.t) /\ z.k \in Nat /\ z \in D
      BY DwValueFields
    <3>2. next[z] = Sqrt2Cancelled(z) /\ Sqrt2Cancelled(z) \in D
      BY <3>1, Sqrt2CancelledFacts
    <3>3. mu[z] = z.k /\ mu[next[z]] = z.k - 1
      BY <3>1, <3>2, Sqrt2CancelledFacts
    <3> QED BY <3>1, <3>3
  <2> QED BY <2>1, <2>2, <2>3 DEF Recursion
<1>2. \A z \in D : /\ z \in Stop <=> ~(z.k > 0 /\ DivisibleBySqrt2(z.t))
                   /\ base[z] = z
                   /\ z \notin Stop => next[z] = Sqrt2Cancelled(z)
                   /\ \A v \in D : comb[z][v] = v
  OBVIOUS
<1> HIDE DEF mu, base, next, comb, Stop
<1>3. PICK f \in [D -> D] : Follows(f, D, D, Stop, base, next, comb)
  BY <1>1, RecursiveFunction
<1>4. ASSUME NEW z \in D
      PROVE  f[z] = IF z.k > 0 /\ DivisibleBySqrt2(z.t) THEN f[Sqrt2Cancelled(z)] ELSE z
  <2>1. next[z] \in D
    BY <1>1 DEF Recursion
  <2> QED BY <1>2, <1>3, <2>1 DEF Follows
<1>5. f = [z \in D |-> IF z.k > 0 /\ DivisibleBySqrt2(z.t) THEN f[Sqrt2Cancelled(z)] ELSE z]
  BY <1>3, <1>4
<1>6. reduceSqrt2Power = [z \in D |-> IF z.k > 0 /\ DivisibleBySqrt2(z.t)
                                         THEN reduceSqrt2Power[Sqrt2Cancelled(z)] ELSE z]
  BY <1>5 DEF reduceSqrt2Power
<1> QED BY <1>6

\* The loop takes out as many powers as it can.
LEMMA ReduceSqrt2PowerFacts ==
    ASSUME NEW z \in DwValue
    PROVE  LET r == reduceSqrt2Power[z]
           IN  /\ r \in DwValue /\ r.e = z.e /\ r.k <= z.k
               /\ scaleUp(r.t, z.k - r.k) = z.t
               /\ r.k > 0 => ~DivisibleBySqrt2(r.t)
<1> DEFINE Ok(y) == LET r == reduceSqrt2Power[y]
                    IN  /\ r \in DwValue /\ r.e = y.e /\ r.k <= y.k
                        /\ scaleUp(r.t, y.k - r.k) = y.t
                        /\ r.k > 0 => ~DivisibleBySqrt2(r.t)
           S == {b \in Nat : \A y \in DwValue : y.k <= b => Ok(y)}
<1>1. ASSUME NEW y \in DwValue, ~(y.k > 0 /\ DivisibleBySqrt2(y.t)) PROVE Ok(y)
  <2>1. reduceSqrt2Power[y] = y
    BY <1>1, ReduceSqrt2PowerDef
  <2>2. y.k - y.k = 0 /\ y.k <= y.k /\ scaleUp(y.t, 0) = y.t
    BY DwValueFields, ScaleUpStep
  <2> QED BY <1>1, <2>1, <2>2
<1>2. 0 \in S
  BY <1>1, DwValueFields
<1>3. ASSUME NEW b \in Nat, b \in S PROVE b + 1 \in S
  <2> SUFFICES ASSUME NEW y \in DwValue, y.k <= b + 1, y.k > 0 /\ DivisibleBySqrt2(y.t)
               PROVE  Ok(y)
    BY <1>1
  <2> DEFINE h == Sqrt2Cancelled(y)
             r == reduceSqrt2Power[h]
  <2>1. reduceSqrt2Power[y] = r
    BY ReduceSqrt2PowerDef
  <2>2. h \in DwValue /\ TimesSqrt2(h.t) = y.t /\ h.k = y.k - 1 /\ h.e = y.e /\ y.k \in Nat
    BY Sqrt2CancelledFacts, DwValueFields
  <2>3. Ok(h)
    BY <1>3, <2>2
  <2> HIDE DEF h
  <2>4. /\ r \in DwValue /\ r.e = h.e /\ r.k <= h.k
        /\ scaleUp(r.t, h.k - r.k) = h.t
        /\ r.k > 0 => ~DivisibleBySqrt2(r.t)
    BY <2>3
  <2> HIDE DEF r
  <2>5. r.t \in Tuple /\ r.k \in Nat /\ h.k - r.k \in Nat /\ y.k - r.k = (h.k - r.k) + 1
    BY <2>2, <2>4, DwValueFields
  <2>6. scaleUp(r.t, y.k - r.k) = y.t
    BY <2>2, <2>4, <2>5, ScaleUpStep
  <2>7. r.k <= y.k
    BY <2>2, <2>4, <2>5
  <2> QED BY <2>1, <2>2, <2>4, <2>6, <2>7
<1> HIDE DEF S
<1>4. Nat \subseteq S
  BY <1>2, <1>3, SetInduction
<1>5. z.k \in S /\ z.k <= z.k
  BY <1>4, DwValueFields
<1> QED BY <1>5 DEF S

\* Dividing a tuple by a common divisor is exact.
LEMMA DividedByFactor ==
    ASSUME NEW p \in Tuple, NEW c \in Nat \ {0}, \A i \in 1..4 : IsFactor(c, p[i])
    PROVE  DividedBy(p, c) \in Tuple /\ Scale(c, DividedBy(p, c)) = p
<1>1. ASSUME NEW i \in 1..4 PROVE p[i] \div c \in Int /\ c * (p[i] \div c) = p[i]
  <2>1. p[i] \in Int
    <3>1. i = 1 \/ i = 2 \/ i = 3 \/ i = 4
      OBVIOUS
    <3> QED BY <3>1, Components
  <2> QED BY <2>1, FactorMod, HasQuotient
<1>2. 1 \in 1..4 /\ 2 \in 1..4 /\ 3 \in 1..4 /\ 4 \in 1..4
  OBVIOUS
<1> DEFINE q == DividedBy(p, c)
<1>3. /\ q \in Tuple
      /\ q[1] = p[1] \div c /\ q[2] = p[2] \div c /\ q[3] = p[3] \div c /\ q[4] = p[4] \div c
  BY <1>1, <1>2 DEF DividedBy, Tuple
<1>4. Scale(c, q) = <<p[1], p[2], p[3], p[4]>>
  BY <1>1, <1>2, <1>3 DEF Scale
<1> QED BY <1>3, <1>4, Components

\* Phases 1 and 2: e becomes odd, then it has no factor in common with t.
LEMMA RationalDenominatorFacts ==
    ASSUME NEW p \in Tuple, NEW k \in Nat, NEW e \in Nat \ {0}
    PROVE  LET z == reduceRationalDenominator(p, k, e)
               c == Content(p, e \div Pow2[lsb[e]])
           IN  /\ z \in DwValue /\ z.k = k + 2 * lsb[e]
               /\ c \in Nat \ {0} /\ Scale(c, z.t) = p /\ Pow2[lsb[e]] * (c * z.e) = e
               /\ z.e % 2 = 1
               /\ \A g \in Nat \ {0} :
                     IsFactor(g, z.e) /\ (\A i \in 1..4 : IsFactor(g, z.t[i])) => g = 1
<1> DEFINE odd == e \div Pow2[lsb[e]]
           c == Content(p, odd)
           t == DividedBy(p, c)
           f == odd \div c
<1>1. /\ odd \in Nat \ {0} /\ odd % 2 = 1 /\ e = Pow2[lsb[e]] * odd
      /\ lsb[e] \in Nat /\ Pow2[lsb[e]] \in Nat
  BY LsbFacts
<1>2. reduceRationalDenominator(p, k, e) = [t |-> t, k |-> k + 2 * lsb[e], e |-> f]
  BY DEF reduceRationalDenominator, WithOddE, WithoutFactor
<1> HIDE DEF odd
<1>3. /\ c \in Nat \ {0}
      /\ \A g \in Int : IsFactor(g, c) <=> IsFactor(g, odd) /\ \A i \in 1..4 : IsFactor(g, p[i])
  BY <1>1, ContentFacts
<1> HIDE DEF c
<1>4. IsFactor(c, odd) /\ \A i \in 1..4 : IsFactor(c, p[i])
  BY <1>3, FactorSelf
<1>5. t \in Tuple /\ Scale(c, t) = p
  BY <1>3, <1>4, DividedByFactor
<1>6. f \in Int /\ odd = c * f
  BY <1>1, <1>3, <1>4, FactorMod, HasQuotient
<1> HIDE DEF t, f
<1>7. f \in Nat \ {0}
  BY <1>1, <1>3, <1>6
<1>8. f % 2 = 1
  <2>1. CASE f % 2 = 0
    <3>1. PICK h \in Int : f = 2 * h
      BY <1>6, <2>1
    <3>2. odd = 2 * (c * h) /\ c * h \in Int
      BY <1>3, <1>6, <3>1
    <3> QED BY <1>1, <3>2
  <2> QED BY <1>6, <2>1
<1>9. ASSUME NEW g \in Nat \ {0}, IsFactor(g, f), \A i \in 1..4 : IsFactor(g, t[i])
      PROVE  g = 1
  <2>1. g * c \in Int
    BY <1>3
  <2>2. ASSUME NEW n \in Int, NEW m \in Int, n = c * m, IsFactor(g, m) PROVE IsFactor(g * c, n)
    <3>1. PICK j \in Int : m = g * j
      BY <2>2 DEF IsFactor
    <3>2. n = (g * c) * j
      BY <1>3, <2>2, <3>1
    <3> QED BY <3>2 DEF IsFactor
  <2>3. IsFactor(g * c, odd)
    BY <1>1, <1>6, <1>9, <2>2
  <2>4. ASSUME NEW i \in 1..4 PROVE IsFactor(g * c, p[i])
    <3>1. p[i] \in Int /\ t[i] \in Int /\ p[i] = c * t[i]
      <4>1. i = 1 \/ i = 2 \/ i = 3 \/ i = 4
        OBVIOUS
      <4>2. Scale(c, t) = <<c * t[1], c * t[2], c * t[3], c * t[4]>>
        BY DEF Scale
      <4>3. /\ p[1] = c * t[1] /\ p[2] = c * t[2] /\ p[3] = c * t[3] /\ p[4] = c * t[4]
        BY <1>5, <4>2
      <4> QED BY <1>5, <4>1, <4>3, Components
    <3> QED BY <1>9, <2>2, <3>1
  <2>5. IsFactor(g * c, c)
    BY <1>3, <2>1, <2>3, <2>4
  <2>6. PICK j \in Int : c = (g * c) * j
    BY <2>5 DEF IsFactor
  <2>7. c * (g * j) = c * 1 /\ g * j \in Int
    BY <1>3, <2>6
  <2>8. g * j = 1
    BY <1>3, <2>7, Cancellation
  <2> QED BY <2>8
<1>10. Pow2[lsb[e]] * (c * f) = e
  BY <1>1, <1>6
<1>11. k + 2 * lsb[e] \in Nat
  BY <1>1
<1> DEFINE z == [t |-> t, k |-> k + 2 * lsb[e], e |-> f]
<1>12. z \in DwValue /\ z.t = t /\ z.e = f /\ z.k = k + 2 * lsb[e]
  BY <1>5, <1>7, <1>11, DwValueMade
<1> HIDE DEF z
<1>13. reduceRationalDenominator(p, k, e) = z
  BY <1>2 DEF z
<1> QED BY <1>3, <1>5, <1>8, <1>9, <1>10, <1>12, <1>13 DEF c, odd

\* Nothing but the zero tuple is scaled to it.
LEMMA ZeroTupleFacts ==
    /\ ZeroTuple \in Tuple
    /\ \A k \in Nat : scaleUp(ZeroTuple, k) = ZeroTuple
    /\ \A n \in Int : Scale(n, ZeroTuple) = ZeroTuple
    /\ \A n \in Nat \ {0} : \A p \in Tuple : Scale(n, p) = ZeroTuple => p = ZeroTuple
    /\ \A k \in Nat : \A p \in Tuple : scaleUp(p, k) = ZeroTuple => p = ZeroTuple
<1>1. ZeroTuple \in Tuple
  BY DEF ZeroTuple, Tuple
<1>2. ASSUME NEW n \in Int PROVE Scale(n, ZeroTuple) = ZeroTuple
  BY DEF Scale, ZeroTuple
<1>3. ASSUME NEW k \in Nat PROVE scaleUp(ZeroTuple, k) = ZeroTuple
  <2>1. TimesSqrt2(ZeroTuple) = ZeroTuple
    BY DEF TimesSqrt2, ZeroTuple
  <2>2. Pow2[k \div 2] \in Int
    BY Pow2Def
  <2> QED BY <1>2, <2>1, <2>2 DEF scaleUp
<1>4. ASSUME NEW n \in Nat \ {0}, NEW p \in Tuple, Scale(n, p) = ZeroTuple PROVE p = ZeroTuple
  <2>1. Scale(n, p) = Scale(n, ZeroTuple)
    BY <1>2, <1>4
  <2> QED BY <1>1, <2>1, ScaleCancels
<1>5. ASSUME NEW k \in Nat, NEW p \in Tuple, scaleUp(p, k) = ZeroTuple PROVE p = ZeroTuple
  <2>1. scaleUp(p, k) = scaleUp(ZeroTuple, k)
    BY <1>3, <1>5
  <2> QED BY <1>1, <2>1, ScaleUpCancels
<1> QED BY <1>1, <1>2, <1>3, <1>4, <1>5

\* g divides every coordinate of sqrt(2)^k p if it divides every one of p.
LEMMA FactorOfScaleUp ==
    ASSUME NEW g \in Nat \ {0}, NEW p \in Tuple, NEW k \in Nat,
           \A i \in 1..4 : IsFactor(g, p[i])
    PROVE  \A i \in 1..4 : IsFactor(g, scaleUp(p, k)[i])
<1> DEFINE q == DividedBy(p, g)
           r == scaleUp(q, k)
<1>1. q \in Tuple /\ Scale(g, q) = p
  BY DividedByFactor
<1> HIDE DEF q
<1>2. r \in Tuple /\ scaleUp(p, k) = Scale(g, r)
  <2>1. g \in Int
    OBVIOUS
  <2>2. scaleUp(Scale(g, q), k) = Scale(g, scaleUp(q, k))
    BY <1>1, <2>1, ScaleUpLaws
  <2> QED BY <1>1, <2>2, ScaleUpStep
<1> HIDE DEF r
<1>3. Scale(g, r) = <<g * r[1], g * r[2], g * r[3], g * r[4]>>
  BY DEF Scale
<1>4. ASSUME NEW i \in 1..4 PROVE r[i] \in Int /\ scaleUp(p, k)[i] = g * r[i]
  <2>1. i = 1 \/ i = 2 \/ i = 3 \/ i = 4
    OBVIOUS
  <2>2. r[1] \in Int /\ r[2] \in Int /\ r[3] \in Int /\ r[4] \in Int
    BY <1>2, Components
  <2> QED BY <1>2, <1>3, <2>1, <2>2
<1> QED BY <1>4 DEF IsFactor

\* The coordinates that canonicalize is given, over their denominator.
Value(p, k, e) == [n |-> scaleUp(p, k), d |-> Pow2[k] * e]

\* The coordinates over one denominator times the other denominator.
SameValue(p, q) == Scale(q.d, p.n) = Scale(p.d, q.n)

\* q, j, f is p, k, e with 2^l moved from e to k, then c taken out of both, then
\* powers of sqrt(2).
Reduction(q, j, f, p, k, e, c, l) ==
    /\ j <= k + 2 * l
    /\ p = Scale(c, scaleUp(q, (k + 2 * l) - j))
    /\ e = Pow2[l] * (c * f)

\* What canonicalize took out of a tuple it took out of the denominator.
LEMMA ValueOfReduced ==
    ASSUME NEW p \in Tuple, NEW q \in Tuple, NEW j \in Nat, NEW k \in Nat, NEW l \in Nat,
           NEW c \in Nat \ {0}, NEW e \in Nat \ {0}, NEW f \in Nat \ {0},
           Reduction(q, j, f, p, k, e, c, l)
    PROVE  SameValue(Value(q, j, f), Value(p, k, e))
<1> USE DEF Reduction
<1> DEFINE d == (k + 2 * l) - j
           r == scaleUp(q, j)
<1>1. d \in Nat /\ d + k \in Nat /\ (d + k) + j = 2 * (k + l) /\ j + (d + k) = 2 * (k + l)
  OBVIOUS
<1>2. /\ Pow2[k] \in Int /\ Pow2[l] \in Int /\ Pow2[j] \in Int
      /\ Pow2[k + l] \in Int /\ Pow2[k + l] = Pow2[k] * Pow2[l]
  <2>1. k + l \in Nat
    OBVIOUS
  <2>2. Pow2[k + l] = Pow2[k] * Pow2[l]
    BY Pow2Sum
  <2> QED BY <2>1, <2>2, Pow2Def
<1>3. r \in Tuple /\ scaleUp(q, d) \in Tuple /\ scaleUp(q, d + k) \in Tuple
  BY <1>1, ScaleUpStep
<1>4. scaleUp(p, k) = Scale(c, scaleUp(q, d + k))
  <2>1. scaleUp(scaleUp(q, d), k) = scaleUp(q, d + k)
    BY <1>1, ScaleUpSum
  <2> QED BY <1>3, <2>1, ScaleUpLaws
<1>5. Scale(Pow2[j], scaleUp(q, d + k)) = Scale(Pow2[k + l], r)
  <2>1. Scale(Pow2[j], scaleUp(q, d + k)) = scaleUp(scaleUp(q, d + k), 2 * j)
    BY <1>3, ScaleUpDouble
  <2>2. scaleUp(scaleUp(q, d + k), 2 * j) = scaleUp(q, (d + k) + 2 * j)
    BY <1>1, ScaleUpSum
  <2>3. (d + k) + 2 * j = j + 2 * (k + l) /\ 2 * (k + l) \in Nat /\ k + l \in Nat
    OBVIOUS
  <2>4. scaleUp(r, 2 * (k + l)) = scaleUp(q, j + 2 * (k + l))
    BY <2>3, ScaleUpSum
  <2>5. scaleUp(r, 2 * (k + l)) = Scale(Pow2[k + l], r)
    BY <1>3, <2>3, ScaleUpDouble
  <2> QED BY <2>1, <2>2, <2>3, <2>4, <2>5
<1> DEFINE s == scaleUp(q, d + k)
<1>6. Value(q, j, f).n = r /\ Value(q, j, f).d = Pow2[j] * f
  BY DEF Value
<1>7. Value(p, k, e).n = Scale(c, s) /\ Value(p, k, e).d = Pow2[k] * e
  BY <1>4 DEF Value
<1> HIDE DEF r, s, d
<1>8. Scale(Pow2[j] * f, Scale(c, s)) = Scale((f * c) * Pow2[k + l], r)
  <2> DEFINE u == Pow2[j]
             w == Pow2[k + l]
             a == u * f
             b == f * c
  <2>1. /\ u \in Int /\ w \in Int /\ a \in Int /\ b \in Int /\ c \in Int
        /\ a * c = b * u /\ s \in Tuple
    BY <1>2, <1>3 DEF s
  <2>2. Scale(u, s) = Scale(w, r)
    BY <1>5 DEF s
  <2> HIDE DEF u, w, a, b
  <2>3. Scale(a, Scale(c, s)) = Scale(a * c, s) /\ Scale(b, Scale(u, s)) = Scale(b * u, s)
    BY <2>1, ScaleTwice
  <2>4. Scale(b, Scale(w, r)) = Scale(b * w, r)
    BY <1>3, <2>1, ScaleTwice
  <2>5. Scale(a, Scale(c, s)) = Scale(b * w, r)
    BY <2>1, <2>2, <2>3, <2>4
  <2> QED BY <2>5 DEF u, w, a, b
<1>9. Pow2[k] * e = (f * c) * Pow2[k + l]
  BY <1>2
<1> QED BY <1>6, <1>7, <1>8, <1>9 DEF SameValue

\* Whatever the constructor is given, it makes the canonical form of it.
THEOREM CanonicalizeIsExact ==
    ASSUME NEW p \in Tuple, NEW k \in Nat, NEW e \in Nat \ {0}
    PROVE  /\ Canonical(canonicalize(p, k, e))
           /\ SameValue(Element(canonicalize(p, k, e)), Value(p, k, e))
<1>1. CASE p = ZeroTuple
  <2>1. canonicalize(p, k, e) = Zero
    BY <1>1 DEF canonicalize
  <2>2. Zero.t = ZeroTuple /\ Zero.k = 0 /\ Zero.e = 1 /\ Zero \in DwValue
    BY ZeroTupleFacts DEF Zero, DwValue
  <2>3. Canonical(Zero)
    BY <2>2 DEF Canonical
  <2>4. Element(Zero).n = ZeroTuple /\ Value(p, k, e).n = ZeroTuple
    BY <1>1, <2>2, ZeroTupleFacts DEF Element, Value
  <2>5. Element(Zero).d \in Int /\ Value(p, k, e).d \in Int
    BY <2>2, Pow2Def DEF Element, Value
  <2> QED BY <2>1, <2>3, <2>4, <2>5, ZeroTupleFacts DEF SameValue
<1>2. CASE p # ZeroTuple
  <2> DEFINE y == reduceRationalDenominator(p, k, e)
             l == lsb[e]
             c == Content(p, e \div Pow2[lsb[e]])
             z == reduceSqrt2Power[y]
  <2>1. /\ y \in DwValue /\ y.k = k + 2 * l
        /\ c \in Nat \ {0} /\ Scale(c, y.t) = p /\ Pow2[l] * (c * y.e) = e
        /\ y.e % 2 = 1
        /\ \A g \in Nat \ {0} :
              IsFactor(g, y.e) /\ (\A i \in 1..4 : IsFactor(g, y.t[i])) => g = 1
    BY RationalDenominatorFacts
  <2> HIDE DEF y, c
  <2>2. /\ z \in DwValue /\ z.e = y.e /\ z.k <= y.k /\ scaleUp(z.t, y.k - z.k) = y.t
        /\ z.k > 0 => ~DivisibleBySqrt2(z.t)
    BY <2>1, ReduceSqrt2PowerFacts
  <2>3. canonicalize(p, k, e) = z
    BY <1>2 DEF canonicalize, y
  <2> HIDE DEF z
  <2>4. /\ z.t \in Tuple /\ z.k \in Nat /\ z.e \in Nat \ {0} /\ y.k \in Nat
        /\ y.k - z.k \in Nat /\ l \in Nat
    BY <2>1, <2>2, DwValueFields, LsbFacts
  <2>5. z.t # ZeroTuple
    BY <1>2, <2>1, <2>2, <2>4, ZeroTupleFacts
  <2>6. ASSUME NEW g \in 2..z.e, z.e % g = 0, \A i \in 1..4 : ~(z.t[i] % g # 0) PROVE FALSE
    <3>1. g \in Nat \ {0} /\ g # 1
      BY <2>4
    <3>2. IsFactor(g, y.e)
      BY <2>2, <2>4, <2>6, <3>1, FactorMod
    <3>3. \A i \in 1..4 : IsFactor(g, z.t[i])
      <4> TAKE i \in 1..4
      <4>1. z.t[i] \in Int
        <5>1. i = 1 \/ i = 2 \/ i = 3 \/ i = 4
          OBVIOUS
        <5> QED BY <2>4, <5>1, Components
      <4>2. z.t[i] % g = 0
        BY <2>6
      <4> QED BY <3>1, <4>1, <4>2, FactorMod
    <3>4. \A i \in 1..4 : IsFactor(g, y.t[i])
      BY <2>2, <2>4, <3>1, <3>3, FactorOfScaleUp
    <3> QED BY <2>1, <3>1, <3>2, <3>4
  <2>7. Canonical(z)
    BY <2>1, <2>2, <2>5, <2>6 DEF Canonical, isZero
  <2>8. SameValue(Value(z.t, z.k, z.e), Value(p, k, e))
    <3>1. z.k <= k + 2 * l /\ y.k - z.k = (k + 2 * l) - z.k
      BY <2>1, <2>2
    <3>2. p = Scale(c, scaleUp(z.t, (k + 2 * l) - z.k))
      BY <2>1, <2>2, <3>1
    <3>3. e = Pow2[l] * (c * z.e)
      BY <2>1, <2>2
    <3>4. Reduction(z.t, z.k, z.e, p, k, e, c, l)
      BY <3>1, <3>2, <3>3 DEF Reduction
    <3> HIDE DEF l
    <3> QED BY <2>1, <2>4, <3>4, ValueOfReduced
  <2>9. Element(z) = Value(z.t, z.k, z.e)
    BY DEF Element, Value
  <2> QED BY <2>3, <2>7, <2>8, <2>9
<1> QED BY <1>1, <1>2
-----------------------------------------------------------------------------
(***************************************************************************)
(* Equality.  Two canonical values that stand for one element are equal:   *)
(* hash-consing may compare the fields.                                    *)
(***************************************************************************)
\* No integer but 1 divides n and all of p.
Coprime(n, p) ==
    \A g \in Nat \ {0} : IsFactor(g, n) /\ (\A i \in 1..4 : IsFactor(g, p[i])) => g = 1

\* The four coefficients.
LEMMA Indices == \A i \in 1..4 : i = 1 \/ i = 2 \/ i = 3 \/ i = 4
OBVIOUS

\* One coefficient of a tuple.
LEMMA TupleComponent ==
    ASSUME NEW p \in Tuple, NEW i \in 1..4
    PROVE  p[i] \in Int /\ \A n \in Int : Scale(n, p)[i] = n * p[i]
<1>1. ASSUME NEW n \in Int
      PROVE  /\ Scale(n, p)[1] = n * p[1] /\ Scale(n, p)[2] = n * p[2]
             /\ Scale(n, p)[3] = n * p[3] /\ Scale(n, p)[4] = n * p[4]
  BY DEF Scale
<1> QED BY <1>1, Indices, Components

\* The parts of the canonical form, with coprimality by divisors.
LEMMA CanonicalFacts ==
    ASSUME NEW z, Canonical(z)
    PROVE  /\ z \in DwValue /\ z.t \in Tuple /\ z.k \in Nat /\ z.e \in Nat \ {0}
           /\ z.k > 0 => ~DivisibleBySqrt2(z.t)
           /\ z.e % 2 = 1 /\ Coprime(z.e, z.t)
<1>1. /\ z \in DwValue /\ z.t \in Tuple /\ z.k \in Nat /\ z.e \in Nat \ {0}
      /\ z.k > 0 => ~DivisibleBySqrt2(z.t)
      /\ z.e % 2 = 1
      /\ \A g \in 2..z.e : z.e % g = 0 => \E i \in 1..4 : z.t[i] % g # 0
  <2>1. z \in DwValue
    BY DEF Canonical
  <2> QED BY <2>1, DwValueFields DEF Canonical
<1>2. ASSUME NEW g \in Nat \ {0}, IsFactor(g, z.e), \A i \in 1..4 : IsFactor(g, z.t[i]), g # 1
      PROVE  FALSE
  <2>1. z.e % g = 0
    BY <1>1, <1>2, FactorMod
  <2>2. g <= z.e
    <3>1. PICK q \in Int : z.e = g * q
      BY <1>2 DEF IsFactor
    <3> QED BY <1>1, <3>1
  <2>3. g \in 2..z.e
    BY <1>1, <1>2, <2>2
  <2>4. PICK i \in 1..4 : z.t[i] % g # 0
    BY <1>1, <2>1, <2>3
  <2> QED BY <1>1, <1>2, <2>4, TupleComponent, FactorMod
<1> QED BY <1>1, <1>2 DEF Coprime

\* m times n is divided by e for every coordinate n of p, which has nothing in
\* common with e, so e divides m.  The least positive such m is e.
LEMMA CoprimeFactor ==
    ASSUME NEW e \in Nat \ {0}, NEW p \in Tuple, Coprime(e, p),
           NEW m \in Nat \ {0}, \A i \in 1..4 : IsFactor(e, m * p[i])
    PROVE  IsFactor(e, m)
<1> DEFINE I == {n \in Nat \ {0} : \A i \in 1..4 : IsFactor(e, n * p[i])}
<1>1. e \in I
  <2>1. IsFactor(e, e)
    BY FactorSelf
  <2>2. \A i \in 1..4 : IsFactor(e, e * p[i])
    <3> TAKE i \in 1..4
    <3>1. p[i] \in Int /\ e \in Int
      BY TupleComponent
    <3> QED BY <2>1, <3>1, FactorProduct
  <2> QED BY <2>2
<1>2. PICK l \in I : \A n \in I : l <= n
  BY <1>1, LeastElement
<1>3. l \in Nat \ {0} /\ \A i \in 1..4 : IsFactor(e, l * p[i])
  OBVIOUS
<1>4. ASSUME NEW n \in I PROVE IsFactor(l, n)
  <2> DEFINE q == n \div l
             r == n % l
  <2>1. n = l * q + r /\ q \in Int /\ r \in Nat /\ r < l
    BY <1>3, Division
  <2> HIDE DEF q, r
  <2>2. ASSUME NEW i \in 1..4 PROVE IsFactor(e, r * p[i])
    <3> DEFINE c == p[i]
               a == (l * c) * q
               b == r * c
    <3>1. c \in Int
      BY TupleComponent
    <3>2. l * c \in Int /\ a \in Int /\ b \in Int /\ n * c = a + b /\ n * c \in Int
      BY <1>3, <2>1, <3>1
    <3>3. IsFactor(e, l * c) /\ IsFactor(e, n * c)
      BY <1>3
    <3>4. IsFactor(e, a)
      <4> DEFINE lc == l * c
      <4>1. lc \in Int /\ IsFactor(e, lc) /\ a = lc * q /\ e \in Int
        BY <3>2, <3>3
      <4> HIDE DEF lc
      <4> QED BY <2>1, <4>1, FactorProduct
    <3> DEFINE s == n * c
    <3>5. IsFactor(e, s) /\ s = a + b /\ s \in Int /\ e \in Int
      BY <3>2, <3>3
    <3> HIDE DEF a, b, c, s
    <3>6. IsFactor(e, b)
      BY <3>2, <3>4, <3>5, FactorSum
    <3> QED BY <3>6 DEF b, c
  <2>3. r = 0
    <3>1. r # 0 => r \in I
      BY <2>1, <2>2
    <3> QED BY <1>2, <1>3, <2>1, <3>1
  <2> QED BY <2>1, <2>3 DEF IsFactor
<1>5. PICK g \in Int : e = l * g
  BY <1>1, <1>4 DEF IsFactor
<1>6. g \in Nat \ {0} /\ IsFactor(g, e)
  <2>1. g \in Nat \ {0}
    BY <1>3, <1>5
  <2>2. e = g * l
    BY <1>3, <1>5
  <2> QED BY <1>3, <2>1, <2>2 DEF IsFactor
<1>7. ASSUME NEW i \in 1..4 PROVE IsFactor(g, p[i])
  <2> DEFINE c == p[i]
  <2>1. c \in Int
    BY TupleComponent
  <2>2. PICK j \in Int : l * c = e * j
    BY <1>3 DEF IsFactor
  <2> HIDE DEF c
  <2>3. l * c = l * (g * j) /\ g * j \in Int
    BY <1>3, <1>5, <1>6, <2>2
  <2>4. c = g * j
    BY <1>3, <2>1, <2>3, Cancellation
  <2> QED BY <2>4 DEF IsFactor, c
<1>8. g = 1
  BY <1>6, <1>7 DEF Coprime
<1>9. e = l
  BY <1>3, <1>5, <1>8
<1> QED BY <1>4, <1>9

\* 2^b is sqrt(2)^(2 b).
LEMMA ScaleAsScaleUp ==
    ASSUME NEW r \in Tuple, NEW a \in Nat, NEW b \in Nat, NEW e \in Int
    PROVE  Scale(Pow2[b] * e, scaleUp(r, a)) = scaleUp(Scale(e, r), a + 2 * b)
<1>1. Pow2[b] \in Int /\ Pow2[b] * e = e * Pow2[b] /\ 2 * b \in Nat /\ a + 2 * b \in Nat
  BY Pow2Def
<1>2. scaleUp(r, a) \in Tuple
  BY ScaleUpStep
<1>3. Scale(e * Pow2[b], scaleUp(r, a)) = Scale(e, Scale(Pow2[b], scaleUp(r, a)))
  BY <1>1, <1>2, ScaleTwice
<1>4. Scale(Pow2[b], scaleUp(r, a)) = scaleUp(scaleUp(r, a), 2 * b)
  BY <1>2, ScaleUpDouble
<1>5. scaleUp(scaleUp(r, a), 2 * b) = scaleUp(r, a + 2 * b)
  BY <1>1, ScaleUpSum
<1>6. scaleUp(Scale(e, r), a + 2 * b) = Scale(e, scaleUp(r, a + 2 * b))
  BY <1>1, ScaleUpLaws
<1> QED BY <1>1, <1>3, <1>4, <1>5, <1>6

\* e and k are determined by the element: the one with the larger k would have
\* a numerator divisible by sqrt(2).
LEMMA SamePower ==
    ASSUME NEW y, NEW z, Canonical(y), Canonical(z), SameValue(Element(y), Element(z)),
           z.k <= y.k
    PROVE  y.k = z.k /\ Scale(z.e, y.t) = Scale(y.e, z.t)
<1> DEFINE p == y.t
           q == z.t
           j == y.k
           k == z.k
           d == y.k - z.k
           m == j + 2 * k
<1>1. /\ p \in Tuple /\ j \in Nat /\ y.e \in Nat \ {0} /\ (j > 0 => ~DivisibleBySqrt2(p))
      /\ q \in Tuple /\ k \in Nat /\ z.e \in Nat \ {0} /\ z.e % 2 = 1
      /\ y.e \in Int /\ z.e \in Int
  BY CanonicalFacts
<1>2. d \in Nat /\ m \in Nat /\ k + 2 * j = d + m /\ 2 * k \in Nat /\ 2 * j \in Nat
  BY <1>1
<1>3. Scale(Pow2[k] * z.e, scaleUp(p, j)) = Scale(Pow2[j] * y.e, scaleUp(q, k))
  BY DEF SameValue, Element
<1>5. scaleUp(Scale(z.e, p), m) = scaleUp(Scale(y.e, q), d + m)
  <2>1. Scale(Pow2[k] * z.e, scaleUp(p, j)) = scaleUp(Scale(z.e, p), j + 2 * k)
    <3>1. p \in Tuple /\ j \in Nat /\ k \in Nat /\ z.e \in Int
      BY <1>1
    <3> HIDE DEF p, j, k
    <3> QED BY <3>1, ScaleAsScaleUp
  <2>2. Scale(Pow2[j] * y.e, scaleUp(q, k)) = scaleUp(Scale(y.e, q), k + 2 * j)
    <3>1. q \in Tuple /\ j \in Nat /\ k \in Nat /\ y.e \in Int
      BY <1>1
    <3> HIDE DEF q, j, k
    <3> QED BY <3>1, ScaleAsScaleUp
  <2> QED BY <1>2, <1>3, <2>1, <2>2
<1> DEFINE u == Scale(z.e, p)
           v == Scale(y.e, q)
<1>6. u \in Tuple /\ v \in Tuple
  BY <1>1, TupleClosure
<1>7. scaleUp(v, d + m) = scaleUp(scaleUp(v, d), m) /\ scaleUp(v, d) \in Tuple
  BY <1>2, <1>6, ScaleUpSum, ScaleUpStep
<1>8. u = scaleUp(v, d)
  BY <1>2, <1>5, <1>6, <1>7, ScaleUpCancels
<1>9. d = 0
  <2> SUFFICES ASSUME d # 0 PROVE FALSE
    OBVIOUS
  <2>1. d - 1 \in Nat /\ d = (d - 1) + 1 /\ j > 0
    BY <1>1, <1>2
  <2> DEFINE w == scaleUp(v, d - 1)
  <2>2. w \in Tuple /\ u = TimesSqrt2(w)
    BY <1>6, <1>8, <2>1, ScaleUpStep
  <2>3. DivisibleBySqrt2(u)
    BY <2>2, Sqrt2Divides
  <2>4. DivisibleBySqrt2(p)
    BY <1>1, <2>3, OddFactorKeepsParity
  <2> QED BY <1>1, <2>1, <2>4
<1>10. u = v
  BY <1>6, <1>8, <1>9, ScaleUpStep
<1> QED BY <1>1, <1>9, <1>10

\* A reduced denominator divides that of every fraction of the same value.
LEMMA SameFraction ==
    ASSUME NEW p \in Tuple, NEW q \in Tuple, NEW e \in Nat \ {0}, NEW f \in Nat \ {0},
           Coprime(e, p), Scale(f, p) = Scale(e, q)
    PROVE  IsFactor(e, f)
<1>1. ASSUME NEW i \in 1..4 PROVE IsFactor(e, f * p[i])
  <2>1. p[i] \in Int /\ q[i] \in Int /\ e \in Int /\ f \in Int
    BY TupleComponent
  <2>2. Scale(f, p)[i] = f * p[i] /\ Scale(e, q)[i] = e * q[i]
    BY <2>1, TupleComponent
  <2> QED BY <2>1, <2>2 DEF IsFactor
<1> QED BY <1>1, CoprimeFactor

\* Two canonical values are equal exactly if they stand for one element.
THEOREM CanonicalIsUnique ==
    ASSUME NEW y, NEW z, Canonical(y), Canonical(z)
    PROVE  y = z <=> SameValue(Element(y), Element(z))
<1>1. ASSUME y = z PROVE SameValue(Element(y), Element(z))
  BY <1>1 DEF SameValue
<1>2. ASSUME SameValue(Element(y), Element(z)) PROVE y = z
  <2>1. /\ y \in DwValue /\ y.t \in Tuple /\ y.k \in Nat /\ y.e \in Nat \ {0} /\ Coprime(y.e, y.t)
        /\ z \in DwValue /\ z.t \in Tuple /\ z.k \in Nat /\ z.e \in Nat \ {0} /\ Coprime(z.e, z.t)
    BY CanonicalFacts
  <2>2. y.k = z.k /\ Scale(z.e, y.t) = Scale(y.e, z.t)
    <3>1. CASE z.k <= y.k
      BY <1>2, <3>1, SamePower
    <3>2. CASE y.k <= z.k
      <4>1. SameValue(Element(z), Element(y))
        BY <1>2 DEF SameValue
      <4>2. z.k = y.k /\ Scale(y.e, z.t) = Scale(z.e, y.t)
        BY <3>2, <4>1, SamePower
      <4> QED BY <4>2
    <3> QED BY <2>1, <3>1, <3>2
  <2>3. IsFactor(y.e, z.e) /\ IsFactor(z.e, y.e)
    BY <2>1, <2>2, SameFraction
  <2>4. y.e = z.e
    <3>1. PICK a \in Int, b \in Int : z.e = y.e * a /\ y.e = z.e * b
      BY <2>3 DEF IsFactor
    <3> DEFINE m == y.e
               n == z.e
    <3>2. m \in Nat \ {0} /\ n \in Nat \ {0} /\ n = m * a /\ m = n * b
      BY <2>1, <3>1
    <3> HIDE DEF m, n
    <3>3. a >= 1 /\ b >= 1
      BY <3>2
    <3>4. m <= n /\ n <= m
      BY <3>2, <3>3
    <3>5. m = n
      BY <3>2, <3>4
    <3> QED BY <3>5 DEF m, n
  <2>5. y.t = z.t
    BY <2>1, <2>2, <2>4, ScaleCancels
  <2>6. y = [t |-> y.t, k |-> y.k, e |-> y.e] /\ z = [t |-> z.t, k |-> z.k, e |-> z.e]
    BY <2>1, DwValueFields
  <2> QED BY <2>2, <2>4, <2>5, <2>6
<1> QED BY <1>1, <1>2
-----------------------------------------------------------------------------
(***************************************************************************)
(* The operators.  Each computes the element of the field that it stands   *)
(* for: addition over a common power of sqrt(2) and a common denominator,  *)
(* products, opposites, conjugates and inverses, whose denominator is not  *)
(* zero because sqrt(2) is not rational.                                   *)
(***************************************************************************)
F == INSTANCE QOmega

Fraction == [n : Tuple, d : Nat \ {0}]

\* The field's operators on coordinates are those of Dw.
LEMMA FieldCoordinates ==
    /\ \A p, q : F!Same(p, q) <=> SameValue(p, q)
    /\ \A p \in Tuple : \A q \in Tuple : F!Convolution(p, q) = mulTuple(p, q)
    /\ \A m, p : F!Times(m, p) = Scale(m, p)
    /\ \A p, q : F!Plus(p, q) = Plus(p, q)
<1>1. \A m, p : F!Times(m, p) = Scale(m, p)
  BY DEF F!Times, Scale
<1>2. \A p, q : F!Plus(p, q) = Plus(p, q)
  BY DEF F!Plus, Plus
<1>3. ASSUME NEW p \in Tuple, NEW q \in Tuple PROVE F!Convolution(p, q) = mulTuple(p, q)
  <2> DEFINE cubic == <<q[4]*p[1], q[4]*p[2], q[4]*p[3], q[4]*p[4]>>
             quadratic == <<-(q[4]*p[4]) + q[3]*p[1], q[4]*p[1] + q[3]*p[2],
                            q[4]*p[2] + q[3]*p[3], q[4]*p[3] + q[3]*p[4]>>
             linear == <<-quadratic[4] + q[2]*p[1], quadratic[1] + q[2]*p[2],
                         quadratic[2] + q[2]*p[3], quadratic[3] + q[2]*p[4]>>
  <2>1. F!Convolution(p, q) = <<-linear[4] + q[1]*p[1], linear[1] + q[1]*p[2],
                                linear[2] + q[1]*p[3], linear[3] + q[1]*p[4]>>
    <3>1. F!Times(q[4], p) = cubic
      BY DEF F!Times
    <3>2. F!Plus(F!TimesOmega(cubic), F!Times(q[3], p)) = quadratic
      BY DEF F!Times, F!TimesOmega, F!Plus
    <3>3. F!Plus(F!TimesOmega(quadratic), F!Times(q[2], p)) = linear
      <4> HIDE DEF quadratic
      <4> QED BY DEF F!Times, F!TimesOmega, F!Plus
    <3> HIDE DEF cubic, quadratic, linear
    <3>4. F!Convolution(p, q) = F!Plus(F!TimesOmega(linear), F!Times(q[1], p))
      BY <3>1, <3>2, <3>3 DEF F!Convolution
    <3> QED BY <3>4 DEF F!Times, F!TimesOmega, F!Plus
  <2> QED BY <2>1, Components, SMTT(60) DEF mulTuple
<1>4. \A p, q : F!Same(p, q) <=> SameValue(p, q)
  BY <1>1 DEF F!Same, SameValue
<1> QED BY <1>1, <1>2, <1>3, <1>4

\* The coordinates and the denominator of an element.
LEMMA FractionFields ==
    ASSUME NEW p \in Fraction
    PROVE  p.n \in Tuple /\ p.d \in Nat \ {0} /\ p.d \in Int /\ p = [n |-> p.n, d |-> p.d]
BY DEF Fraction

\* The element that a tuple, an exponent and a denominator stand for.
LEMMA ValueFields ==
    ASSUME NEW p \in Tuple, NEW k \in Nat, NEW e \in Nat \ {0}
    PROVE  /\ Value(p, k, e) \in Fraction
           /\ Value(p, k, e).n = scaleUp(p, k) /\ Value(p, k, e).d = Pow2[k] * e
<1>1. scaleUp(p, k) \in Tuple /\ Pow2[k] * e \in Nat \ {0}
  <2> DEFINE w == Pow2[k]
  <2>1. w \in Nat \ {0}
    BY Pow2Def
  <2>2. w * e \in Nat \ {0}
    <3> HIDE DEF w
    <3> QED BY <2>1
  <2> QED BY <2>2, ScaleUpStep
<1> QED BY <1>1 DEF Value, Fraction

\* The element that a value stands for.
LEMMA ElementFields ==
    ASSUME NEW z \in DwValue
    PROVE  Element(z) = Value(z.t, z.k, z.e) /\ Element(z) \in Fraction
<1>1. Element(z) = Value(z.t, z.k, z.e)
  BY DEF Element, Value
<1> QED BY <1>1, ValueFields, DwValueFields

\* Equality of elements is transitive, although it is cross-multiplied.
LEMMA SameTransitive ==
    ASSUME NEW p \in Fraction, NEW q \in Fraction, NEW r \in Fraction,
           SameValue(p, q), SameValue(q, r)
    PROVE  SameValue(p, r)
<1> DEFINE P == p.n
           Q == q.n
           R == r.n
           a == p.d
           b == q.d
           c == r.d
<1>1. /\ P \in Tuple /\ Q \in Tuple /\ R \in Tuple
      /\ a \in Int /\ b \in Nat \ {0} /\ b \in Int /\ c \in Int
  BY FractionFields
<1>2. Scale(b, P) = Scale(a, Q) /\ Scale(c, Q) = Scale(b, R)
  BY DEF SameValue
<1>3. SameValue(p, r) <=> Scale(c, P) = Scale(a, R)
  BY DEF SameValue
<1> HIDE DEF P, Q, R, a, b, c
<1>4. ASSUME NEW m \in Int, NEW n \in Int, NEW s \in Tuple
      PROVE  Scale(m, Scale(n, s)) = Scale(n, Scale(m, s))
  <2>1. m * n = n * m
    OBVIOUS
  <2>2. Scale(m, Scale(n, s)) = Scale(m * n, s) /\ Scale(n, Scale(m, s)) = Scale(n * m, s)
    BY ScaleTwice
  <2> QED BY <2>1, <2>2
<1>5. Scale(b, Scale(c, P)) = Scale(b, Scale(a, R))
  BY <1>1, <1>2, <1>4
<1>6. Scale(c, P) \in Tuple /\ Scale(a, R) \in Tuple
  BY <1>1, TupleClosure
<1> QED BY <1>1, <1>3, <1>5, <1>6, ScaleCancels

\* Equality of elements is symmetric.
LEMMA SameSymmetric ==
    ASSUME NEW p, NEW q, SameValue(p, q)
    PROVE  SameValue(q, p)
BY DEF SameValue

\* The field operations yield elements.
LEMMA FieldClosure ==
    ASSUME NEW p \in Fraction, NEW q \in Fraction
    PROVE  /\ F!Sum(p, q) \in Fraction /\ F!Product(p, q) \in Fraction
           /\ F!Opposite(p) \in Fraction /\ F!Conjugate(p) \in Fraction
           /\ F!Sum(p, q).n = Plus(Scale(q.d, p.n), Scale(p.d, q.n))
           /\ F!Sum(p, q).d = p.d * q.d
           /\ F!Product(p, q) = [n |-> mulTuple(p.n, q.n), d |-> p.d * q.d]
           /\ F!Opposite(p) = [n |-> Scale(-1, p.n), d |-> p.d]
           /\ F!Conjugate(p) = [n |-> ConjTuple(p.n), d |-> p.d]
<1> DEFINE P == p.n
           Q == q.n
           a == p.d
           b == q.d
<1>1. /\ P \in Tuple /\ Q \in Tuple /\ a \in Nat \ {0} /\ b \in Nat \ {0}
      /\ a \in Int /\ b \in Int /\ -1 \in Int
  BY FractionFields
<1>2. /\ F!Sum(p, q) = [n |-> Plus(Scale(b, P), Scale(a, Q)), d |-> a * b]
      /\ F!Product(p, q) = [n |-> mulTuple(P, Q), d |-> a * b]
      /\ F!Opposite(p) = [n |-> Scale(-1, P), d |-> a]
      /\ F!Conjugate(p) = [n |-> ConjTuple(P), d |-> a]
  <2>1. F!Convolution(P, Q) = mulTuple(P, Q)
    BY <1>1, FieldCoordinates
  <2>2. F!Plus(F!Times(b, P), F!Times(a, Q)) = Plus(Scale(b, P), Scale(a, Q))
    BY FieldCoordinates
  <2>3. F!Times(-1, P) = Scale(-1, P)
    BY FieldCoordinates
  <2>4. ConjTuple(P) = <<P[1], -P[4], -P[3], -P[2]>>
    BY DEF ConjTuple
  <2> QED BY <2>1, <2>2, <2>3, <2>4 DEF F!Sum, F!Product, F!Opposite, F!Conjugate
<1>3. a * b \in Nat \ {0}
  BY <1>1
<1> HIDE DEF P, Q, a, b
<1>4. /\ Plus(Scale(b, P), Scale(a, Q)) \in Tuple /\ mulTuple(P, Q) \in Tuple
      /\ Scale(-1, P) \in Tuple /\ ConjTuple(P) \in Tuple
  <2>1. Scale(b, P) \in Tuple /\ Scale(a, Q) \in Tuple /\ Scale(-1, P) \in Tuple
    BY <1>1, TupleClosure
  <2> QED BY <1>1, <2>1, TupleClosure
<1>5. /\ F!Sum(p, q) \in Fraction /\ F!Product(p, q) \in Fraction
      /\ F!Opposite(p) \in Fraction /\ F!Conjugate(p) \in Fraction
  BY <1>1, <1>2, <1>3, <1>4 DEF Fraction
<1> QED BY <1>2, <1>5 DEF P, Q, a, b

\* Sums with multiplied summands are equal when the multipliers are.
LEMMA LinearCombination ==
    ASSUME NEW s \in Int, NEW a \in Int, NEW b \in Int, NEW p \in Tuple, NEW q \in Tuple
    PROVE  Scale(s, Plus(Scale(a, p), Scale(b, q))) = Plus(Scale(s * a, p), Scale(s * b, q))
<1>1. Scale(a, p) \in Tuple /\ Scale(b, q) \in Tuple
  BY TupleClosure
<1>2. Scale(s, Plus(Scale(a, p), Scale(b, q)))
         = Plus(Scale(s, Scale(a, p)), Scale(s, Scale(b, q)))
  BY <1>1, ScaleDistributes
<1>3. Scale(s, Scale(a, p)) = Scale(s * a, p) /\ Scale(s, Scale(b, q)) = Scale(s * b, q)
  BY ScaleTwice
<1> QED BY <1>2, <1>3

\* A numerator brought to a larger power of sqrt(2), over that power.
LEMMA RaisedNumerator ==
    ASSUME NEW p \in Tuple, NEW j \in Nat, NEW k \in Nat, j <= k, NEW m \in Int
    PROVE  /\ scaleUp(Scale(m, scaleUp(p, k - j)), k) = Scale(m * Pow2[k - j], scaleUp(p, j))
           /\ Pow2[j] * Pow2[k - j] = Pow2[k] /\ Pow2[k - j] \in Int
<1> DEFINE d == k - j
           r == scaleUp(p, d)
           A == scaleUp(p, j)
<1>1. d \in Nat /\ j + d = k /\ d + k = j + 2 * d /\ 2 * d \in Nat
  OBVIOUS
<1>2. Pow2[d] \in Int /\ Pow2[j] \in Int /\ Pow2[j + d] = Pow2[j] * Pow2[d]
  <2>1. Pow2[j + d] = Pow2[j] * Pow2[d]
    BY <1>1, Pow2Sum
  <2> QED BY <1>1, <2>1, Pow2Def
<1>3. r \in Tuple /\ A \in Tuple
  BY <1>1, ScaleUpStep
<1>4. scaleUp(Scale(m, r), k) = Scale(m, scaleUp(r, k))
  BY <1>3, ScaleUpLaws
<1>5. scaleUp(r, k) = scaleUp(p, d + k)
  BY <1>1, ScaleUpSum
<1>6. scaleUp(A, 2 * d) = scaleUp(p, j + 2 * d)
  BY <1>1, ScaleUpSum
<1>7. scaleUp(A, 2 * d) = Scale(Pow2[d], A)
  BY <1>1, <1>3, ScaleUpDouble
<1>8. Scale(m, Scale(Pow2[d], A)) = Scale(m * Pow2[d], A)
  BY <1>2, <1>3, ScaleTwice
<1>9. scaleUp(Scale(m, r), k) = Scale(m * Pow2[d], A)
  BY <1>1, <1>4, <1>5, <1>6, <1>7, <1>8
<1> QED BY <1>1, <1>2, <1>9

\* Both operands of a sum are brought to k, and to the denominator E.
LEMMA SumOverPower ==
    ASSUME NEW p \in Tuple, NEW j \in Nat, NEW e \in Nat \ {0}, NEW m \in Int,
           NEW q \in Tuple, NEW i \in Nat, NEW f \in Nat \ {0}, NEW n \in Int,
           NEW k \in Nat, j <= k, i <= k, NEW E \in Nat \ {0}, m * e = E, n * f = E
    PROVE  SameValue(Value(Plus(Scale(m, scaleUp(p, k - j)), Scale(n, scaleUp(q, k - i))), k, E),
                     F!Sum(Value(p, j, e), Value(q, i, f)))
<1> DEFINE P == scaleUp(p, k - j)
           Q == scaleUp(q, k - i)
           A == scaleUp(p, j)
           B == scaleUp(q, i)
           a == Pow2[j]
           b == Pow2[i]
           c == Pow2[k - j]
           d == Pow2[k - i]
           w == Pow2[k]
           S == Plus(Scale(m, P), Scale(n, Q))
           v == Value(S, k, E)
           s == F!Sum(Value(p, j, e), Value(q, i, f))
<1>1. P \in Tuple /\ Q \in Tuple /\ A \in Tuple /\ B \in Tuple
  <2>1. k - j \in Nat /\ k - i \in Nat
    OBVIOUS
  <2> QED BY <2>1, ScaleUpStep
<1>2. /\ a \in Int /\ b \in Int /\ w \in Int /\ c \in Int /\ d \in Int
      /\ a * c = w /\ b * d = w
  BY Pow2Def, RaisedNumerator
<1>3. scaleUp(Scale(m, P), k) = Scale(m * c, A) /\ scaleUp(Scale(n, Q), k) = Scale(n * d, B)
  BY RaisedNumerator
<1>4. Scale(m, P) \in Tuple /\ Scale(n, Q) \in Tuple
  BY <1>1, TupleClosure
<1>5. S \in Tuple
  BY <1>4, TupleClosure
<1>6. v.n = Plus(Scale(m * c, A), Scale(n * d, B)) /\ v.d = w * E
  <2>1. v.n = scaleUp(S, k) /\ v.d = w * E
    BY <1>5, ValueFields
  <2>2. scaleUp(S, k) = Plus(scaleUp(Scale(m, P), k), scaleUp(Scale(n, Q), k))
    BY <1>4, ScaleUpLaws
  <2> QED BY <1>3, <2>1, <2>2
<1>7. s.n = Plus(Scale(b * f, A), Scale(a * e, B)) /\ s.d = (a * e) * (b * f)
  <2>1. /\ Value(p, j, e) \in Fraction /\ Value(p, j, e).n = A /\ Value(p, j, e).d = a * e
        /\ Value(q, i, f) \in Fraction /\ Value(q, i, f).n = B /\ Value(q, i, f).d = b * f
    BY ValueFields
  <2> HIDE DEF A, B, a, b
  <2> QED BY <2>1, FieldClosure
<1>8. SameValue(v, s) <=> Scale(s.d, v.n) = Scale(v.d, s.n)
  BY DEF SameValue
<1> HIDE DEF P, Q, A, B, a, b, c, d, w, S, v, s
<1> DEFINE x == (a * e) * (b * f)
           y == w * E
<1>9. /\ x \in Int /\ y \in Int /\ m * c \in Int /\ n * d \in Int
      /\ b * f \in Int /\ a * e \in Int
  BY <1>2
<1>10. x * (m * c) = y * (b * f)
  <2>1. x * (m * c) = ((a * c) * (m * e)) * (b * f)
    BY <1>2
  <2> QED BY <1>2, <2>1
<1>11. x * (n * d) = y * (a * e)
  <2>1. x * (n * d) = ((b * d) * (n * f)) * (a * e)
    BY <1>2
  <2> QED BY <1>2, <2>1
<1> DEFINE mc == m * c
           nd == n * d
           bf == b * f
           ae == a * e
<1>12. Scale(x, Plus(Scale(mc, A), Scale(nd, B))) = Plus(Scale(x * mc, A), Scale(x * nd, B))
  <2> HIDE DEF x, mc, nd
  <2> QED BY <1>1, <1>9, LinearCombination DEF mc, nd
<1>13. Scale(y, Plus(Scale(bf, A), Scale(ae, B))) = Plus(Scale(y * bf, A), Scale(y * ae, B))
  <2> HIDE DEF y, bf, ae
  <2> QED BY <1>1, <1>9, LinearCombination DEF bf, ae
<1>14. Scale(s.d, v.n) = Scale(v.d, s.n)
  <2> HIDE DEF mc, nd, bf, ae
  <2>1. Scale(x, v.n) = Plus(Scale(x * mc, A), Scale(x * nd, B))
    BY <1>6, <1>12 DEF mc, nd
  <2>2. Scale(y, s.n) = Plus(Scale(y * bf, A), Scale(y * ae, B))
    BY <1>7, <1>13 DEF bf, ae
  <2>3. x * mc = y * bf /\ x * nd = y * ae
    BY <1>10, <1>11 DEF mc, nd, bf, ae
  <2>4. s.d = x /\ v.d = y
    BY <1>6, <1>7
  <2> QED BY <2>1, <2>2, <2>3, <2>4
<1> QED BY <1>8, <1>14 DEF v, s, S, P, Q

\* What the constructor makes of p, k, e stands for any element that is
\* the same as p, k, e.
LEMMA CanonicalizedSame ==
    ASSUME NEW p \in Tuple, NEW k \in Nat, NEW e \in Nat \ {0}, NEW r \in Fraction,
           SameValue(Value(p, k, e), r)
    PROVE  /\ Canonical(canonicalize(p, k, e))
           /\ SameValue(Element(canonicalize(p, k, e)), r)
<1> DEFINE z == canonicalize(p, k, e)
           v == Value(p, k, e)
<1>1. Canonical(z) /\ SameValue(Element(z), v)
  BY CanonicalizeIsExact
<1> HIDE DEF z
<1>2. Element(z) \in Fraction /\ v \in Fraction
  BY <1>1, CanonicalFacts, ElementFields, ValueFields
<1>3. SameValue(v, r)
  OBVIOUS
<1> HIDE DEF v
<1>4. SameValue(Element(z), r)
  BY <1>1, <1>2, <1>3, SameTransitive
<1> QED BY <1>1, <1>4 DEF z

\* operator+ is the sum.
THEOREM AddIsExact ==
    ASSUME NEW y \in DwValue, NEW z \in DwValue
    PROVE  Canonical(Add(y, z)) /\ F!Same(Element(Add(y, z)), F!Sum(Element(y), Element(z)))
<1> DEFINE p == y.t
           q == z.t
           j == y.k
           i == z.k
           e == y.e
           f == z.e
           k == IF j < i THEN i ELSE j
           P == scaleUp(p, k - j)
           Q == scaleUp(q, k - i)
           s == F!Sum(Element(y), Element(z))
<1>1. /\ p \in Tuple /\ j \in Nat /\ e \in Nat \ {0} /\ e \in Int
      /\ q \in Tuple /\ i \in Nat /\ f \in Nat \ {0} /\ f \in Int
  BY DwValueFields
<1>2. k \in Nat /\ j <= k /\ i <= k /\ k - j \in Nat /\ k - i \in Nat
  BY <1>1
<1>3. s \in Fraction /\ s = F!Sum(Value(p, j, e), Value(q, i, f))
  BY ElementFields, FieldClosure
<1>4. Add(y, z) = IF e = f THEN canonicalize(Plus(P, Q), k, e)
                           ELSE canonicalize(Plus(Scale(f, P), Scale(e, Q)), k, e * f)
  BY DEF Add
<1>5. P \in Tuple /\ Q \in Tuple
  BY <1>1, <1>2, ScaleUpStep
<1> HIDE DEF p, q, j, i, e, f, k, s
<1>6. CASE e = f
  <2> DEFINE u == 1
  <2>1. Scale(u, P) = P /\ Scale(u, Q) = Q /\ Plus(P, Q) \in Tuple
    BY <1>5, ScaleOne, TupleClosure
  <2>2. u \in Int /\ u * e = e /\ u * f = e
    BY <1>1, <1>6
  <2> HIDE DEF u
  <2>3. SameValue(Value(Plus(Scale(u, P), Scale(u, Q)), k, e), s)
    BY <1>1, <1>2, <1>3, <2>2, SumOverPower
  <2>4. SameValue(Value(Plus(P, Q), k, e), s)
    BY <2>1, <2>3
  <2> HIDE DEF P, Q
  <2>5. /\ Canonical(canonicalize(Plus(P, Q), k, e))
        /\ SameValue(Element(canonicalize(Plus(P, Q), k, e)), s)
    BY <1>1, <1>2, <1>3, <2>1, <2>4, CanonicalizedSame
  <2> QED BY <1>4, <1>6, <2>5, FieldCoordinates DEF s
<1>7. CASE e # f
  <2> DEFINE S == Plus(Scale(f, P), Scale(e, Q))
             E == e * f
  <2>1. S \in Tuple
    <3>1. Scale(f, P) \in Tuple /\ Scale(e, Q) \in Tuple
      BY <1>1, <1>5, TupleClosure
    <3> QED BY <3>1, TupleClosure
  <2>2. E \in Nat \ {0} /\ f * e = E /\ e * f = E
    BY <1>1
  <2> HIDE DEF E
  <2>3. SameValue(Value(S, k, E), s)
    BY <1>1, <1>2, <1>3, <2>2, SumOverPower
  <2> HIDE DEF S, P, Q
  <2>4. Canonical(canonicalize(S, k, E)) /\ SameValue(Element(canonicalize(S, k, E)), s)
    BY <1>2, <1>3, <2>1, <2>2, <2>3, CanonicalizedSame
  <2> QED BY <1>4, <1>7, <2>4, FieldCoordinates DEF s, S, E
<1> QED BY <1>6, <1>7

\* operator- (unary) is the opposite.
THEOREM NegateIsExact ==
    ASSUME NEW z \in DwValue
    PROVE  Canonical(Negate(z)) /\ F!Same(Element(Negate(z)), F!Opposite(Element(z)))
<1> DEFINE p == z.t
           k == z.k
           e == z.e
           q == Scale(-1, p)
<1>1. p \in Tuple /\ k \in Nat /\ e \in Nat \ {0} /\ -1 \in Int
  BY DwValueFields
<1>2. q \in Tuple /\ scaleUp(q, k) = Scale(-1, scaleUp(p, k))
  BY <1>1, TupleClosure, ScaleUpLaws
<1>3. F!Opposite(Element(z)) = Value(q, k, e) /\ Value(q, k, e) \in Fraction
  <2>1. /\ Element(z) \in Fraction /\ Element(z).n = scaleUp(p, k)
        /\ Element(z).d = Pow2[k] * e
    BY <1>1, ElementFields, ValueFields
  <2>2. F!Opposite(Element(z)) = [n |-> Scale(-1, scaleUp(p, k)), d |-> Pow2[k] * e]
    BY <2>1, FieldClosure
  <2>3. Value(q, k, e) \in Fraction
    BY <1>1, <1>2, ValueFields
  <2> QED BY <1>2, <2>2, <2>3 DEF Value
<1>4. Negate(z) = canonicalize(q, k, e)
  BY DEF Negate
<1>5. Canonical(Negate(z)) /\ SameValue(Element(Negate(z)), F!Opposite(Element(z)))
  BY <1>1, <1>2, <1>3, <1>4, CanonicalizeIsExact
<1> QED BY <1>5, FieldCoordinates

\* conj is the automorphism that takes w to its inverse.
THEOREM ConjugateIsExact ==
    ASSUME NEW z \in DwValue
    PROVE  Canonical(conjugate(z)) /\ F!Same(Element(conjugate(z)), F!Conjugate(Element(z)))
<1> DEFINE p == z.t
           k == z.k
           e == z.e
           q == ConjTuple(p)
<1>1. p \in Tuple /\ k \in Nat /\ e \in Nat \ {0}
  BY DwValueFields
<1>2. q \in Tuple /\ scaleUp(q, k) = ConjTuple(scaleUp(p, k))
  BY <1>1, TupleClosure, ScaleUpLaws
<1>3. F!Conjugate(Element(z)) = Value(q, k, e) /\ Value(q, k, e) \in Fraction
  <2>1. /\ Element(z) \in Fraction /\ Element(z).n = scaleUp(p, k)
        /\ Element(z).d = Pow2[k] * e
    BY <1>1, ElementFields, ValueFields
  <2>2. F!Conjugate(Element(z)) = [n |-> ConjTuple(scaleUp(p, k)), d |-> Pow2[k] * e]
    BY <2>1, FieldClosure
  <2>3. Value(q, k, e) \in Fraction
    BY <1>1, <1>2, ValueFields
  <2> QED BY <1>2, <2>2, <2>3 DEF Value
<1>4. conjugate(z) = canonicalize(q, k, e)
  BY DEF conjugate
<1>5. Canonical(conjugate(z)) /\ SameValue(Element(conjugate(z)), F!Conjugate(Element(z)))
  BY <1>1, <1>2, <1>3, <1>4, CanonicalizeIsExact
<1> QED BY <1>5, FieldCoordinates

\* The field's operators take equal elements to equal elements.
LEMMA SumCongruence ==
    ASSUME NEW p \in Fraction, NEW q \in Fraction, NEW r \in Fraction, SameValue(q, r)
    PROVE  SameValue(F!Sum(p, q), F!Sum(p, r))
<1> DEFINE P == p.n
           Q == q.n
           R == r.n
           a == p.d
           b == q.d
           c == r.d
<1>1. /\ P \in Tuple /\ Q \in Tuple /\ R \in Tuple
      /\ a \in Int /\ b \in Int /\ c \in Int
  BY FractionFields
<1>2. Scale(c, Q) = Scale(b, R)
  BY DEF SameValue
<1>3. /\ F!Sum(p, q).n = Plus(Scale(b, P), Scale(a, Q)) /\ F!Sum(p, q).d = a * b
      /\ F!Sum(p, r).n = Plus(Scale(c, P), Scale(a, R)) /\ F!Sum(p, r).d = a * c
  BY FieldClosure
<1> HIDE DEF P, Q, R, a, b, c
<1>4. a * b \in Int /\ a * c \in Int /\ (a * c) * b = (a * b) * c
  BY <1>1
<1>5. Scale(a * c, Plus(Scale(b, P), Scale(a, Q)))
         = Plus(Scale((a * c) * b, P), Scale((a * c) * a, Q))
  BY <1>1, <1>4, LinearCombination
<1>6. Scale(a * b, Plus(Scale(c, P), Scale(a, R)))
         = Plus(Scale((a * b) * c, P), Scale((a * b) * a, R))
  BY <1>1, <1>4, LinearCombination
<1>7. Scale((a * c) * a, Q) = Scale((a * b) * a, R)
  <2>1. (a * c) * a = (a * a) * c /\ (a * b) * a = (a * a) * b /\ a * a \in Int
    BY <1>1
  <2>2. Scale((a * a) * c, Q) = Scale(a * a, Scale(c, Q))
    BY <1>1, <2>1, ScaleTwice
  <2>3. Scale((a * a) * b, R) = Scale(a * a, Scale(b, R))
    BY <1>1, <2>1, ScaleTwice
  <2> QED BY <1>2, <2>1, <2>2, <2>3
<1> QED BY <1>3, <1>4, <1>5, <1>6, <1>7 DEF SameValue

\* A factor may be replaced by an equal element.
LEMMA ProductCongruence ==
    ASSUME NEW p \in Fraction, NEW q \in Fraction, NEW r \in Fraction, SameValue(q, r)
    PROVE  /\ SameValue(F!Product(p, q), F!Product(p, r))
           /\ SameValue(F!Product(q, p), F!Product(r, p))
<1> DEFINE P == p.n
           Q == q.n
           R == r.n
           a == p.d
           b == q.d
           c == r.d
<1>1. /\ P \in Tuple /\ Q \in Tuple /\ R \in Tuple
      /\ a \in Int /\ b \in Int /\ c \in Int
  BY FractionFields
<1>2. Scale(c, Q) = Scale(b, R)
  BY DEF SameValue
<1>3. /\ F!Product(p, q) = [n |-> mulTuple(P, Q), d |-> a * b]
      /\ F!Product(p, r) = [n |-> mulTuple(P, R), d |-> a * c]
      /\ F!Product(q, p) = [n |-> mulTuple(Q, P), d |-> b * a]
      /\ F!Product(r, p) = [n |-> mulTuple(R, P), d |-> c * a]
  BY FieldClosure
<1> HIDE DEF P, Q, R, a, b, c
<1>4. mulTuple(Q, P) = mulTuple(P, Q) /\ mulTuple(R, P) = mulTuple(P, R)
  BY <1>1, MulTupleCommutes
<1>5. mulTuple(P, Q) \in Tuple /\ mulTuple(P, R) \in Tuple
  BY <1>1, TupleClosure
<1>6. Scale(c, mulTuple(P, Q)) = Scale(b, mulTuple(P, R))
  <2>1. Scale(c, mulTuple(P, Q)) = mulTuple(P, Scale(c, Q))
    BY <1>1, ScaleOfProduct
  <2>2. Scale(b, mulTuple(P, R)) = mulTuple(P, Scale(b, R))
    BY <1>1, ScaleOfProduct
  <2> QED BY <1>2, <2>1, <2>2
<1>7. Scale(a * c, mulTuple(P, Q)) = Scale(a * b, mulTuple(P, R))
  <2>1. Scale(a * c, mulTuple(P, Q)) = Scale(a, Scale(c, mulTuple(P, Q)))
    BY <1>1, <1>5, ScaleTwice
  <2>2. Scale(a * b, mulTuple(P, R)) = Scale(a, Scale(b, mulTuple(P, R)))
    BY <1>1, <1>5, ScaleTwice
  <2> QED BY <1>6, <2>1, <2>2
<1>8. b * a = a * b /\ c * a = a * c
  BY <1>1
<1> QED BY <1>3, <1>4, <1>7, <1>8 DEF SameValue

\* Both factors may be replaced.
LEMMA ProductCongruenceBoth ==
    ASSUME NEW p \in Fraction, NEW q \in Fraction, NEW r \in Fraction, NEW s \in Fraction,
           SameValue(p, q), SameValue(r, s)
    PROVE  SameValue(F!Product(p, r), F!Product(q, s))
<1>1. SameValue(F!Product(p, r), F!Product(p, s))
  BY ProductCongruence
<1>2. SameValue(F!Product(p, s), F!Product(q, s))
  BY ProductCongruence
<1>3. F!Product(p, r) \in Fraction /\ F!Product(p, s) \in Fraction /\ F!Product(q, s) \in Fraction
  BY FieldClosure
<1> QED BY <1>1, <1>2, <1>3, SameTransitive

\* operator- (binary) adds the opposite.
THEOREM SubtractIsExact ==
    ASSUME NEW y \in DwValue, NEW z \in DwValue
    PROVE  /\ Canonical(Subtract(y, z))
           /\ F!Same(Element(Subtract(y, z)), F!Sum(Element(y), F!Opposite(Element(z))))
<1> DEFINE m == Negate(z)
<1>1. m \in DwValue /\ SameValue(Element(m), F!Opposite(Element(z)))
  BY NegateIsExact, FieldCoordinates DEF Canonical
<1>2. Subtract(y, z) = Add(y, m)
  BY DEF Subtract
<1> HIDE DEF m
<1>3. /\ Canonical(Add(y, m)) /\ SameValue(Element(Add(y, m)), F!Sum(Element(y), Element(m)))
      /\ Add(y, m) \in DwValue
  BY <1>1, AddIsExact, FieldCoordinates DEF Canonical
<1>4. /\ Element(y) \in Fraction /\ Element(m) \in Fraction /\ Element(z) \in Fraction
      /\ Element(Add(y, m)) \in Fraction
  BY <1>1, <1>3, ElementFields
<1> DEFINE o == F!Opposite(Element(z))
           s == F!Sum(Element(y), Element(m))
           r == F!Sum(Element(y), o)
<1>5. o \in Fraction
  BY <1>4, FieldClosure
<1>6. SameValue(s, r)
  <2> HIDE DEF o
  <2> QED BY <1>1, <1>4, <1>5, SumCongruence DEF o
<1>7. s \in Fraction /\ r \in Fraction
  <2> HIDE DEF o
  <2> QED BY <1>4, <1>5, FieldClosure
<1>8. SameValue(Element(Add(y, m)), s)
  BY <1>3
<1>9. SameValue(Element(Add(y, m)), r)
  <2> HIDE DEF s, r
  <2> QED BY <1>4, <1>6, <1>7, <1>8, SameTransitive
<1> QED BY <1>2, <1>3, <1>9, FieldCoordinates

\* Zero, one and the branches of operator* for them.
LEMMA Constants ==
    /\ Zero \in DwValue /\ Canonical(Zero) /\ Element(Zero) = [n |-> ZeroTuple, d |-> 1]
    /\ One \in DwValue /\ Canonical(One) /\ Element(One) = [n |-> <<1, 0, 0, 0>>, d |-> 1]
    /\ F!One = Element(One)
<1>1. /\ Zero.t = ZeroTuple /\ Zero.k = 0 /\ Zero.e = 1 /\ Zero \in DwValue
  BY ZeroTupleFacts DEF Zero, DwValue
<1>2. /\ One.t = <<1, 0, 0, 0>> /\ One.k = 0 /\ One.e = 1 /\ One \in DwValue /\ One.t \in Tuple
  BY DEF One, DwValue, Tuple
<1>3. Canonical(Zero)
  BY <1>1 DEF Canonical
<1>4. Canonical(One)
  BY <1>2 DEF Canonical, isZero, ZeroTuple
<1>5. Pow2[0] * 1 = 1
  BY Pow2Def
<1>6. Element(Zero) = [n |-> ZeroTuple, d |-> 1]
  BY <1>1, <1>5, ZeroTupleFacts, ScaleUpStep DEF Element
<1>7. Element(One) = [n |-> <<1, 0, 0, 0>>, d |-> 1]
  BY <1>2, <1>5, ScaleUpStep DEF Element
<1> QED BY <1>1, <1>2, <1>3, <1>4, <1>6, <1>7 DEF F!One

\* 1 and 0 times a tuple.
LEMMA UnitProduct ==
    ASSUME NEW p \in Tuple
    PROVE  /\ mulTuple(<<1, 0, 0, 0>>, p) = p /\ mulTuple(p, <<1, 0, 0, 0>>) = p
           /\ mulTuple(ZeroTuple, p) = ZeroTuple /\ mulTuple(p, ZeroTuple) = ZeroTuple
BY Components DEF mulTuple, ZeroTuple

\* The product that operator* computes before it is canonicalized.
LEMMA ProductOfValues ==
    ASSUME NEW p \in Tuple, NEW j \in Nat, NEW e \in Nat \ {0},
           NEW q \in Tuple, NEW i \in Nat, NEW f \in Nat \ {0}
    PROVE  /\ F!Product(Value(p, j, e), Value(q, i, f)) = Value(mulTuple(p, q), j + i, e * f)
           /\ mulTuple(p, q) \in Tuple /\ j + i \in Nat /\ e * f \in Nat \ {0}
<1> DEFINE A == scaleUp(p, j)
           B == scaleUp(q, i)
           a == Pow2[j]
           b == Pow2[i]
<1>1. A \in Tuple /\ B \in Tuple /\ a \in Int /\ b \in Int /\ mulTuple(p, q) \in Tuple
  <2>1. A \in Tuple /\ B \in Tuple
    BY ScaleUpStep
  <2>2. a \in Int /\ b \in Int
    BY Pow2Def
  <2> QED BY <2>1, <2>2, TupleClosure
<1>2. scaleUp(mulTuple(p, q), j + i) = mulTuple(A, B)
  <2>1. mulTuple(A, B) = scaleUp(mulTuple(A, q), i)
    BY <1>1, ScaleUpLaws
  <2>2. mulTuple(A, q) = scaleUp(mulTuple(p, q), j)
    BY ScaleUpLaws
  <2>3. scaleUp(scaleUp(mulTuple(p, q), j), i) = scaleUp(mulTuple(p, q), j + i)
    BY <1>1, ScaleUpSum
  <2> QED BY <2>1, <2>2, <2>3
<1>3. Pow2[j + i] = a * b
  BY Pow2Sum
<1>4. j + i \in Nat /\ e * f \in Nat \ {0}
  OBVIOUS
<1>5. Value(mulTuple(p, q), j + i, e * f) = [n |-> mulTuple(A, B), d |-> (a * b) * (e * f)]
  BY <1>2, <1>3 DEF Value
<1>6. /\ Value(p, j, e) \in Fraction /\ Value(p, j, e).n = A /\ Value(p, j, e).d = a * e
      /\ Value(q, i, f) \in Fraction /\ Value(q, i, f).n = B /\ Value(q, i, f).d = b * f
  BY ValueFields
<1> HIDE DEF A, B, a, b
<1>7. F!Product(Value(p, j, e), Value(q, i, f)) = [n |-> mulTuple(A, B), d |-> (a * e) * (b * f)]
  BY <1>6, FieldClosure
<1>8. (a * e) * (b * f) = (a * b) * (e * f)
  BY <1>1
<1> QED BY <1>1, <1>4, <1>5, <1>7, <1>8

\* operator* is the product; its shortcuts for 0 and 1 agree with it.
THEOREM MultiplyIsExact ==
    ASSUME NEW y, NEW z, Canonical(y), Canonical(z)
    PROVE  /\ Canonical(Multiply(y, z))
           /\ F!Same(Element(Multiply(y, z)), F!Product(Element(y), Element(z)))
<1>1. /\ y \in DwValue /\ Element(y) \in Fraction /\ y.t \in Tuple
      /\ z \in DwValue /\ Element(z) \in Fraction /\ z.t \in Tuple
  BY CanonicalFacts, ElementFields
<1>2. ASSUME NEW w \in Fraction
      PROVE  /\ F!Product(Element(One), w) = w /\ F!Product(w, Element(One)) = w
             /\ F!Product(Element(Zero), w).n = ZeroTuple
             /\ F!Product(w, Element(Zero)).n = ZeroTuple
             /\ F!Product(Element(Zero), w).d \in Int /\ F!Product(w, Element(Zero)).d \in Int
  <2>1. /\ w.n \in Tuple /\ w.d \in Int /\ w = [n |-> w.n, d |-> w.d]
        /\ w.d * 1 = w.d /\ 1 * w.d = w.d
    BY FractionFields
  <2>2. Element(One) \in Fraction /\ Element(Zero) \in Fraction
    BY Constants, ElementFields
  <2> QED BY <2>1, <2>2, Constants, UnitProduct, FieldClosure
<1>3. \A v : v.n = ZeroTuple /\ v.d \in Int => SameValue(Element(Zero), v)
  BY Constants, ZeroTupleFacts DEF SameValue
<1>4. CASE isOne(y)
  BY <1>1, <1>2, <1>4, FieldCoordinates DEF Multiply, isOne, SameValue
<1>5. CASE ~isOne(y) /\ isOne(z)
  BY <1>1, <1>2, <1>5, FieldCoordinates DEF Multiply, isOne, SameValue
<1>6. CASE ~isOne(y) /\ ~isOne(z) /\ (isZero(y) \/ isZero(z))
  <2>1. (isZero(y) => y = Zero) /\ (isZero(z) => z = Zero)
    BY DEF Canonical
  <2>2. Multiply(y, z) = Zero
    BY <1>6 DEF Multiply
  <2>3. SameValue(Element(Zero), F!Product(Element(y), Element(z)))
    BY <1>1, <1>2, <1>3, <1>6, <2>1
  <2> QED BY <2>2, <2>3, Constants, FieldCoordinates
<1>7. CASE ~isOne(y) /\ ~isOne(z) /\ ~isZero(y) /\ ~isZero(z)
  <2> DEFINE p == mulTuple(y.t, z.t)
             k == y.k + z.k
             e == y.e * z.e
  <2>1. /\ y.k \in Nat /\ y.e \in Nat \ {0} /\ z.k \in Nat /\ z.e \in Nat \ {0}
        /\ Element(y) = Value(y.t, y.k, y.e) /\ Element(z) = Value(z.t, z.k, z.e)
    BY <1>1, DwValueFields, ElementFields
  <2>2. /\ F!Product(Element(y), Element(z)) = Value(p, k, e)
        /\ p \in Tuple /\ k \in Nat /\ e \in Nat \ {0}
    <3> DEFINE P == y.t
               J == y.k
               E == y.e
               Q == z.t
               I == z.k
               G == z.e
    <3>1. /\ P \in Tuple /\ J \in Nat /\ E \in Nat \ {0}
          /\ Q \in Tuple /\ I \in Nat /\ G \in Nat \ {0}
          /\ F!Product(Element(y), Element(z)) = F!Product(Value(P, J, E), Value(Q, I, G))
      BY <1>1, <2>1
    <3> HIDE DEF P, J, E, Q, I, G
    <3>2. /\ F!Product(Value(P, J, E), Value(Q, I, G)) = Value(mulTuple(P, Q), J + I, E * G)
          /\ mulTuple(P, Q) \in Tuple /\ J + I \in Nat /\ E * G \in Nat \ {0}
      BY <3>1, ProductOfValues
    <3> QED BY <3>1, <3>2 DEF P, J, E, Q, I, G
  <2>3. Multiply(y, z) = canonicalize(p, k, e)
    BY <1>7 DEF Multiply
  <2> HIDE DEF p, k, e
  <2> QED BY <2>2, <2>3, CanonicalizeIsExact, FieldCoordinates
<1> QED BY <1>4, <1>5, <1>6, <1>7

\* No square is twice a square: the least counterexample would be even, and
\* half of it the second number of a smaller one.
LEMMA Sqrt2IsIrrational ==
    ASSUME NEW x \in Int, NEW y \in Int, x * x = 2 * (y * y)
    PROVE  x = 0
<1> DEFINE S == {n \in Nat : n # 0 /\ \E m \in Nat : n * n = 2 * (m * m)}
<1>1. ASSUME NEW n \in S, \A m \in S : n <= m PROVE FALSE
  <2>1. PICK m \in Nat : n * n = 2 * (m * m)
    OBVIOUS
  <2>2. n \in Nat /\ n # 0
    OBVIOUS
  <2>3. n % 2 = 0
    <3>1. ASSUME NEW h \in Int, n = 2 * h + 1 PROVE FALSE
      <4>1. n * n = 2 * (2 * (h * h) + 2 * h) + 1
        BY <3>1
      <4>2. h * h \in Int /\ m * m \in Int
        OBVIOUS
      <4> QED BY <2>1, <4>1, <4>2
    <3>2. n % 2 = 1 => n = 2 * (n \div 2) + 1 /\ n \div 2 \in Int
      BY <2>2
    <3> QED BY <2>2, <3>1, <3>2
  <2>4. PICK h \in Nat : n = 2 * h
    <3>1. n = 2 * (n \div 2) /\ n \div 2 \in Nat
      BY <2>2, <2>3
    <3> QED BY <3>1
  <2>5. m * m = 2 * (h * h)
    <3>1. n * n = 4 * (h * h) /\ h * h \in Int /\ m * m \in Int
      BY <2>4
    <3> QED BY <2>1, <3>1
  <2>6. m # 0
    BY <2>2, <2>4, <2>5
  <2>7. m < n
    <3>1. ASSUME m >= n PROVE FALSE
      <4>1. m * m >= n * n /\ m * m >= 1
        BY <2>2, <2>6, <3>1
      <4> QED BY <2>1, <4>1
    <3> QED BY <2>2, <3>1
  <2> QED BY <1>1, <2>2, <2>5, <2>6, <2>7
<1>2. S = {}
  <2> HIDE DEF S
  <2>1. S \in SUBSET Nat
    BY DEF S
  <2> QED BY <1>1, <2>1, LeastElement
<1>3. ASSUME NEW n \in Int PROVE Abs(n) \in Nat /\ Abs(n) * Abs(n) = n * n
  BY DEF Abs
<1>4. Abs(x) * Abs(x) = 2 * (Abs(y) * Abs(y))
  BY <1>3
<1>5. Abs(x) = 0
  <2> HIDE DEF S
  <2>1. Abs(x) \notin S
    BY <1>2
  <2> QED BY <1>3, <1>4, <2>1 DEF S
<1> QED BY <1>5 DEF Abs

\* x^2 - 2 y^2 is positive unless the tuple is zero.
THEOREM InverseDenominatorPositive ==
    ASSUME NEW p \in Tuple, p # ZeroTuple
    PROVE  normX(p) * normX(p) - 2 * normY(p) * normY(p) > 0
<1> DEFINE x == normX(p)
           y == normY(p)
<1>1. x \in Int /\ y \in Int
  BY Components DEF normX, normY
<1>2. x # 0
  <2> DEFINE a == p[1]
             b == p[2]
             c == p[3]
             d == p[4]
  <2>1. a \in Int /\ b \in Int /\ c \in Int /\ d \in Int
    BY Components
  <2>2. x = a * a + b * b + c * c + d * d
    BY DEF normX
  <2>3. ~(a = 0 /\ b = 0 /\ c = 0 /\ d = 0)
    BY Components DEF ZeroTuple
  <2> HIDE DEF a, b, c, d, x
  <2>4. ASSUME NEW n \in Int PROVE n * n \in Int /\ n * n >= 0 /\ (n # 0 => n * n > 0)
    OBVIOUS
  <2> QED BY <2>1, <2>2, <2>3, <2>4
<1>3. x * x - 2 * y * y >= 0
  BY InverseDenominatorSign
<1> HIDE DEF x, y
<1>4. x * x # 2 * (y * y)
  BY <1>1, <1>2, Sqrt2IsIrrational
<1>5. x * x - 2 * y * y > 0
  BY <1>1, <1>3, <1>4
<1> QED BY <1>5 DEF x, y

\* inverse is the inverse: no element but zero is without one.
THEOREM InverseIsInverse ==
    ASSUME NEW z \in DwValue, z.t # ZeroTuple
    PROVE  /\ Canonical(inverse(z))
           /\ F!Same(F!Product(Element(inverse(z)), Element(z)), F!One)
<1> DEFINE p == z.t
           k == z.k
           e == z.e
           x == normX(p)
           y == normY(p)
           d == x * x - 2 * y * y
           M == mulByConjNormNumer(ConjTuple(p), x, y)
           N == Scale(e, scaleUp(M, k))
           v == Value(N, 0, d)
           w == Pow2[k]
<1>1. p \in Tuple /\ k \in Nat /\ e \in Nat \ {0} /\ e \in Int /\ w \in Int
  BY DwValueFields, Pow2Def
<1>2. x \in Int /\ y \in Int /\ d \in Nat \ {0}
  <2>1. x \in Int /\ y \in Int
    BY <1>1, Components DEF normX, normY
  <2>2. d > 0
    BY <1>1, InverseDenominatorPositive
  <2> HIDE DEF x, y
  <2> QED BY <2>1, <2>2
<1>3. M \in Tuple /\ mulTuple(M, p) = <<d, 0, 0, 0>>
  <2>1. ConjTuple(p) \in Tuple /\ <<x, -y, 0, y>> \in Tuple
    BY <1>1, <1>2, TupleClosure DEF Tuple
  <2>2. M = mulTuple(ConjTuple(p), <<x, -y, 0, y>>)
    BY <1>2, <2>1, NumeratorTuple
  <2>3. M \in Tuple
    BY <2>1, <2>2, TupleClosure
  <2>4. mulTuple(p, M) = <<d, 0, 0, 0>>
    BY <1>1, InverseIsExact
  <2> HIDE DEF M
  <2> QED BY <1>1, <2>3, <2>4, MulTupleCommutes
<1>4. scaleUp(M, k) \in Tuple /\ N \in Tuple
  BY <1>1, <1>3, ScaleUpStep, TupleClosure
<1>5. inverse(z) = canonicalize(N, 0, d)
  <2>1. inverse(z) = canonicalize(IF d < 0 THEN Scale(-1, N) ELSE N, 0, Abs(d))
    BY DEF inverse
  <2>2. Abs(d) = d /\ ~(d < 0)
    BY <1>2 DEF Abs
  <2> HIDE DEF d, N
  <2> QED BY <2>1, <2>2
<1>6. v \in Fraction /\ v.n = N /\ v.d = d
  <2>1. scaleUp(N, 0) = N /\ Pow2[0] * d = d
    BY <1>2, <1>4, ScaleUpStep, Pow2Def
  <2> HIDE DEF d, N
  <2> QED BY <1>2, <1>4, <2>1, ValueFields
<1>7. /\ Element(z) \in Fraction /\ Element(z).n = scaleUp(p, k) /\ Element(z).d = w * e
      /\ scaleUp(p, k) \in Tuple
  <2>1. Element(z) = Value(p, k, e) /\ Element(z) \in Fraction
    BY ElementFields
  <2> HIDE DEF p, k, e
  <2>2. Value(p, k, e).n = scaleUp(p, k) /\ Value(p, k, e).d = w * e
    BY <1>1, ValueFields
  <2>3. scaleUp(p, k) \in Tuple
    BY <1>1, ScaleUpStep
  <2> QED BY <2>1, <2>2, <2>3
<1> HIDE DEF d, p, k, e, x, y, M
<1>8. mulTuple(N, scaleUp(p, k)) = Scale(e * w, <<d, 0, 0, 0>>)
  <2> DEFINE A == scaleUp(p, k)
             B == scaleUp(M, k)
             D == <<d, 0, 0, 0>>
  <2>1. D \in Tuple
    BY <1>2 DEF Tuple
  <2>2. mulTuple(N, A) = Scale(e, mulTuple(B, A))
    BY <1>1, <1>4, <1>7, ScaleOfProduct
  <2>3. mulTuple(B, A) = scaleUp(mulTuple(B, p), k)
    BY <1>1, <1>4, ScaleUpLaws
  <2>4. mulTuple(B, p) = scaleUp(D, k)
    BY <1>1, <1>3, ScaleUpLaws
  <2>5. scaleUp(scaleUp(D, k), k) = Scale(w, D)
    <3>1. k + k = 2 * k
      BY <1>1
    <3> QED BY <1>1, <2>1, <3>1, ScaleUpSum, ScaleUpDouble
  <2>6. Scale(e, Scale(w, D)) = Scale(e * w, D)
    BY <1>1, <2>1, ScaleTwice
  <2> QED BY <2>2, <2>3, <2>4, <2>5, <2>6
<1> HIDE DEF N, v, w
<1>9. SameValue(F!Product(v, Element(z)), F!One)
  <2>1. F!Product(v, Element(z)) = [n |-> Scale(e * w, <<d, 0, 0, 0>>), d |-> d * (w * e)]
    BY <1>6, <1>7, <1>8, FieldClosure
  <2>2. F!One.n = <<1, 0, 0, 0>> /\ F!One.d = 1
    BY DEF F!One
  <2>3. e * w \in Int /\ d * (w * e) \in Int /\ (e * w) * d = d * (w * e)
    BY <1>1, <1>2
  <2>4. Scale(e * w, <<d, 0, 0, 0>>) = <<d * (w * e), 0, 0, 0>>
    BY <2>3 DEF Scale
  <2> DEFINE n == d * (w * e)
  <2>5. Scale(1, <<n, 0, 0, 0>>) = Scale(n, <<1, 0, 0, 0>>)
    <3> HIDE DEF n
    <3> QED BY <2>3 DEF Scale, n
  <2>6. F!Product(v, Element(z)) = [n |-> <<n, 0, 0, 0>>, d |-> n]
    BY <2>1, <2>4
  <2> HIDE DEF n
  <2> QED BY <2>2, <2>5, <2>6 DEF SameValue
<1>10. Canonical(inverse(z)) /\ SameValue(Element(inverse(z)), v)
  BY <1>2, <1>4, <1>5, CanonicalizeIsExact DEF v
<1> DEFINE u == Element(inverse(z))
           r == F!Product(u, Element(z))
           s == F!Product(v, Element(z))
<1>11. u \in Fraction /\ SameValue(u, v)
  BY <1>10, CanonicalFacts, ElementFields
<1> HIDE DEF u
<1>12. SameValue(r, s) /\ r \in Fraction /\ s \in Fraction
  BY <1>6, <1>7, <1>11, ProductCongruence, FieldClosure
<1>13. F!One \in Fraction
  BY Constants, ElementFields
<1>14. SameValue(s, F!One)
  BY <1>9
<1> HIDE DEF r, s
<1>15. SameValue(r, F!One)
  BY <1>12, <1>13, <1>14, SameTransitive
<1> QED BY <1>10, <1>15, FieldCoordinates DEF r, u

(***************************************************************************)
(* z is the canonical value of the element p of the field.                 *)
(***************************************************************************)
Denotes(z, p) == Canonical(z) /\ p \in Fraction /\ SameValue(Element(z), p)

\* A canonical value denotes its element.
LEMMA DenotesElement ==
    ASSUME NEW z, Canonical(z)
    PROVE  Denotes(z, Element(z)) /\ Element(z) \in Fraction
<1>1. Element(z) \in Fraction
  BY CanonicalFacts, ElementFields
<1> QED BY <1>1 DEF Denotes, SameValue

\* It denotes every equal element.
LEMMA DenotesSame ==
    ASSUME NEW z, NEW p, NEW q, Denotes(z, p), q \in Fraction, SameValue(p, q)
    PROVE  Denotes(z, q)
<1>1. Element(z) \in Fraction
  BY DenotesElement DEF Denotes
<1> QED BY <1>1, SameTransitive DEF Denotes

\* Values that denote one element are equal.
LEMMA DenotesUnique ==
    ASSUME NEW y, NEW z, NEW p, Denotes(y, p), Denotes(z, p)
    PROVE  y = z
<1>1. Element(y) \in Fraction /\ Element(z) \in Fraction
  BY DenotesElement DEF Denotes
<1>2. SameValue(p, Element(z))
  BY SameSymmetric DEF Denotes
<1>3. SameValue(Element(y), Element(z))
  BY <1>1, <1>2, SameTransitive DEF Denotes
<1> QED BY <1>3, CanonicalIsUnique DEF Denotes

\* operator* denotes the product.
LEMMA DenotesProduct ==
    ASSUME NEW y, NEW z, NEW p, NEW q, Denotes(y, p), Denotes(z, q)
    PROVE  Denotes(Multiply(y, z), F!Product(p, q))
<1> USE DEF Denotes
<1>1. Element(y) \in Fraction /\ Element(z) \in Fraction
  BY DenotesElement
<1>2. Denotes(Multiply(y, z), F!Product(Element(y), Element(z)))
  BY <1>1, MultiplyIsExact, FieldCoordinates, FieldClosure
<1>3. SameValue(F!Product(Element(y), Element(z)), F!Product(p, q))
  BY <1>1, ProductCongruenceBoth
<1>4. F!Product(p, q) \in Fraction
  BY FieldClosure
<1> QED BY <1>2, <1>3, <1>4, DenotesSame

\* Addition in the field commutes.
LEMMA SumCommutes ==
    ASSUME NEW p \in Fraction, NEW q \in Fraction
    PROVE  F!Sum(p, q) = F!Sum(q, p)
<1> DEFINE P == p.n
           Q == q.n
           a == p.d
           b == q.d
<1>1. P \in Tuple /\ Q \in Tuple /\ a \in Int /\ b \in Int
  BY FractionFields
<1>2. /\ F!Sum(p, q) = [n |-> Plus(Scale(b, P), Scale(a, Q)), d |-> a * b]
      /\ F!Sum(q, p) = [n |-> Plus(Scale(a, Q), Scale(b, P)), d |-> b * a]
  BY FieldCoordinates DEF F!Sum
<1> HIDE DEF P, Q, a, b
<1>3. Scale(b, P) \in Tuple /\ Scale(a, Q) \in Tuple /\ a * b = b * a
  BY <1>1, TupleClosure
<1>4. ASSUME NEW r \in Tuple, NEW s \in Tuple PROVE Plus(r, s) = Plus(s, r)
  BY Components DEF Plus
<1> QED BY <1>2, <1>3, <1>4

\* operator+ denotes the sum.
LEMMA DenotesSum ==
    ASSUME NEW y, NEW z, NEW p, NEW q, Denotes(y, p), Denotes(z, q)
    PROVE  Denotes(Add(y, z), F!Sum(p, q))
<1> USE DEF Denotes
<1> DEFINE Y == Element(y)
           Z == Element(z)
<1>1. Y \in Fraction /\ Z \in Fraction /\ y \in DwValue /\ z \in DwValue
  BY DenotesElement, CanonicalFacts
<1>2. Denotes(Add(y, z), F!Sum(Y, Z))
  BY <1>1, AddIsExact, FieldCoordinates, FieldClosure
<1>3. SameValue(Y, p) /\ SameValue(Z, q)
  OBVIOUS
<1> HIDE DEF Y, Z
<1>4. SameValue(F!Sum(Y, Z), F!Sum(Y, q))
  BY <1>1, <1>3, SumCongruence
<1>5. SameValue(F!Sum(q, Y), F!Sum(q, p))
  BY <1>1, <1>3, SumCongruence
<1>6. F!Sum(q, Y) = F!Sum(Y, q) /\ F!Sum(q, p) = F!Sum(p, q)
  BY <1>1, SumCommutes
<1>7. /\ F!Sum(Y, Z) \in Fraction /\ F!Sum(Y, q) \in Fraction /\ F!Sum(p, q) \in Fraction
  BY <1>1, FieldClosure
<1>8. SameValue(F!Sum(Y, Z), F!Sum(p, q))
  BY <1>4, <1>5, <1>6, <1>7, SameTransitive
<1> QED BY <1>2, <1>7, <1>8, DenotesSame

\* Unary minus denotes the opposite.
LEMMA DenotesOpposite ==
    ASSUME NEW z, NEW p, Denotes(z, p)
    PROVE  Denotes(Negate(z), F!Opposite(p))
<1> USE DEF Denotes
<1> DEFINE Z == Element(z)
<1>1. Z \in Fraction /\ z \in DwValue
  BY DenotesElement, CanonicalFacts
<1>2. Denotes(Negate(z), F!Opposite(Z))
  BY <1>1, NegateIsExact, FieldCoordinates, FieldClosure
<1>3. Z.n \in Tuple /\ Z.d \in Int /\ p.n \in Tuple /\ p.d \in Int /\ -1 \in Int
  BY <1>1, FractionFields
<1>4. Scale(p.d, Z.n) = Scale(Z.d, p.n)
  BY DEF SameValue
<1> HIDE DEF Z
<1>5. ASSUME NEW m \in Int, NEW r \in Tuple PROVE Scale(m, Scale(-1, r)) = Scale(-1, Scale(m, r))
  BY Components DEF Scale
<1>6. Scale(p.d, Scale(-1, Z.n)) = Scale(Z.d, Scale(-1, p.n))
  BY <1>3, <1>4, <1>5
<1>7. F!Opposite(Z).n = Scale(-1, Z.n) /\ F!Opposite(Z).d = Z.d
  BY <1>1, FieldClosure
<1>8. F!Opposite(p).n = Scale(-1, p.n) /\ F!Opposite(p).d = p.d /\ F!Opposite(p) \in Fraction
  BY FieldClosure
<1>9. SameValue(F!Opposite(Z), F!Opposite(p))
  BY <1>6, <1>7, <1>8 DEF SameValue
<1> QED BY <1>2, <1>8, <1>9, DenotesSame

\* What the constructor makes of p, k, e.
LEMMA DenotesValue ==
    ASSUME NEW p \in Tuple, NEW k \in Nat, NEW e \in Nat \ {0}
    PROVE  Denotes(canonicalize(p, k, e), Value(p, k, e))
BY CanonicalizeIsExact, ValueFields DEF Denotes
-----------------------------------------------------------------------------
(***************************************************************************)
(* The laws of the field, for canonical values.                            *)
(***************************************************************************)
LEMMA CanonicalClosure ==
    ASSUME NEW a, NEW b, Canonical(a), Canonical(b)
    PROVE  /\ Canonical(Multiply(a, b)) /\ Canonical(Add(a, b))
           /\ Canonical(Negate(a)) /\ Canonical(Subtract(a, b))
<1>1. Canonical(Multiply(a, b))
  BY DenotesElement, DenotesProduct DEF Denotes
<1>2. Canonical(Add(a, b)) /\ Canonical(Negate(a))
  BY DenotesElement, DenotesSum, DenotesOpposite DEF Denotes
<1>3. a \in DwValue /\ b \in DwValue
  BY CanonicalFacts
<1>4. Canonical(Subtract(a, b))
  BY <1>3, SubtractIsExact
<1> QED BY <1>1, <1>2, <1>4

\* operator* commutes.
LEMMA TimesCommutes ==
    ASSUME NEW a, NEW b, Canonical(a), Canonical(b)
    PROVE  Multiply(a, b) = Multiply(b, a)
<1> DEFINE A == Element(a)
           B == Element(b)
<1>1. Denotes(a, A) /\ A \in Fraction /\ Denotes(b, B) /\ B \in Fraction
  BY DenotesElement
<1> HIDE DEF A, B
<1>2. F!Product(A, B) = F!Product(B, A)
  <2>1. A.n \in Tuple /\ B.n \in Tuple /\ A.d \in Int /\ B.d \in Int
    BY <1>1, FractionFields
  <2>2. mulTuple(A.n, B.n) = mulTuple(B.n, A.n) /\ A.d * B.d = B.d * A.d
    BY <2>1, MulTupleCommutes
  <2>3. F!Product(A, B) = [n |-> mulTuple(A.n, B.n), d |-> A.d * B.d]
    BY <1>1, FieldClosure
  <2>4. F!Product(B, A) = [n |-> mulTuple(B.n, A.n), d |-> B.d * A.d]
    BY <1>1, FieldClosure
  <2> QED BY <2>2, <2>3, <2>4
<1>3. Denotes(Multiply(a, b), F!Product(A, B))
  BY <1>1, DenotesProduct
<1>4. Denotes(Multiply(b, a), F!Product(B, A))
  BY <1>1, DenotesProduct
<1> QED BY <1>2, <1>3, <1>4, DenotesUnique

\* operator* associates.
LEMMA TimesAssociates ==
    ASSUME NEW a, NEW b, NEW c, Canonical(a), Canonical(b), Canonical(c)
    PROVE  Multiply(Multiply(a, b), c) = Multiply(a, Multiply(b, c))
<1> DEFINE A == Element(a)
           B == Element(b)
           C == Element(c)
<1>1. /\ Denotes(a, A) /\ A \in Fraction /\ Denotes(b, B) /\ B \in Fraction
      /\ Denotes(c, C) /\ C \in Fraction
  BY DenotesElement
<1> HIDE DEF A, B, C
<1>2. F!Product(F!Product(A, B), C) = F!Product(A, F!Product(B, C))
  <2> DEFINE P == A.n
             Q == B.n
             R == C.n
             i == A.d
             j == B.d
             k == C.d
  <2>1. P \in Tuple /\ Q \in Tuple /\ R \in Tuple /\ i \in Int /\ j \in Int /\ k \in Int
    BY <1>1, FractionFields
  <2>2. /\ F!Product(A, B) \in Fraction
        /\ F!Product(A, B).n = mulTuple(P, Q) /\ F!Product(A, B).d = i * j
    BY <1>1, FieldClosure
  <2>3. /\ F!Product(B, C) \in Fraction
        /\ F!Product(B, C).n = mulTuple(Q, R) /\ F!Product(B, C).d = j * k
    BY <1>1, FieldClosure
  <2>4. F!Product(F!Product(A, B), C) = [n |-> mulTuple(mulTuple(P, Q), R), d |-> (i * j) * k]
    BY <1>1, <2>2, FieldClosure
  <2>5. F!Product(A, F!Product(B, C)) = [n |-> mulTuple(P, mulTuple(Q, R)), d |-> i * (j * k)]
    BY <1>1, <2>3, FieldClosure
  <2> HIDE DEF P, Q, R, i, j, k
  <2>6. mulTuple(mulTuple(P, Q), R) = mulTuple(P, mulTuple(Q, R)) /\ (i * j) * k = i * (j * k)
    BY <2>1, MulTupleAssociates
  <2> QED BY <2>4, <2>5, <2>6
<1>3. Denotes(Multiply(Multiply(a, b), c), F!Product(F!Product(A, B), C))
  BY <1>1, DenotesProduct
<1>4. Denotes(Multiply(a, Multiply(b, c)), F!Product(A, F!Product(B, C)))
  BY <1>1, DenotesProduct
<1> QED BY <1>2, <1>3, <1>4, DenotesUnique

\* operator* distributes over operator+.
LEMMA TimesDistributes ==
    ASSUME NEW a, NEW b, NEW c, Canonical(a), Canonical(b), Canonical(c)
    PROVE  Multiply(Add(a, b), c) = Add(Multiply(a, c), Multiply(b, c))
<1> DEFINE A == Element(a)
           B == Element(b)
           C == Element(c)
<1>1. /\ Denotes(a, A) /\ A \in Fraction /\ Denotes(b, B) /\ B \in Fraction
      /\ Denotes(c, C) /\ C \in Fraction
  BY DenotesElement
<1> HIDE DEF A, B, C
<1> DEFINE l == F!Product(F!Sum(A, B), C)
           r == F!Sum(F!Product(A, C), F!Product(B, C))
<1>2. SameValue(l, r)
  <2> DEFINE P == A.n
             Q == B.n
             R == C.n
             i == A.d
             j == B.d
             k == C.d
             PR == mulTuple(P, R)
             QR == mulTuple(Q, R)
  <2>1. /\ P \in Tuple /\ Q \in Tuple /\ R \in Tuple /\ i \in Int /\ j \in Int /\ k \in Int
        /\ PR \in Tuple /\ QR \in Tuple
    BY <1>1, FractionFields, TupleClosure
  <2>2. /\ F!Sum(A, B) \in Fraction
        /\ F!Sum(A, B).n = Plus(Scale(j, P), Scale(i, Q)) /\ F!Sum(A, B).d = i * j
    BY <1>1, FieldClosure
  <2>3. /\ F!Product(A, C) \in Fraction /\ F!Product(A, C).n = PR /\ F!Product(A, C).d = i * k
        /\ F!Product(B, C) \in Fraction /\ F!Product(B, C).n = QR /\ F!Product(B, C).d = j * k
    BY <1>1, FieldClosure
  <2>4. l = [n |-> mulTuple(Plus(Scale(j, P), Scale(i, Q)), R), d |-> (i * j) * k]
    BY <1>1, <2>2, FieldClosure
  <2>5. r.n = Plus(Scale(j * k, PR), Scale(i * k, QR)) /\ r.d = (i * k) * (j * k)
    <3> HIDE DEF PR, QR
    <3> QED BY <2>3, FieldClosure
  <2> HIDE DEF l, r, P, Q, R, i, j, k
  <2>6. mulTuple(Plus(Scale(j, P), Scale(i, Q)), R) = Plus(Scale(j, PR), Scale(i, QR))
    <3>1. ASSUME NEW u \in Tuple, NEW v \in Tuple
          PROVE  mulTuple(Plus(u, v), R) = Plus(mulTuple(u, R), mulTuple(v, R))
      BY <2>1, Components, SMTT(60) DEF mulTuple, Plus
    <3>2. Scale(j, P) \in Tuple /\ Scale(i, Q) \in Tuple
      BY <2>1, TupleClosure
    <3>3. mulTuple(Scale(j, P), R) = Scale(j, PR) /\ mulTuple(Scale(i, Q), R) = Scale(i, QR)
      BY <2>1, ScaleOfProduct
    <3> QED BY <3>1, <3>2, <3>3
  <2> HIDE DEF PR, QR
  <2>7. Scale((i * k) * (j * k), Plus(Scale(j, PR), Scale(i, QR)))
           = Plus(Scale(((i * k) * (j * k)) * j, PR), Scale(((i * k) * (j * k)) * i, QR))
    BY <2>1, LinearCombination
  <2>8. Scale((i * j) * k, Plus(Scale(j * k, PR), Scale(i * k, QR)))
           = Plus(Scale(((i * j) * k) * (j * k), PR), Scale(((i * j) * k) * (i * k), QR))
    <3>1. j * k \in Int /\ i * k \in Int /\ (i * j) * k \in Int
      BY <2>1
    <3> DEFINE jk == j * k
               ik == i * k
               s == (i * j) * k
    <3> HIDE DEF jk, ik, s
    <3>2. Scale(s, Plus(Scale(jk, PR), Scale(ik, QR)))
             = Plus(Scale(s * jk, PR), Scale(s * ik, QR))
      BY <2>1, <3>1, LinearCombination DEF jk, ik, s
    <3> QED BY <3>2 DEF jk, ik, s
  <2>9. /\ ((i * k) * (j * k)) * j = ((i * j) * k) * (j * k)
        /\ ((i * k) * (j * k)) * i = ((i * j) * k) * (i * k)
    BY <2>1
  <2> QED BY <2>4, <2>5, <2>6, <2>7, <2>8, <2>9 DEF SameValue
<1>3. Denotes(Multiply(Add(a, b), c), l)
  BY <1>1, DenotesSum, DenotesProduct
<1>4. Denotes(Add(Multiply(a, c), Multiply(b, c)), r)
  <2>1. Denotes(Multiply(a, c), F!Product(A, C)) /\ Denotes(Multiply(b, c), F!Product(B, C))
    BY <1>1, DenotesProduct
  <2> QED BY <2>1, DenotesSum
<1> HIDE DEF l, r
<1>5. Denotes(Multiply(Add(a, b), c), r)
  BY <1>2, <1>3, <1>4, DenotesSame DEF Denotes
<1> QED BY <1>4, <1>5, DenotesUnique

\* One is neutral: the early return of operator*.
LEMMA TimesOne ==
    ASSUME NEW z
    PROVE  Multiply(One, z) = z
BY DEF Multiply, isOne

\* A sign may be taken out of a product.
LEMMA NegateTimes ==
    ASSUME NEW a, NEW b, Canonical(a), Canonical(b)
    PROVE  Multiply(Negate(a), b) = Negate(Multiply(a, b))
<1> DEFINE A == Element(a)
           B == Element(b)
<1>1. Denotes(a, A) /\ A \in Fraction /\ Denotes(b, B) /\ B \in Fraction
  BY DenotesElement
<1> HIDE DEF A, B
<1>2. F!Product(F!Opposite(A), B) = F!Opposite(F!Product(A, B))
  <2>1. A.n \in Tuple /\ B.n \in Tuple /\ A.d \in Int /\ B.d \in Int /\ -1 \in Int
    BY <1>1, FractionFields
  <2>2. mulTuple(Scale(-1, A.n), B.n) = Scale(-1, mulTuple(A.n, B.n))
    BY <2>1, ScaleOfProduct
  <2>3. /\ F!Opposite(A) \in Fraction /\ F!Opposite(A).n = Scale(-1, A.n)
        /\ F!Opposite(A).d = A.d
    BY <1>1, FieldClosure
  <2>4. /\ F!Product(A, B) \in Fraction /\ F!Product(A, B).n = mulTuple(A.n, B.n)
        /\ F!Product(A, B).d = A.d * B.d
    BY <1>1, FieldClosure
  <2>5. F!Product(F!Opposite(A), B) = [n |-> mulTuple(Scale(-1, A.n), B.n), d |-> A.d * B.d]
    BY <1>1, <2>3, FieldClosure
  <2>6. F!Opposite(F!Product(A, B)) = [n |-> Scale(-1, mulTuple(A.n, B.n)), d |-> A.d * B.d]
    BY <2>4, FieldClosure
  <2> QED BY <2>2, <2>5, <2>6
<1>3. Denotes(Multiply(Negate(a), b), F!Product(F!Opposite(A), B))
  BY <1>1, DenotesOpposite, DenotesProduct
<1>4. Denotes(Negate(Multiply(a, b)), F!Opposite(F!Product(A, B)))
  BY <1>1, DenotesOpposite, DenotesProduct
<1> QED BY <1>2, <1>3, <1>4, DenotesUnique

\* The term that is subtracted and added again.
LEMMA LastTermCancels ==
    ASSUME NEW u \in Int, NEW v \in Int, NEW p \in Tuple, NEW q \in Tuple
    PROVE  Plus(Plus(Scale(v, p), Scale(-u, q)), Scale(u, q)) = Scale(v, p)
<1>1. ASSUME NEW a \in Int, NEW b \in Int
      PROVE  (v * a + (-u) * b) + u * b = v * a
  OBVIOUS
<1>2. p[1] \in Int /\ p[2] \in Int /\ p[3] \in Int /\ p[4] \in Int
  BY Components
<1>3. q[1] \in Int /\ q[2] \in Int /\ q[3] \in Int /\ q[4] \in Int
  BY Components
<1> QED BY <1>1, <1>2, <1>3 DEF Plus, Scale

\* What was subtracted can be added again.
LEMMA DifferencePlus ==
    ASSUME NEW a, NEW b, Canonical(a), Canonical(b)
    PROVE  Add(Subtract(a, b), b) = a
<1> DEFINE A == Element(a)
           B == Element(b)
           o == F!Opposite(B)
           s == F!Sum(F!Sum(A, o), B)
<1>1. Denotes(a, A) /\ A \in Fraction /\ Denotes(b, B) /\ B \in Fraction
  BY DenotesElement
<1> HIDE DEF A, B
<1>2. Denotes(Negate(b), o)
  BY <1>1, DenotesOpposite
<1>3. Denotes(Add(Subtract(a, b), b), s)
  <2> HIDE DEF o
  <2>1. Denotes(Subtract(a, b), F!Sum(A, o))
    BY <1>1, <1>2, DenotesSum DEF Subtract
  <2> QED BY <1>1, <2>1, DenotesSum
<1>4. SameValue(s, A)
  <2> DEFINE P == A.n
             Q == B.n
             i == A.d
             j == B.d
             M == Scale(-1, Q)
             T == Plus(Scale(j, P), Scale(i, M))
  <2>1. /\ P \in Tuple /\ Q \in Tuple /\ i \in Int /\ j \in Int /\ -1 \in Int
        /\ o \in Fraction /\ o.n = M /\ o.d = j
    BY <1>1, FractionFields, FieldClosure
  <2>2. F!Sum(A, o) \in Fraction /\ F!Sum(A, o).n = T /\ F!Sum(A, o).d = i * j
    <3> HIDE DEF o
    <3> QED BY <1>1, <2>1, FieldClosure
  <2>3. s.n = Plus(Scale(j, T), Scale(i * j, Q)) /\ s.d = (i * j) * j
    <3> HIDE DEF o, T
    <3> QED BY <1>1, <2>2, FieldClosure
  <2> HIDE DEF s, o, P, Q, i, j
  <2>4. Scale(j, T) = Plus(Scale(j * j, P), Scale(-(i * j), Q))
    <3> DEFINE n == i * (-1)
    <3>1. n \in Int /\ M = Scale(-1, Q) /\ Scale(i, M) = Scale(n, Q) /\ j * n = -(i * j)
      BY <2>1, ScaleTwice
    <3> HIDE DEF n, M
    <3>2. Scale(j, Plus(Scale(j, P), Scale(n, Q))) = Plus(Scale(j * j, P), Scale(j * n, Q))
      BY <2>1, <3>1, LinearCombination
    <3> QED BY <3>1, <3>2
  <2>5. Plus(Scale(j, T), Scale(i * j, Q)) = Scale(j * j, P)
    <3> DEFINE u == i * j
               v == j * j
    <3>1. u \in Int /\ v \in Int
      BY <2>1
    <3> HIDE DEF u, v
    <3>2. Plus(Plus(Scale(v, P), Scale(-u, Q)), Scale(u, Q)) = Scale(v, P)
      BY <2>1, <3>1, LastTermCancels
    <3> QED BY <2>4, <3>2 DEF u, v
  <2>6. Scale(i, Scale(j * j, P)) = Scale((i * j) * j, P)
    <3>1. j * j \in Int /\ i * (j * j) = (i * j) * j
      BY <2>1
    <3> DEFINE v == j * j
    <3> HIDE DEF v
    <3>2. Scale(i, Scale(v, P)) = Scale(i * v, P)
      BY <2>1, <3>1, ScaleTwice DEF v
    <3> QED BY <3>1, <3>2 DEF v
  <2> QED BY <2>3, <2>5, <2>6 DEF SameValue, P, i
<1> HIDE DEF s
<1>5. Denotes(Add(Subtract(a, b), b), A)
  BY <1>1, <1>3, <1>4, DenotesSame
<1> QED BY <1>1, <1>5, DenotesUnique

\* inverse is the inverse.
LEMMA InverseTimes ==
    ASSUME NEW z, Canonical(z), ~isZero(z)
    PROVE  Canonical(inverse(z)) /\ Multiply(inverse(z), z) = One
<1>1. z \in DwValue /\ z.t # ZeroTuple
  BY CanonicalFacts DEF isZero
<1>2. Canonical(inverse(z)) /\ SameValue(F!Product(Element(inverse(z)), Element(z)), F!One)
  BY <1>1, InverseIsInverse, FieldCoordinates
<1>3. Denotes(Multiply(inverse(z), z), F!Product(Element(inverse(z)), Element(z)))
  BY <1>2, DenotesElement, DenotesProduct
<1>4. F!One = Element(One) /\ Denotes(One, F!One) /\ F!One \in Fraction
  BY Constants, DenotesElement
<1>5. Denotes(Multiply(inverse(z), z), F!One)
  BY <1>2, <1>3, <1>4, DenotesSame
<1> QED BY <1>2, <1>4, <1>5, DenotesUnique
-----------------------------------------------------------------------------
(***************************************************************************)
(* The ring D[w]: the values with e = 1.                                   *)
(***************************************************************************)
RingElement(z) == Canonical(z) /\ z.e = 1

\* What a constructor makes with denominator 1 is in D[w].
LEMMA RingValue ==
    ASSUME NEW p \in Tuple, NEW k \in Nat
    PROVE  RingElement(canonicalize(p, k, 1))
<1>1. Canonical(canonicalize(p, k, 1))
  BY CanonicalizeIsExact
<1>2. CASE p = ZeroTuple
  BY <1>1, <1>2 DEF canonicalize, Zero, RingElement
<1>3. CASE p # ZeroTuple
  <2> DEFINE y == reduceRationalDenominator(p, k, 1)
             l == lsb[1]
             c == Content(p, 1 \div Pow2[lsb[1]])
  <2>1. y \in DwValue /\ c \in Nat \ {0} /\ Pow2[l] * (c * y.e) = 1
    BY RationalDenominatorFacts
  <2>2. Pow2[l] \in Nat \ {0}
    BY LsbFacts
  <2> DEFINE w == Pow2[l]
             f == y.e
             z == reduceSqrt2Power[y]
  <2>3. f \in Nat \ {0}
    BY <2>1, DwValueFields
  <2>4. canonicalize(p, k, 1) = z
    BY <1>3 DEF canonicalize
  <2> HIDE DEF y, c, l
  <2>5. z.e = f
    BY <2>1, ReduceSqrt2PowerFacts
  <2> HIDE DEF w, f, z
  <2>6. f = 1
    <3>1. w \in Nat /\ c \in Nat /\ f \in Nat /\ w > 0 /\ c > 0 /\ f > 0 /\ w * (c * f) = 1
      BY <2>1, <2>2, <2>3 DEF w, f
    <3>2. c * f >= f /\ c * f \in Nat
      BY <3>1
    <3>3. w * (c * f) >= c * f
      BY <3>1, <3>2
    <3> QED BY <3>1, <3>2, <3>3
  <2> QED BY <1>1, <2>4, <2>5, <2>6 DEF RingElement
<1> QED BY <1>2, <1>3

\* The operators do not leave D[w].
LEMMA RingClosure ==
    ASSUME NEW a, NEW b, RingElement(a), RingElement(b)
    PROVE  /\ RingElement(Multiply(a, b)) /\ RingElement(Add(a, b))
           /\ RingElement(Negate(a)) /\ RingElement(Subtract(a, b))
<1>1. ASSUME NEW u, NEW v, RingElement(u), RingElement(v)
      PROVE  RingElement(Add(u, v)) /\ RingElement(Negate(u))
  <2> DEFINE k == IF u.k < v.k THEN v.k ELSE u.k
  <2>1. /\ u.t \in Tuple /\ u.k \in Nat /\ v.t \in Tuple /\ v.k \in Nat
        /\ u.e = 1 /\ v.e = 1
    BY <1>1, CanonicalFacts DEF RingElement
  <2>2. k \in Nat /\ k - u.k \in Nat /\ k - v.k \in Nat
    BY <2>1
  <2>3. Add(u, v) = canonicalize(Plus(scaleUp(u.t, k - u.k), scaleUp(v.t, k - v.k)), k, 1)
    BY <2>1 DEF Add
  <2> HIDE DEF k
  <2>4. Plus(scaleUp(u.t, k - u.k), scaleUp(v.t, k - v.k)) \in Tuple
    BY <2>1, <2>2, ScaleUpStep, TupleClosure
  <2>5. Scale(-1, u.t) \in Tuple /\ Negate(u) = canonicalize(Scale(-1, u.t), u.k, 1)
    BY <2>1, TupleClosure DEF Negate
  <2> QED BY <2>1, <2>2, <2>3, <2>4, <2>5, RingValue
<1>2. RingElement(Multiply(a, b))
  <2>1. /\ a.t \in Tuple /\ a.k \in Nat /\ b.t \in Tuple /\ b.k \in Nat
        /\ a.e = 1 /\ b.e = 1
    BY CanonicalFacts DEF RingElement
  <2>2. RingElement(canonicalize(mulTuple(a.t, b.t), a.k + b.k, 1))
    BY <2>1, TupleClosure, RingValue
  <2>3. RingElement(Zero)
    BY Constants DEF RingElement, Zero
  <2>4. a.e * b.e = 1
    BY <2>1
  <2> QED BY <2>2, <2>3, <2>4 DEF Multiply
<1>3. RingElement(Negate(b))
  BY <1>1
<1> QED BY <1>1, <1>2, <1>3 DEF Subtract

\* The rounded quotient is in the ring, whatever is divided.
LEMMA RoundedInRing ==
    ASSUME NEW p, NEW q, Canonical(p), Canonical(q), ~isZero(q)
    PROVE  RingElement(roundedDivide(p, q))
<1> DEFINE z == Multiply(p, inverse(q))
           n == scaleUp(z.t, z.k)
           d == Pow2[z.k] * z.e
<1>1. Canonical(inverse(q))
  BY InverseTimes
<1>2. Canonical(z)
  BY <1>1, CanonicalClosure
<1>3. n \in Tuple /\ d \in Nat \ {0}
  <2> HIDE DEF z
  <2>1. z \in DwValue
    BY <1>2, CanonicalFacts
  <2>2. Element(z) \in Fraction /\ Element(z).n = n /\ Element(z).d = d
    BY <2>1, ElementFields DEF Element
  <2> QED BY <2>2, FractionFields
<1>4. roundedDivide(p, q) = Rounded(n, d)
  BY DEF roundedDivide, NearestIntegral
<1> HIDE DEF z, n, d
<1> DEFINE r == <<roundRatio(n[1], d), roundRatio(n[2], d), roundRatio(n[3], d), roundRatio(n[4], d)>>
<1>5. r \in Tuple
  <2>1. n[1] \in Int /\ n[2] \in Int /\ n[3] \in Int /\ n[4] \in Int
    BY <1>3, Components
  <2>2. /\ roundRatio(n[1], d) \in Int /\ roundRatio(n[2], d) \in Int
        /\ roundRatio(n[3], d) \in Int /\ roundRatio(n[4], d) \in Int
    BY <1>3, <2>1, RoundingIsNearest
  <2> QED BY <2>2 DEF Tuple
<1>6. Rounded(n, d) = canonicalize(r, 0, 1)
  BY DEF Rounded, Integral
<1> HIDE DEF r
<1> QED BY <1>4, <1>5, <1>6, RingValue
-----------------------------------------------------------------------------
(***************************************************************************)
(* The values 0 and 1.                                                     *)
(***************************************************************************)
LEMMA OneAndZero ==
    ASSUME NEW z, Canonical(z)
    PROVE  /\ Multiply(z, One) = z /\ Multiply(Zero, z) = Zero /\ Multiply(z, Zero) = Zero
           /\ isZero(z) <=> z = Zero
           /\ RingElement(Zero) /\ RingElement(One) /\ One # Zero
<1>1. Zero.t = ZeroTuple /\ Zero # One /\ Zero.e = 1 /\ One.e = 1
  <2>1. Zero.t[1] = 0 /\ One.t[1] = 1
    BY DEF Zero, One, ZeroTuple
  <2> QED BY <2>1 DEF Zero, One
<1>2. isZero(z) <=> z = Zero
  BY <1>1 DEF Canonical, isZero
<1> QED BY <1>1, <1>2, Constants DEF Multiply, isOne, isZero, RingElement

-----------------------------------------------------------------------------
(***************************************************************************)
(* Associates.                                                             *)
(***************************************************************************)
Unit(u) == RingElement(u) /\ \E v : RingElement(v) /\ Multiply(u, v) = One

Associate(y, z) == \E u : Unit(u) /\ y = Multiply(z, u)

\* A value with exponent 0.
LEMMA IntegralValue ==
    ASSUME NEW p \in Tuple
    PROVE  Value(p, 0, 1) \in Fraction /\ Value(p, 0, 1).n = p /\ Value(p, 0, 1).d = 1
<1>1. 0 \in Nat /\ 1 \in Nat \ {0} /\ Pow2[0] = 1 /\ scaleUp(p, 0) = p /\ 1 * 1 = 1
  BY Pow2Def, ScaleUpStep
<1>2. /\ Value(p, 0, 1) \in Fraction /\ Value(p, 0, 1).n = scaleUp(p, 0)
      /\ Value(p, 0, 1).d = Pow2[0] * 1
  BY <1>1, ValueFields
<1> QED BY <1>1, <1>2

\* Such values multiply by their tuples.
LEMMA IntegralProduct ==
    ASSUME NEW p \in Tuple, NEW q \in Tuple
    PROVE  F!Product(Value(p, 0, 1), Value(q, 0, 1)) = Value(mulTuple(p, q), 0, 1)
<1>1. 0 \in Nat /\ 1 \in Nat \ {0} /\ 0 + 0 = 0 /\ 1 * 1 = 1
  OBVIOUS
<1>2. F!Product(Value(p, 0, 1), Value(q, 0, 1)) = Value(mulTuple(p, q), 0 + 0, 1 * 1)
  BY <1>1, ProductOfValues
<1> QED BY <1>1, <1>2

\* A tuple with an inverse tuple is a unit.
LEMMA IntegralUnit ==
    ASSUME NEW p \in Tuple, NEW q \in Tuple, mulTuple(p, q) = <<1, 0, 0, 0>>
    PROVE  /\ Unit(Integral(p)) /\ RingElement(Integral(q))
           /\ Multiply(Integral(p), Integral(q)) = One
<1>1. RingElement(Integral(p)) /\ RingElement(Integral(q))
  BY RingValue DEF Integral
<1>2. Denotes(Integral(p), Value(p, 0, 1)) /\ Denotes(Integral(q), Value(q, 0, 1))
  BY DenotesValue DEF Integral
<1>3. F!Product(Value(p, 0, 1), Value(q, 0, 1)) = Value(<<1, 0, 0, 0>>, 0, 1)
  BY IntegralProduct
<1>4. Denotes(Multiply(Integral(p), Integral(q)), Value(<<1, 0, 0, 0>>, 0, 1))
  BY <1>2, <1>3, DenotesProduct
<1>5. Denotes(One, Value(<<1, 0, 0, 0>>, 0, 1))
  BY Constants, DenotesElement, ElementFields DEF One
<1>6. Multiply(Integral(p), Integral(q)) = One
  BY <1>4, <1>5, DenotesUnique
<1> QED BY <1>1, <1>6 DEF Unit

\* The constants that reduceNorm and lexicographicalMinimum multiply by are
\* units.
LEMMA UnitsOfTheRing ==
    Unit(omega) /\ Unit(iUnit) /\ Unit(unit) /\ Unit(unitInv) /\ Unit(One) /\ Unit(Negate(One))
<1>1. /\ <<0, 1, 0, 0>> \in Tuple /\ <<0, 0, 0, -1>> \in Tuple /\ <<1, 1, 0, -1>> \in Tuple
      /\ <<-1, 1, 0, -1>> \in Tuple /\ <<-1, 0, 0, 0>> \in Tuple /\ <<1, 0, 0, 0>> \in Tuple
      /\ <<0, 0, 1, 0>> \in Tuple /\ <<0, 0, -1, 0>> \in Tuple /\ <<0, 1, 0, -1>> \in Tuple
  BY DEF Tuple
<1>2. Unit(omega)
  BY <1>1, IntegralUnit DEF omega, mulTuple
<1>3. Unit(One)
  BY Constants, OneAndZero DEF Unit
<1>4. Unit(Negate(One))
  <2>1. Negate(One) = Integral(<<-1, 0, 0, 0>>)
    BY DEF Negate, Integral, One, Scale
  <2> QED BY <1>1, <2>1, IntegralUnit DEF mulTuple
<1>5. iUnit = Integral(<<0, 0, 1, 0>>)
  <2>1. Denotes(omega, Value(<<0, 1, 0, 0>>, 0, 1))
    BY <1>1, DenotesValue DEF omega, Integral
  <2>2. F!Product(Value(<<0, 1, 0, 0>>, 0, 1), Value(<<0, 1, 0, 0>>, 0, 1))
           = Value(<<0, 0, 1, 0>>, 0, 1)
    <3>1. mulTuple(<<0, 1, 0, 0>>, <<0, 1, 0, 0>>) = <<0, 0, 1, 0>>
      BY DEF mulTuple
    <3> QED BY <1>1, <3>1, IntegralProduct
  <2>3. Denotes(iUnit, Value(<<0, 0, 1, 0>>, 0, 1))
    BY <2>1, <2>2, DenotesProduct DEF iUnit
  <2>4. Denotes(Integral(<<0, 0, 1, 0>>), Value(<<0, 0, 1, 0>>, 0, 1))
    BY <1>1, DenotesValue DEF Integral
  <2> QED BY <2>3, <2>4, DenotesUnique
<1>6. Unit(iUnit)
  BY <1>1, <1>5, IntegralUnit DEF mulTuple
<1>7. unit = Integral(<<1, 1, 0, -1>>)
  <2> DEFINE s == Value(<<0, 1, 0, -1>>, 0, 1)
             o == Value(<<1, 0, 0, 0>>, 0, 1)
             t == Value(<<1, 1, 0, -1>>, 0, 1)
  <2>1. Denotes(sqrt2, s)
    BY <1>1, DenotesValue DEF sqrt2, Integral
  <2>2. Denotes(One, o)
    BY Constants, DenotesElement, ElementFields DEF One
  <2>3. /\ s \in Fraction /\ s.n = <<0, 1, 0, -1>> /\ s.d = 1
        /\ o \in Fraction /\ o.n = <<1, 0, 0, 0>> /\ o.d = 1
        /\ t \in Fraction /\ t.n = <<1, 1, 0, -1>> /\ t.d = 1
    <3> QED BY <1>1, IntegralValue
  <2> HIDE DEF s, o, t
  <2>4. F!Sum(s, o) \in Fraction /\ F!Sum(s, o).n = <<1, 1, 0, -1>> /\ F!Sum(s, o).d = 1
    <3>1. Plus(Scale(1, <<0, 1, 0, -1>>), Scale(1, <<1, 0, 0, 0>>)) = <<1, 1, 0, -1>>
      BY DEF Plus, Scale
    <3> QED BY <2>3, <3>1, FieldClosure
  <2>5. F!Sum(s, o) = t
    BY <2>3, <2>4, FractionFields
  <2>6. Denotes(unit, t)
    BY <2>1, <2>2, <2>5, DenotesSum DEF unit
  <2>7. Denotes(Integral(<<1, 1, 0, -1>>), t)
    BY <1>1, DenotesValue DEF t, Integral
  <2> QED BY <2>6, <2>7, DenotesUnique
<1> DEFINE v == Integral(<<-1, 1, 0, -1>>)
<1>8. Unit(unit) /\ Unit(v) /\ Multiply(unit, v) = One
  BY <1>1, <1>7, IntegralUnit DEF mulTuple
<1>9. unitInv = v
  <2>1. Canonical(unit) /\ Canonical(v)
    BY <1>8 DEF Unit, RingElement
  <2> HIDE DEF v
  <2>2. ~isZero(unit)
    BY <1>8, <2>1, OneAndZero
  <2>3. Canonical(inverse(unit)) /\ Multiply(inverse(unit), unit) = One
    BY <2>1, <2>2, InverseTimes
  <2>4. Multiply(Multiply(inverse(unit), unit), v) = Multiply(inverse(unit), Multiply(unit, v))
    BY <2>1, <2>3, TimesAssociates
  <2> QED BY <1>8, <2>1, <2>3, <2>4, OneAndZero, TimesOne DEF unitInv
<1> QED BY <1>2, <1>3, <1>4, <1>6, <1>8, <1>9

\* An associate is in D[w].
LEMMA AssociateInRing ==
    ASSUME NEW z, NEW y, RingElement(z), Associate(y, z)
    PROVE  RingElement(y)
BY RingClosure DEF Associate, Unit

\* Every element is its own associate.
LEMMA AssociateItself ==
    ASSUME NEW z, RingElement(z)
    PROVE  Associate(z, z)
<1>1. Multiply(z, One) = z
  BY OneAndZero DEF RingElement
<1> QED BY <1>1, UnitsOfTheRing DEF Associate

\* Units multiply to units.
LEMMA UnitProducts ==
    ASSUME NEW s, NEW t, Unit(s), Unit(t)
    PROVE  Unit(Multiply(s, t))
<1>1. PICK u : RingElement(u) /\ Multiply(s, u) = One
  BY DEF Unit
<1>2. PICK v : RingElement(v) /\ Multiply(t, v) = One
  BY DEF Unit
<1>3. /\ RingElement(s) /\ RingElement(t) /\ Canonical(s) /\ Canonical(t)
      /\ Canonical(u) /\ Canonical(v)
  BY <1>1, <1>2 DEF Unit, RingElement
<1>4. RingElement(Multiply(s, t)) /\ RingElement(Multiply(v, u)) /\ Canonical(Multiply(v, u))
  BY <1>1, <1>2, <1>3, RingClosure DEF RingElement
<1>5. Multiply(Multiply(s, t), Multiply(v, u)) = Multiply(s, Multiply(t, Multiply(v, u)))
  BY <1>3, <1>4, TimesAssociates
<1>6. Multiply(t, Multiply(v, u)) = Multiply(Multiply(t, v), u)
  BY <1>3, TimesAssociates
<1>7. Multiply(One, u) = u
  BY TimesOne
<1>8. Multiply(Multiply(s, t), Multiply(v, u)) = One
  BY <1>1, <1>2, <1>5, <1>6, <1>7
<1> QED BY <1>4, <1>8 DEF Unit

\* Associates of associates are associates.
LEMMA AssociateTransitive ==
    ASSUME NEW z, NEW y, NEW x, RingElement(z), Associate(y, z), Associate(x, y)
    PROVE  Associate(x, z)
<1>1. PICK u : Unit(u) /\ y = Multiply(z, u)
  BY DEF Associate
<1>2. PICK v : Unit(v) /\ x = Multiply(y, v)
  BY DEF Associate
<1>3. x = Multiply(z, Multiply(u, v))
  BY <1>1, <1>2, TimesAssociates DEF Unit, RingElement
<1> QED BY <1>1, <1>2, <1>3, UnitProducts DEF Associate

\* The opposite is an associate.
LEMMA AssociateOpposite ==
    ASSUME NEW z, RingElement(z)
    PROVE  Associate(Negate(z), z)
<1>1. Canonical(z) /\ Canonical(One) /\ Canonical(Negate(One))
  BY Constants, UnitsOfTheRing DEF Unit, RingElement
<1>2. Multiply(Negate(One), z) = Negate(Multiply(One, z))
  BY <1>1, NegateTimes
<1>3. Multiply(z, Negate(One)) = Multiply(Negate(One), z)
  BY <1>1, TimesCommutes
<1> QED BY <1>2, <1>3, TimesOne, UnitsOfTheRing DEF Associate

\* A turn of reduceNorm, and the choice at its end, are multiplications by units.
LEMMA ReducedIsAssociate ==
    ASSUME NEW z, RingElement(z)
    PROVE  Associate(reduced(z), z)
<1>1. reduced(z) = z \/ reduced(z) = Multiply(z, unit) \/ reduced(z) = Multiply(z, unitInv)
  BY DEF reduced, LeastOf, LeastNorm
<1> QED BY <1>1, AssociateItself, UnitsOfTheRing DEF Associate

\* lexicographicalMinimum chooses an associate.
LEMMA MinimumIsAssociate ==
    ASSUME NEW z, RingElement(z)
    PROVE  Associate(lexicographicalMinimum(z), z)
<1> DEFINE b == Multiply(z, omega)
           c == Multiply(z, iUnit)
           d == Multiply(c, omega)
           m == Lesser(Lesser(Lesser(z, b), c), d)
<1>1. Associate(z, z) /\ Associate(b, z) /\ Associate(c, z)
  BY AssociateItself, UnitsOfTheRing DEF Associate
<1>2. RingElement(c)
  BY <1>1, AssociateInRing
<1>3. Associate(d, z)
  <2> HIDE DEF c
  <2>1. Associate(d, c)
    BY UnitsOfTheRing DEF Associate
  <2> QED BY <1>1, <2>1, AssociateTransitive
<1>4. lexicographicalMinimum(z) = WithPositiveD(m)
  BY DEF lexicographicalMinimum
<1> HIDE DEF b, c, d
<1>5. m = z \/ m = b \/ m = c \/ m = d
  BY DEF Lesser
<1> HIDE DEF m
<1>6. Associate(m, z) /\ RingElement(m)
  BY <1>1, <1>3, <1>5, AssociateInRing
<1>7. WithPositiveD(m) = m \/ WithPositiveD(m) = Negate(m)
  BY DEF WithPositiveD
<1>8. Associate(Negate(m), z)
  BY <1>6, AssociateOpposite, AssociateTransitive
<1> QED BY <1>4, <1>6, <1>7, <1>8
-----------------------------------------------------------------------------
(***************************************************************************)
(* The norm over the integers, x^2 - 2 y^2: it is multiplicative, and      *)
(* what division with rounding leaves of a quotient has a norm of at most  *)
(* 9/16.                                                                   *)
(***************************************************************************)
FieldNorm(p) == normX(p) * normX(p) - 2 * normY(p) * normY(p)

\* The norm of integral coefficients is an integer and not negative.
LEMMA NormInt ==
    ASSUME NEW p \in Tuple
    PROVE  normX(p) \in Int /\ normY(p) \in Int /\ FieldNorm(p) \in Nat
<1>1. normX(p) \in Int /\ normY(p) \in Int
  BY Components DEF normX, normY
<1>2. FieldNorm(p) >= 0
  BY InverseDenominatorSign DEF FieldNorm
<1>3. FieldNorm(p) \in Int
  BY <1>1 DEF FieldNorm
<1> QED BY <1>1, <1>2, <1>3

\* The norm is multiplicative.
LEMMA NormOfTuples ==
    ASSUME NEW p \in Tuple, NEW q \in Tuple
    PROVE  FieldNorm(mulTuple(p, q)) = FieldNorm(p) * FieldNorm(q)
<1> DEFINE m == mulTuple(p, q)
           x == normX(p)
           y == normY(p)
           u == normX(q)
           v == normY(q)
           X == normX(m)
           Y == normY(m)
<1>1. m \in Tuple /\ ConjTuple(p) \in Tuple /\ ConjTuple(q) \in Tuple
  BY TupleClosure
<1>2. mulTuple(m, ConjTuple(m)) = mulTuple(mulTuple(p, ConjTuple(p)), mulTuple(q, ConjTuple(q)))
  BY <1>1, ConjugateProduct, TuplesRegroup
<1> HIDE DEF m
<1>3. <<X, Y, 0, -Y>> = mulTuple(<<x, y, 0, -y>>, <<u, v, 0, -v>>)
  BY <1>1, <1>2, NormTuple
<1>4. x \in Int /\ y \in Int /\ u \in Int /\ v \in Int /\ X \in Int /\ Y \in Int
  BY <1>1, NormInt
<1> HIDE DEF x, y, u, v, X, Y
<1>5. X = x * u + 2 * (y * v) /\ Y = x * v + y * u
  <2>1. mulTuple(<<x, y, 0, -y>>, <<u, v, 0, -v>>)[1] = x * u - y * (-v) - 0 * 0 - (-y) * v
    BY DEF mulTuple
  <2>2. mulTuple(<<x, y, 0, -y>>, <<u, v, 0, -v>>)[2] = x * v + y * u - 0 * (-v) - (-y) * 0
    BY DEF mulTuple
  <2>3. X = x * u - y * (-v) - 0 * 0 - (-y) * v /\ Y = x * v + y * u - 0 * (-v) - (-y) * 0
    BY <1>3, <2>1, <2>2
  <2>4. x * u \in Int /\ y * v \in Int /\ x * v \in Int /\ y * u \in Int
    BY <1>4
  <2> QED BY <1>4, <2>3, <2>4
<1>6. (x * u + 2 * (y * v)) * (x * u + 2 * (y * v)) - 2 * (x * v + y * u) * (x * v + y * u)
         = (x * x - 2 * y * y) * (u * u - 2 * v * v)
  BY <1>4
<1>7. FieldNorm(m) = (x * x - 2 * y * y) * (u * u - 2 * v * v)
  BY <1>5, <1>6 DEF FieldNorm, X, Y
<1> QED BY <1>7 DEF FieldNorm, m, x, y, u, v

\* The norm of an integer multiple.
LEMMA NormOfScale ==
    ASSUME NEW n \in Int, NEW p \in Tuple
    PROVE  FieldNorm(Scale(n, p)) = ((n * n) * (n * n)) * FieldNorm(p)
<1> DEFINE s == n * n
           x == normX(p)
           y == normY(p)
<1>1. normX(Scale(n, p)) = s * x /\ normY(Scale(n, p)) = s * y
  BY Components, SMTT(30) DEF normX, normY, Scale
<1>2. s \in Int /\ x \in Int /\ y \in Int
  BY NormInt
<1>3. FieldNorm(Scale(n, p)) = (s * x) * (s * x) - 2 * (s * y) * (s * y)
  BY <1>1 DEF FieldNorm
<1>4. FieldNorm(p) = x * x - 2 * y * y
  BY DEF FieldNorm
<1> HIDE DEF s, x, y
<1>5. (s * x) * (s * x) - 2 * (s * y) * (s * y) = (s * s) * (x * x - 2 * y * y)
  BY <1>2
<1> QED BY <1>3, <1>4, <1>5 DEF s

\* The norm of sqrt(2)^k times a tuple.
LEMMA NormOfScaleUp ==
    ASSUME NEW p \in Tuple, NEW k \in Nat
    PROVE  FieldNorm(scaleUp(p, k)) = Pow2[2 * k] * FieldNorm(p)
<1> DEFINE S == {n \in Nat : FieldNorm(scaleUp(p, n)) = Pow2[2 * n] * FieldNorm(p)}
<1>1. 0 \in S
  <2>1. 2 * 0 = 0 /\ 0 \in Nat
    OBVIOUS
  <2>2. scaleUp(p, 0) = p /\ Pow2[0] = 1 /\ FieldNorm(p) \in Nat
    BY ScaleUpStep, Pow2Def, NormInt
  <2> QED BY <2>1, <2>2
<1>2. ASSUME NEW n \in Nat, n \in S PROVE n + 1 \in S
  <2> DEFINE q == scaleUp(p, n)
             w == Pow2[2 * n]
             f == FieldNorm(p)
  <2>1. q \in Tuple /\ scaleUp(p, n + 1) = TimesSqrt2(q)
    BY ScaleUpStep
  <2>2. FieldNorm(TimesSqrt2(q)) = 4 * FieldNorm(q)
    <3>1. TimesSqrt2(q) = mulTuple(<<0, 1, 0, -1>>, q) /\ <<0, 1, 0, -1>> \in Tuple
      <4>1. <<0, 1, 0, -1>> \in Tuple
        BY DEF Tuple
      <4> HIDE DEF q
      <4> QED BY <2>1, <4>1, ScaleUpTwice, MulTupleCommutes
    <3>2. FieldNorm(<<0, 1, 0, -1>>) = 4
      BY DEF FieldNorm, normX, normY
    <3> HIDE DEF q
    <3> QED BY <2>1, <3>1, <3>2, NormOfTuples
  <2>3. Pow2[2 * (n + 1)] = 4 * w /\ w \in Int
    <3>1. 2 * (n + 1) \in Nat /\ 2 * n + 1 \in Nat /\ 2 * n \in Nat
      OBVIOUS
    <3>2. Pow2[2 * (n + 1)] = 2 * Pow2[2 * n + 1] /\ Pow2[2 * n + 1] = 2 * Pow2[2 * n]
      <4>1. (2 * (n + 1)) - 1 = 2 * n + 1 /\ (2 * n + 1) - 1 = 2 * n
        OBVIOUS
      <4>2. 2 * (n + 1) # 0 /\ 2 * n + 1 # 0
        OBVIOUS
      <4>3. Pow2[2 * (n + 1)] = 2 * Pow2[(2 * (n + 1)) - 1]
        BY <3>1, <4>2, Pow2Def
      <4>4. Pow2[2 * n + 1] = 2 * Pow2[(2 * n + 1) - 1]
        BY <3>1, <4>2, Pow2Def
      <4> QED BY <4>1, <4>3, <4>4
    <3>3. w \in Int
      BY <3>1, Pow2Def
    <3> QED BY <3>2, <3>3
  <2>4. FieldNorm(q) = w * f /\ f \in Int
    BY <1>2, NormInt
  <2> HIDE DEF q, w, f
  <2>5. 4 * (w * f) = (4 * w) * f
    BY <2>3, <2>4
  <2> QED BY <2>1, <2>2, <2>3, <2>4, <2>5 DEF f
<1> HIDE DEF S
<1>3. Nat \subseteq S
  BY <1>1, <1>2, SetInduction
<1> QED BY <1>3 DEF S

\* A product is at most the product of the bounds.
LEMMA ProductBound ==
    ASSUME NEW s \in Int, NEW t \in Int, NEW d \in Nat, Abs(s) <= d
    PROVE  s * t <= d * Abs(t)
<1>1. CASE t >= 0
  <2>1. s <= d /\ Abs(t) = t
    BY <1>1 DEF Abs
  <2>2. (d - s) * t >= 0
    BY <1>1, <2>1
  <2>3. (d - s) * t = d * t - s * t
    OBVIOUS
  <2> QED BY <2>1, <2>2, <2>3
<1>2. CASE t < 0
  <2>1. -s <= d /\ Abs(t) = -t
    BY <1>2 DEF Abs
  <2>2. (d + s) * (-t) >= 0
    BY <1>2, <2>1
  <2>3. (d + s) * (-t) = d * (-t) - s * t
    OBVIOUS
  <2> QED BY <2>1, <2>2, <2>3
<1> QED BY <1>1, <1>2

\* The square of a number of bounded size.
LEMMA SquareBound ==
    ASSUME NEW s \in Int, NEW d \in Nat, Abs(s) <= d
    PROVE  0 <= s * s /\ s * s <= d * d
<1>1. s * s <= d * Abs(s) /\ Abs(s) \in Nat
  BY ProductBound DEF Abs
<1>2. Abs(s) * d <= d * d
  <2>1. (d - Abs(s)) * d >= 0 /\ (d - Abs(s)) * d = d * d - Abs(s) * d
    BY <1>1
  <2> QED BY <1>1, <2>1
<1>3. d * Abs(s) = Abs(s) * d /\ 0 <= s * s
  BY <1>1
<1> QED BY <1>1, <1>2, <1>3

(***************************************************************************)
(* With s = b^2 + d^2 and t = a^2 + c^2, the norm is (s - t)^2 + 2 h^2,    *)
(* and y^2 + h^2 = 2 s t (see InverseDenominatorSign).  If s and t are     *)
(* small, the norm is bounded by (s + t)^2; if both are large, they cannot *)
(* differ by much.                                                         *)
(***************************************************************************)
LEMMA BoundOfSquares ==
    ASSUME NEW s \in Nat, NEW t \in Nat, NEW h \in Nat, NEW e \in Nat \ {0},
           2 * s <= e, 2 * t <= e, h <= 2 * (s * t), 4 * h <= e * e
    PROVE  16 * ((s - t) * (s - t) + 2 * h) <= 9 * (e * e)
<1>1. s * t \in Nat /\ e * e \in Nat
  OBVIOUS
<1>2. CASE 8 * (s * t) <= e * e
  <2>1. (e - 2 * s) * (e - 2 * t) >= 0
    OBVIOUS
  <2>2. (e - 2 * s) * (e - 2 * t) = (e * e - 2 * (e * (s + t))) + 4 * (s * t)
    OBVIOUS
  <2>3. 4 * (e * (s + t)) <= 3 * (e * e)
    BY <1>1, <1>2, <2>1, <2>2
  <2>4. e * (3 * e - 4 * (s + t)) >= 0
    BY <2>3
  <2>5. 3 * e - 4 * (s + t) >= 0
    <3> DEFINE x == 3 * e - 4 * (s + t)
    <3>1. x \in Int /\ e * x >= 0
      BY <2>4
    <3> HIDE DEF x
    <3>2. ASSUME x <= -1 PROVE FALSE
      <4>1. e * (-1 - x) >= 0 /\ e * (-1 - x) = -e - e * x
        BY <3>1, <3>2
      <4> QED BY <3>1, <4>1
    <3>3. x >= 0
      BY <3>1, <3>2
    <3> QED BY <3>3 DEF x
  <2>6. (4 * (s + t)) * (4 * (s + t)) <= (3 * e) * (3 * e)
    <3> DEFINE u == 4 * (s + t)
               v == 3 * e
    <3>1. u \in Nat /\ v \in Nat /\ Abs(u) <= v
      BY <2>5 DEF Abs
    <3> HIDE DEF u, v
    <3>2. u * u <= v * v
      BY <3>1, SquareBound
    <3> QED BY <3>2 DEF u, v
  <2>7. (4 * (s + t)) * (4 * (s + t)) = 16 * ((s - t) * (s - t) + 4 * (s * t))
    OBVIOUS
  <2>8. (3 * e) * (3 * e) = 9 * (e * e)
    OBVIOUS
  <2> DEFINE f == (s - t) * (s - t)
  <2>9. f \in Int
    OBVIOUS
  <2> HIDE DEF f
  <2>10. 16 * (f + 4 * (s * t)) <= 9 * (e * e)
    BY <2>6, <2>7, <2>8 DEF f
  <2>11. 16 * (f + 2 * h) <= 9 * (e * e)
    BY <1>1, <2>9, <2>10
  <2> QED BY <2>11 DEF f
<1>3. CASE 8 * (s * t) > e * e
  <2>1. (e - 2 * s) * t >= 0 /\ (e - 2 * s) * t = e * t - 2 * (s * t)
    OBVIOUS
  <2>2. (e - 2 * t) * s >= 0 /\ (e - 2 * t) * s = e * s - 2 * (s * t)
    OBVIOUS
  <2>3. 4 * (e * t) > e * e /\ 4 * (e * s) > e * e
    <3>1. e * t \in Nat /\ e * s \in Nat
      OBVIOUS
    <3> QED BY <1>1, <1>3, <2>1, <2>2, <3>1
  <2>4. ASSUME NEW x \in Nat, 4 * (e * x) > e * e PROVE 4 * x > e
    <3>1. ASSUME 4 * x <= e PROVE FALSE
      <4>1. e * (e - 4 * x) >= 0 /\ e * (e - 4 * x) = e * e - 4 * (e * x)
        BY <3>1
      <4>2. e * x \in Nat
        OBVIOUS
      <4> QED BY <1>1, <2>4, <4>1, <4>2
    <3> QED BY <3>1
  <2>5. 4 * t > e /\ 4 * s > e
    BY <2>3, <2>4
  <2>6. Abs(4 * (s - t)) <= e
    BY <2>5 DEF Abs
  <2>7. (4 * (s - t)) * (4 * (s - t)) <= e * e
    <3> DEFINE u == 4 * (s - t)
    <3>1. u \in Int /\ Abs(u) <= e
      BY <2>6
    <3> HIDE DEF u
    <3>2. u * u <= e * e
      BY <3>1, SquareBound
    <3> QED BY <3>2 DEF u
  <2>8. (4 * (s - t)) * (4 * (s - t)) = 16 * ((s - t) * (s - t))
    OBVIOUS
  <2> DEFINE f == (s - t) * (s - t)
  <2>9. f \in Int
    OBVIOUS
  <2> HIDE DEF f
  <2>10. 16 * f <= e * e
    BY <2>7, <2>8 DEF f
  <2>11. 16 * (f + 2 * h) <= 9 * (e * e)
    BY <1>1, <2>9, <2>10
  <2> QED BY <2>11 DEF f
<1> QED BY <1>1, <1>2, <1>3

\* Coefficients of at most one half have a norm of at most 9/16.
LEMMA NormOfRounding ==
    ASSUME NEW p \in Tuple, NEW n \in Nat \ {0},
           2 * Abs(p[1]) <= n, 2 * Abs(p[2]) <= n, 2 * Abs(p[3]) <= n, 2 * Abs(p[4]) <= n
    PROVE  16 * FieldNorm(p) <= 9 * ((n * n) * (n * n))
<1> DEFINE a == p[1]
           b == p[2]
           c == p[3]
           d == p[4]
           e == n * n
           s == b * b + d * d
           t == a * a + c * c
           y == normY(p)
           h == b * (c - a) - d * (a + c)
<1>1. /\ a \in Int /\ b \in Int /\ c \in Int /\ d \in Int /\ e \in Nat \ {0} /\ y \in Int
      /\ 2 * Abs(a) <= n /\ 2 * Abs(b) <= n /\ 2 * Abs(c) <= n /\ 2 * Abs(d) <= n
  <2>1. n * n \in Nat \ {0}
    OBVIOUS
  <2> QED BY <2>1, Components, NormInt
<1>2. normX(p) = s + t /\ y * y + h * h = 2 * (s * t)
  <2>1. normX(p) = a * a + b * b + c * c + d * d /\ y = a * b + b * c + c * d - a * d
    BY DEF normX, normY
  <2> HIDE DEF y, e, a, b, c, d
  <2>2. normX(p) = s + t
    BY <1>1, <2>1
  <2>3. y * y + h * h = 2 * (s * t)
    BY <1>1, <2>1
  <2> QED BY <2>2, <2>3
<1> HIDE DEF y, e, a, b, c, d
<1>3. ASSUME NEW u \in Int, 2 * Abs(u) <= n
      PROVE  u * u \in Nat /\ 4 * (u * u) <= e
  <2>1. Abs(2 * u) <= n /\ 2 * u \in Int
    BY <1>3 DEF Abs
  <2>2. (2 * u) * (2 * u) <= n * n
    BY <2>1, SquareBound
  <2>3. (2 * u) * (2 * u) = 4 * (u * u) /\ u * u >= 0
    OBVIOUS
  <2> QED BY <2>2, <2>3 DEF e
<1>4. s \in Nat /\ t \in Nat /\ 2 * s <= e /\ 2 * t <= e
  <2>1. /\ a * a \in Nat /\ 4 * (a * a) <= e /\ b * b \in Nat /\ 4 * (b * b) <= e
        /\ c * c \in Nat /\ 4 * (c * c) <= e /\ d * d \in Nat /\ 4 * (d * d) <= e
    BY <1>1, <1>3
  <2> DEFINE aa == a * a
             bb == b * b
             cc == c * c
             dd == d * d
  <2> HIDE DEF aa, bb, cc, dd
  <2>2. s = bb + dd /\ t = aa + cc
    BY DEF aa, bb, cc, dd
  <2>3. /\ aa \in Nat /\ 4 * aa <= e /\ bb \in Nat /\ 4 * bb <= e
        /\ cc \in Nat /\ 4 * cc <= e /\ dd \in Nat /\ 4 * dd <= e
    BY <2>1 DEF aa, bb, cc, dd
  <2> QED BY <1>1, <2>2, <2>3
<1>5. h \in Int /\ Abs(2 * h) <= e
  <2> DEFINE f == c - a
             g == a + c
  <2>1. f \in Int /\ g \in Int /\ Abs(f) + Abs(g) <= n /\ Abs(f) \in Nat /\ Abs(g) \in Nat
    BY <1>1 DEF Abs
  <2>2. /\ 2 * b \in Int /\ Abs(2 * b) <= n /\ -(2 * b) \in Int /\ Abs(-(2 * b)) <= n
        /\ 2 * d \in Int /\ Abs(2 * d) <= n /\ -(2 * d) \in Int /\ Abs(-(2 * d)) <= n
    BY <1>1 DEF Abs
  <2>3. n * Abs(f) + n * Abs(g) <= n * n
    <3> DEFINE i == Abs(f)
               j == Abs(g)
    <3>1. i \in Nat /\ j \in Nat /\ i + j <= n
      BY <2>1
    <3> HIDE DEF i, j
    <3>2. n * (n - (i + j)) >= 0 /\ n * (n - (i + j)) = n * n - (n * i + n * j)
      BY <3>1
    <3>3. n * i + n * j <= n * n
      BY <3>1, <3>2
    <3> QED BY <3>3 DEF i, j
  <2>4. h = b * f - d * g
    OBVIOUS
  <2> HIDE DEF f, g, h
  <2>5. /\ (2 * b) * f <= n * Abs(f) /\ (-(2 * b)) * f <= n * Abs(f)
        /\ (2 * d) * g <= n * Abs(g) /\ (-(2 * d)) * g <= n * Abs(g)
    BY <2>1, <2>2, ProductBound
  <2> DEFINE u == b * f
             v == d * g
             i == n * Abs(f)
             j == n * Abs(g)
  <2>6. /\ (2 * b) * f = 2 * u /\ (-(2 * b)) * f = -(2 * u)
        /\ (2 * d) * g = 2 * v /\ (-(2 * d)) * g = -(2 * v)
    BY <1>1, <2>1
  <2>7. u \in Int /\ v \in Int /\ i \in Int /\ j \in Int
    BY <1>1, <2>1
  <2>8. h = u - v /\ i + j <= e
    BY <2>3, <2>4 DEF e
  <2>9. 2 * u <= i /\ -(2 * u) <= i /\ 2 * v <= j /\ -(2 * v) <= j
    BY <2>5, <2>6
  <2> HIDE DEF u, v, i, j
  <2> QED BY <1>1, <2>7, <2>8, <2>9 DEF Abs
<1> HIDE DEF s, t, h
<1>6. h * h \in Nat /\ y * y \in Nat /\ h * h <= 2 * (s * t)
  <2>1. \A i \in Int : i * i \in Nat
    OBVIOUS
  <2>2. h * h \in Nat /\ y * y \in Nat /\ s * t \in Int
    BY <1>1, <1>4, <1>5, <2>1
  <2> DEFINE hh == h * h
             yy == y * y
             st == s * t
  <2>3. hh \in Nat /\ yy \in Nat /\ st \in Int /\ yy + hh = 2 * st
    BY <1>2, <2>2
  <2> HIDE DEF hh, yy, st
  <2>4. hh <= 2 * st
    BY <2>3
  <2> QED BY <2>2, <2>4 DEF hh, st
<1>7. 4 * (h * h) <= e * e
  <2>1. (2 * h) * (2 * h) <= e * e
    <3> DEFINE i == 2 * h
    <3>1. i \in Int /\ Abs(i) <= e /\ e \in Nat
      BY <1>1, <1>5
    <3> HIDE DEF i
    <3>2. i * i <= e * e
      BY <3>1, SquareBound
    <3> QED BY <3>2 DEF i
  <2>2. (2 * h) * (2 * h) = 4 * (h * h)
    BY <1>5
  <2> QED BY <2>1, <2>2
<1> DEFINE H == h * h
<1>8. 16 * ((s - t) * (s - t) + 2 * H) <= 9 * (e * e)
  <2>1. H \in Nat /\ H <= 2 * (s * t) /\ 4 * H <= e * e
    BY <1>6, <1>7
  <2> HIDE DEF H
  <2> QED BY <1>1, <1>4, <2>1, BoundOfSquares
<1>9. FieldNorm(p) = (s - t) * (s - t) + 2 * H
  <2>1. FieldNorm(p) = (s + t) * (s + t) - 2 * y * y
    BY <1>2 DEF FieldNorm, y
  <2>2. (s + t) * (s + t) - 2 * y * y = (s - t) * (s - t) + 2 * (h * h)
    BY <1>1, <1>2, <1>4, <1>5
  <2> QED BY <2>1, <2>2
<1> QED BY <1>8, <1>9 DEF e
-----------------------------------------------------------------------------
(***************************************************************************)
(* The remainder is what rounding leaves of the quotient, times the        *)
(* divisor.                                                                *)
(***************************************************************************)
LEMMA RemainderIsProduct ==
    ASSUME NEW a, NEW b, Canonical(a), Canonical(b), ~isZero(b)
    PROVE  /\ Canonical(Multiply(a, inverse(b))) /\ RingElement(roundedDivide(a, b))
           /\ remainder(a, b)
                 = Multiply(Subtract(Multiply(a, inverse(b)), roundedDivide(a, b)), b)
<1> DEFINE i == inverse(b)
           z == Multiply(a, i)
           q == roundedDivide(a, b)
<1>1. Canonical(a) /\ Canonical(b) /\ Canonical(i) /\ Multiply(i, b) = One
  BY InverseTimes DEF RingElement
<1>2. RingElement(q) /\ Canonical(q)
  <2>1. RingElement(q)
    BY <1>1, RoundedInRing
  <2> QED BY <2>1 DEF RingElement
<1>3. remainder(a, b) = Subtract(a, Multiply(q, b))
  BY DEF remainder
<1> HIDE DEF i, q
<1>4. Canonical(z) /\ Multiply(z, b) = a
  <2>1. Canonical(z)
    BY <1>1, CanonicalClosure
  <2>2. Multiply(z, b) = Multiply(a, Multiply(i, b))
    BY <1>1, TimesAssociates
  <2>3. Multiply(a, One) = a
    BY <1>1, OneAndZero
  <2> QED BY <1>1, <2>1, <2>2, <2>3
<1> HIDE DEF z
<1>5. Multiply(Subtract(z, q), b) = Subtract(a, Multiply(q, b))
  <2>1. Canonical(Negate(q))
    BY <1>2, CanonicalClosure
  <2>2. Multiply(Add(z, Negate(q)), b) = Add(Multiply(z, b), Multiply(Negate(q), b))
    BY <1>1, <1>4, <2>1, TimesDistributes
  <2>3. Multiply(Negate(q), b) = Negate(Multiply(q, b))
    BY <1>1, <1>2, NegateTimes
  <2> QED BY <1>4, <2>2, <2>3 DEF Subtract
<1> QED BY <1>2, <1>3, <1>4, <1>5 DEF z, q, i

\* What rounding leaves: numerators of at most half the denominator.
LEMMA LeftByRounding ==
    ASSUME NEW z, Canonical(z)
    PROVE  \E v \in Tuple : \E n \in Nat \ {0} :
              /\ Denotes(Subtract(z, NearestIntegral(z)), [n |-> v, d |-> n])
              /\ 2 * Abs(v[1]) <= n /\ 2 * Abs(v[2]) <= n
              /\ 2 * Abs(v[3]) <= n /\ 2 * Abs(v[4]) <= n
<1> DEFINE E == Element(z)
           N == scaleUp(z.t, z.k)
           D == Pow2[z.k] * z.e
           r == <<roundRatio(N[1], D), roundRatio(N[2], D), roundRatio(N[3], D), roundRatio(N[4], D)>>
           V == Value(r, 0, 1)
           o == F!Opposite(V)
           s == F!Sum(E, o)
           v == <<N[1] - D * r[1], N[2] - D * r[2], N[3] - D * r[3], N[4] - D * r[4]>>
<1>1. Denotes(z, E) /\ E \in Fraction /\ E.n = N /\ E.d = D
  BY DenotesElement DEF Element
<1>2. N \in Tuple /\ D \in Nat \ {0}
  BY <1>1, FractionFields
<1>3. NearestIntegral(z) = canonicalize(r, 0, 1)
  BY DEF NearestIntegral, Rounded, Integral
<1> HIDE DEF E, N, D
<1>4. N[1] \in Int /\ N[2] \in Int /\ N[3] \in Int /\ N[4] \in Int
  BY <1>2, Components
<1>5. ASSUME NEW num \in Int
      PROVE  roundRatio(num, D) \in Int /\ 2 * Abs(num - D * roundRatio(num, D)) <= D
  BY <1>2, RoundingIsNearest
<1>6. r \in Tuple /\ v \in Tuple
  <2>1. r[1] \in Int /\ r[2] \in Int /\ r[3] \in Int /\ r[4] \in Int
    BY <1>4, <1>5
  <2>2. r \in Tuple
    BY <2>1 DEF Tuple
  <2> HIDE DEF r
  <2>3. v \in Tuple
    BY <1>2, <1>4, <2>1 DEF Tuple
  <2> QED BY <2>2, <2>3
<1>7. 2 * Abs(v[1]) <= D /\ 2 * Abs(v[2]) <= D /\ 2 * Abs(v[3]) <= D /\ 2 * Abs(v[4]) <= D
  BY <1>4, <1>5
<1> HIDE DEF r
<1>8. V \in Fraction /\ V.n = r /\ V.d = 1
  BY <1>6, IntegralValue
<1>9. Denotes(NearestIntegral(z), V)
  BY <1>3, <1>6, DenotesValue
<1> HIDE DEF V
<1>10. Denotes(Negate(NearestIntegral(z)), o)
  BY <1>9, DenotesOpposite
<1>11. o \in Fraction /\ o.n = Scale(-1, r) /\ o.d = 1
  BY <1>8, FieldClosure
<1> HIDE DEF o
<1>12. Denotes(Subtract(z, NearestIntegral(z)), s)
  BY <1>1, <1>10, DenotesSum DEF Subtract
<1>13. s \in Fraction /\ s.n = Plus(Scale(1, N), Scale(D, Scale(-1, r))) /\ s.d = D * 1
  BY <1>1, <1>11, FieldClosure
<1>14. s.n = v
  <2>1. Scale(1, N) = N /\ Scale(D, Scale(-1, r)) = Scale(D * (-1), r)
    BY <1>2, <1>6, ScaleOne, ScaleTwice
  <2>2. ASSUME NEW x \in Int, NEW y \in Int PROVE x + (D * (-1)) * y = x - D * y
    BY <1>2
  <2>3. r[1] \in Int /\ r[2] \in Int /\ r[3] \in Int /\ r[4] \in Int
    BY <1>6, Components
  <2>4. Plus(N, Scale(D * (-1), r)) = v
    BY <1>4, <2>2, <2>3 DEF Plus, Scale
  <2> QED BY <1>13, <2>1, <2>4
<1>15. s = [n |-> v, d |-> D]
  <2>1. D * 1 = D
    BY <1>2
  <2> HIDE DEF s, v
  <2> QED BY <1>13, <1>14, <2>1, FractionFields
<1> HIDE DEF s, v
<1> QED BY <1>2, <1>6, <1>7, <1>12, <1>15

\* Two fractions of one value are equal as elements.
LEMMA DenotedSame ==
    ASSUME NEW z, NEW p, NEW q, Denotes(z, p), Denotes(z, q)
    PROVE  SameValue(p, q)
<1>1. z \in DwValue
  BY DEF Denotes, Canonical
<1>2. Element(z) \in Fraction /\ p \in Fraction /\ q \in Fraction
  BY <1>1, ElementFields DEF Denotes
<1>3. SameValue(p, Element(z)) /\ SameValue(Element(z), q)
  BY SameSymmetric DEF Denotes
<1> QED BY <1>2, <1>3, SameTransitive

\* A rounded value has integral coordinates.
LEMMA RoundedDenotes ==
    ASSUME NEW z, Canonical(z)
    PROVE  \E t \in Tuple : Denotes(NearestIntegral(z), [n |-> t, d |-> 1])
<1> DEFINE n == scaleUp(z.t, z.k)
           d == Pow2[z.k] * z.e
           r == <<roundRatio(n[1], d), roundRatio(n[2], d), roundRatio(n[3], d), roundRatio(n[4], d)>>
<1>1. n \in Tuple /\ d \in Nat \ {0}
  <2>1. z \in DwValue
    BY CanonicalFacts
  <2>2. Element(z) \in Fraction /\ Element(z).n = n /\ Element(z).d = d
    BY <2>1, ElementFields DEF Element
  <2> QED BY <2>2, FractionFields
<1>2. NearestIntegral(z) = canonicalize(r, 0, 1)
  BY DEF NearestIntegral, Rounded, Integral
<1> HIDE DEF n, d
<1>3. r \in Tuple
  <2>1. n[1] \in Int /\ n[2] \in Int /\ n[3] \in Int /\ n[4] \in Int
    BY <1>1, Components
  <2>2. /\ roundRatio(n[1], d) \in Int /\ roundRatio(n[2], d) \in Int
        /\ roundRatio(n[3], d) \in Int /\ roundRatio(n[4], d) \in Int
    BY <1>1, <2>1, RoundingIsNearest
  <2> QED BY <2>2 DEF Tuple
<1> HIDE DEF r
<1>4. Denotes(NearestIntegral(z), Value(r, 0, 1))
  BY <1>2, <1>3, DenotesValue
<1>5. Value(r, 0, 1) = [n |-> r, d |-> 1]
  BY <1>3, IntegralValue, FractionFields
<1> QED BY <1>3, <1>4, <1>5

\* A difference over one denominator.
LEMMA DenotesDifference ==
    ASSUME NEW a, NEW b, NEW N \in Nat \ {0}, NEW p \in Tuple, NEW q \in Tuple,
           Denotes(a, [n |-> p, d |-> N]), Denotes(b, [n |-> q, d |-> N])
    PROVE  /\ Plus(p, Scale(-1, q)) \in Tuple
           /\ Denotes(Subtract(a, b), [n |-> Plus(p, Scale(-1, q)), d |-> N])
<1> DEFINE P == [n |-> p, d |-> N]
           Q == [n |-> q, d |-> N]
           o == F!Opposite(Q)
           s == F!Sum(P, o)
           r == Plus(p, Scale(-1, q))
           R == [n |-> r, d |-> N]
<1>1. Scale(-1, q) \in Tuple /\ r \in Tuple
  BY TupleClosure
<1>2. P \in Fraction /\ Q \in Fraction /\ R \in Fraction
  BY <1>1 DEF Fraction
<1>3. P.n = p /\ P.d = N /\ Q.n = q /\ Q.d = N /\ R.n = r /\ R.d = N
  OBVIOUS
<1>4. Denotes(a, P) /\ Denotes(b, Q)
  OBVIOUS
<1> HIDE DEF P, Q, R, r
<1>5. o \in Fraction /\ o.n = Scale(-1, q) /\ o.d = N
  BY <1>2, <1>3, FieldClosure
<1>6. Denotes(Negate(b), o)
  BY <1>4, DenotesOpposite
<1> HIDE DEF o
<1>7. Denotes(Subtract(a, b), s)
  BY <1>4, <1>6, DenotesSum DEF Subtract
<1>8. s \in Fraction /\ s.n = Plus(Scale(N, p), Scale(N, Scale(-1, q))) /\ s.d = N * N
  BY <1>2, <1>3, <1>5, FieldClosure
<1>9. s.n = Scale(N, r)
  BY <1>1, <1>8, ScaleDistributes DEF r
<1>10. SameValue(s, R)
  <2>1. Scale(N, Scale(N, r)) = Scale(N * N, r)
    BY <1>1, ScaleTwice
  <2> QED BY <1>3, <1>8, <1>9, <2>1 DEF SameValue
<1> HIDE DEF s
<1>11. Denotes(Subtract(a, b), R)
  BY <1>2, <1>7, <1>10, DenotesSame
<1> QED BY <1>1, <1>11 DEF r, R

\* A product with an integral factor has the other factor's denominator.
LEMMA DenotesMultiple ==
    ASSUME NEW a, NEW b, NEW N \in Nat \ {0}, NEW k \in Nat \ {0}, NEW p \in Tuple, NEW q \in Tuple,
           Denotes(a, [n |-> p, d |-> k]), Denotes(b, [n |-> q, d |-> N])
    PROVE  mulTuple(p, q) \in Tuple /\ Denotes(Multiply(a, b), [n |-> mulTuple(p, q), d |-> k * N])
<1> DEFINE P == [n |-> p, d |-> k]
           Q == [n |-> q, d |-> N]
<1>1. P \in Fraction /\ Q \in Fraction /\ P.n = p /\ P.d = k /\ Q.n = q /\ Q.d = N
  BY DEF Fraction
<1>2. Denotes(a, P) /\ Denotes(b, Q)
  OBVIOUS
<1> HIDE DEF P, Q
<1>3. F!Product(P, Q) = [n |-> mulTuple(p, q), d |-> k * N]
  BY <1>1, FieldClosure
<1>4. Denotes(Multiply(a, b), F!Product(P, Q))
  BY <1>2, DenotesProduct
<1>5. mulTuple(p, q) \in Tuple
  BY TupleClosure
<1> QED BY <1>3, <1>4, <1>5

(***************************************************************************)
(* Division with rounding: over a common denominator of the two values the *)
(* norm of the remainder is smaller than that of the divisor.              *)
(***************************************************************************)
LEMMA RemainderOver ==
    ASSUME NEW a, NEW b, NEW N \in Nat \ {0}, NEW p \in Tuple, NEW q \in Tuple, ~isZero(b),
           Denotes(a, [n |-> p, d |-> N]), Denotes(b, [n |-> q, d |-> N])
    PROVE  \E r \in Tuple : /\ Denotes(remainder(a, b), [n |-> r, d |-> N])
                            /\ FieldNorm(r) < FieldNorm(q)
<1> DEFINE z == Multiply(a, inverse(b))
           h == roundedDivide(a, b)
<1>1. Canonical(a) /\ Canonical(b)
  BY DEF Denotes
<1>2. Canonical(z) /\ remainder(a, b) = Multiply(Subtract(z, h), b)
  BY <1>1, RemainderIsProduct
<1>3. h = NearestIntegral(z) /\ remainder(a, b) = Subtract(a, Multiply(h, b))
  BY DEF roundedDivide, remainder
<1> HIDE DEF z, h
<1>4. PICK t \in Tuple : Denotes(h, [n |-> t, d |-> 1])
  BY <1>2, <1>3, RoundedDenotes
<1> DEFINE r == Plus(p, Scale(-1, mulTuple(t, q)))
<1>5. r \in Tuple /\ Denotes(remainder(a, b), [n |-> r, d |-> N])
  <2>1. mulTuple(t, q) \in Tuple /\ Denotes(Multiply(h, b), [n |-> mulTuple(t, q), d |-> 1 * N])
    BY <1>4, DenotesMultiple
  <2>2. 1 * N = N
    OBVIOUS
  <2> QED BY <1>3, <2>1, <2>2, DenotesDifference
<1> HIDE DEF r
<1>6. PICK v \in Tuple, k \in Nat \ {0} :
         /\ Denotes(Subtract(z, h), [n |-> v, d |-> k])
         /\ 2 * Abs(v[1]) <= k /\ 2 * Abs(v[2]) <= k /\ 2 * Abs(v[3]) <= k /\ 2 * Abs(v[4]) <= k
  BY <1>2, <1>3, LeftByRounding
<1>7. mulTuple(v, q) \in Tuple /\ Denotes(remainder(a, b), [n |-> mulTuple(v, q), d |-> k * N])
  BY <1>2, <1>6, DenotesMultiple
<1>8. Scale(k, r) = mulTuple(v, q)
  <2>1. Scale(k * N, r) = Scale(N, mulTuple(v, q))
    BY <1>5, <1>7, DenotedSame DEF SameValue
  <2>2. k * N = N * k /\ N \in Int /\ k \in Int
    OBVIOUS
  <2>3. Scale(N, Scale(k, r)) = Scale(N * k, r) /\ Scale(k, r) \in Tuple
    BY <1>5, <2>2, ScaleTwice, TupleClosure
  <2> QED BY <1>7, <2>1, <2>2, <2>3, ScaleCancels
<1> DEFINE K == (k * k) * (k * k)
           x == FieldNorm(r)
           y == FieldNorm(q)
           w == FieldNorm(v)
<1>9. x \in Nat /\ y \in Nat /\ w \in Nat /\ y > 0
  <2>1. q # ZeroTuple
    <3> SUFFICES ASSUME q = ZeroTuple PROVE FALSE
      OBVIOUS
    <3>1. SameValue([n |-> q, d |-> N], [n |-> ZeroTuple, d |-> 1])
      BY DEF SameValue, Scale, ZeroTuple
    <3>2. [n |-> ZeroTuple, d |-> 1] \in Fraction /\ Denotes(Zero, [n |-> ZeroTuple, d |-> 1])
      BY Constants, ElementFields, DenotesElement
    <3>3. Denotes(b, [n |-> ZeroTuple, d |-> 1])
      BY <3>1, <3>2, DenotesSame
    <3> QED BY <3>2, <3>3, <1>1, DenotesUnique, OneAndZero
  <2> QED BY <1>5, <2>1, NormInt, InverseDenominatorPositive DEF FieldNorm
<1>10. K * x = w * y
  <2>1. FieldNorm(Scale(k, r)) = K * x
    BY <1>5, NormOfScale
  <2> QED BY <1>8, <2>1, NormOfTuples
<1>11. 16 * w <= 9 * K
  BY <1>6, NormOfRounding
<1>12. K \in Nat /\ K > 0
  <2>1. \A i \in Nat \ {0} : i * i \in Nat \ {0}
    OBVIOUS
  <2> QED BY <2>1
<1> HIDE DEF K, x, y, w
<1>13. x < y
  <2> SUFFICES ASSUME x >= y PROVE FALSE
    BY <1>9
  <2>1. K * (x - y) >= 0 /\ K * (x - y) = K * x - K * y
    BY <1>9, <1>12
  <2>2. (9 * K - 16 * w) * y >= 0 /\ (9 * K - 16 * w) * y = 9 * (K * y) - 16 * (w * y)
    BY <1>9, <1>11, <1>12
  <2>3. K * y > 0 /\ K * y \in Int /\ w * y \in Int
    BY <1>9, <1>12
  <2> QED BY <1>10, <2>1, <2>2, <2>3
<1> QED BY <1>5, <1>13 DEF x, y

\* A weight is a value in canonical form.
LEMMA WeightIsCanonical == \A z : z \in Weight <=> Canonical(z)
BY DEF Weight, Canonical

\* Two values have a common denominator.
LEMMA CommonDenominator ==
    ASSUME NEW a, NEW b, Canonical(a), Canonical(b)
    PROVE  \E N \in Nat \ {0} : \E p \in Tuple, q \in Tuple :
              Denotes(a, [n |-> p, d |-> N]) /\ Denotes(b, [n |-> q, d |-> N])
<1> DEFINE P == Element(a)
           Q == Element(b)
           N == P.d * Q.d
           p == Scale(Q.d, P.n)
           q == Scale(P.d, Q.n)
<1>1. Denotes(a, P) /\ P \in Fraction /\ Denotes(b, Q) /\ Q \in Fraction
  BY DenotesElement
<1> HIDE DEF P, Q
<1>2. /\ P.n \in Tuple /\ P.d \in Nat \ {0} /\ P.d \in Int
      /\ Q.n \in Tuple /\ Q.d \in Nat \ {0} /\ Q.d \in Int
  BY <1>1, FractionFields
<1>3. N \in Nat \ {0} /\ p \in Tuple /\ q \in Tuple
  <2>1. \A i \in Nat \ {0}, j \in Nat \ {0} : i * j \in Nat \ {0}
    OBVIOUS
  <2> QED BY <1>2, <2>1, TupleClosure
<1>4. [n |-> p, d |-> N] \in Fraction /\ [n |-> q, d |-> N] \in Fraction
  <2> HIDE DEF p, q, N
  <2> QED BY <1>3 DEF Fraction
<1>5. SameValue(P, [n |-> p, d |-> N]) /\ SameValue(Q, [n |-> q, d |-> N])
  <2>1. Scale(N, P.n) = Scale(P.d, p)
    BY <1>2, ScaleTwice
  <2>2. Scale(N, Q.n) = Scale(Q.d, q)
    <3>1. Q.d * P.d = N
      BY <1>2
    <3>2. Scale(Q.d, Scale(P.d, Q.n)) = Scale(Q.d * P.d, Q.n)
      BY <1>2, ScaleTwice
    <3> HIDE DEF N
    <3> QED BY <3>1, <3>2
  <2> HIDE DEF p, q, N
  <2> QED BY <2>1, <2>2 DEF SameValue
<1>6. Denotes(a, [n |-> p, d |-> N]) /\ Denotes(b, [n |-> q, d |-> N])
  BY <1>1, <1>4, <1>5, DenotesSame
<1> QED BY <1>3, <1>6

\* The remainder is a value.
LEMMA RemainderCanonical ==
    ASSUME NEW a, NEW b, Canonical(a), Canonical(b), ~isZero(b)
    PROVE  Canonical(remainder(a, b))
<1>1. RingElement(roundedDivide(a, b))
  BY RoundedInRing
<1> QED BY <1>1, CanonicalClosure DEF remainder, RingElement

(***************************************************************************)
(* Dw::gcd ends for any two weights, in Z[w] or not: remainders have ever  *)
(* smaller norms until one is 0.  It returns 0 only for two zeros.         *)
(***************************************************************************)
THEOREM GcdRecursion ==
    LET D == Weight \X Weight
        Some == Weight \ {Zero}
    IN  /\ \A ab \in D : /\ gcd[ab] \in Weight
                         /\ gcd[ab] = IF isZero(ab[2]) THEN ab[1]
                                      ELSE gcd[<<ab[2], remainder(ab[1], ab[2])>>]
        /\ \A ab \in D : ab # <<Zero, Zero>> => gcd[ab] \in Some
<1> DEFINE D == Weight \X Weight
           Stop == {ab \in D : isZero(ab[2])}
           Over(ab, N, p, q) == Denotes(ab[1], [n |-> p, d |-> N]) /\ Denotes(ab[2], [n |-> q, d |-> N])
           Norms(ab) == {n \in Nat : \E N \in Nat \ {0} : \E p \in Tuple, q \in Tuple :
                                        Over(ab, N, p, q) /\ n = FieldNorm(q)}
           Least(ab) == CHOOSE n \in Norms(ab) : \A i \in Norms(ab) : n <= i
           mu == [ab \in D |-> Least(ab)]
           base == [ab \in D |-> ab[1]]
           Next0(ab) == <<ab[2], remainder(ab[1], ab[2])>>
           next == [ab \in D |-> IF isZero(ab[2]) THEN ab ELSE Next0(ab)]
           comb == [ab \in D |-> [v \in Weight |-> v]]
           E == {ab \in D : ab # <<Zero, Zero>>}
           Some == Weight \ {Zero}
           sbase == [ab \in E |-> IF ab[2] = Zero THEN ab[1] ELSE One]
           snext == [ab \in E |-> next[ab]]
           scomb == [ab \in E |-> [v \in Some |-> v]]
<1>1. ASSUME NEW ab \in D
      PROVE  /\ Canonical(ab[1]) /\ Canonical(ab[2])
             /\ isZero(ab[2]) <=> ab[2] = Zero
             /\ ~isZero(ab[2]) => Next0(ab) \in D
  <2>1. Canonical(ab[1]) /\ Canonical(ab[2])
    BY WeightIsCanonical
  <2>2. ~isZero(ab[2]) => remainder(ab[1], ab[2]) \in Weight
    BY <2>1, RemainderCanonical, WeightIsCanonical
  <2> QED BY <2>1, <2>2, OneAndZero
<1>2. ASSUME NEW ab \in D
      PROVE  /\ Least(ab) \in Nat /\ Least(ab) \in Norms(ab)
             /\ \A i \in Norms(ab) : Least(ab) <= i
  <2>1. \E N \in Nat \ {0} : \E p \in Tuple, q \in Tuple : Over(ab, N, p, q)
    BY <1>1, CommonDenominator
  <2>2. Norms(ab) # {}
    <3> HIDE DEF Over
    <3> QED BY <2>1, NormInt
  <2>3. Norms(ab) \in SUBSET Nat
    OBVIOUS
  <2> HIDE DEF Norms
  <2>4. \E n \in Norms(ab) : \A i \in Norms(ab) : n <= i
    BY <2>2, <2>3, LeastElement
  <2> QED BY <2>3, <2>4
<1>3. ASSUME NEW ab \in D, ~isZero(ab[2]) PROVE Least(Next0(ab)) < Least(ab)
  <2>1. PICK N \in Nat \ {0}, p \in Tuple, q \in Tuple :
           Over(ab, N, p, q) /\ Least(ab) = FieldNorm(q)
    <3> HIDE DEF Least, Over
    <3> QED BY <1>2
  <2>2. PICK r \in Tuple : /\ Denotes(remainder(ab[1], ab[2]), [n |-> r, d |-> N])
                           /\ FieldNorm(r) < FieldNorm(q)
    BY <1>3, <2>1, RemainderOver
  <2>3. Over(Next0(ab), N, q, r)
    BY <2>1, <2>2
  <2>4. FieldNorm(r) \in Norms(Next0(ab))
    <3> HIDE DEF Over, Next0
    <3> QED BY <2>3, NormInt
  <2>5. Next0(ab) \in D
    BY <1>1, <1>3
  <2> HIDE DEF Least, Norms, Next0, D
  <2>6. Least(Next0(ab)) <= FieldNorm(r) /\ Least(Next0(ab)) \in Nat
    BY <1>2, <2>4, <2>5
  <2>7. FieldNorm(r) \in Nat /\ FieldNorm(q) \in Nat
    BY NormInt
  <2> QED BY <2>1, <2>2, <2>6, <2>7
<1>4. mu \in [D -> Nat]
  <2> HIDE DEF Least
  <2> QED BY <1>2
<1>5. \A ab \in D : /\ mu[ab] = Least(ab)
                    /\ ab \in Stop <=> isZero(ab[2])
                    /\ base[ab] = ab[1]
                    /\ ab \notin Stop => next[ab] = Next0(ab)
                    /\ ab \in Stop => next[ab] = ab
                    /\ \A v \in Weight : comb[ab][v] = v
  OBVIOUS
<1>6. base \in [D -> Weight] /\ next \in [D -> D] /\ comb \in [D -> [Weight -> Weight]] /\ Stop \in SUBSET D
  <2> HIDE DEF Next0
  <2> QED BY <1>1
<1> HIDE DEF Least, mu, base, next, comb, Stop, Next0
<1>7. Recursion(D, Weight, Stop, mu, base, next, comb)
  BY <1>1, <1>3, <1>4, <1>5, <1>6 DEF Recursion
<1>8. PICK f \in [D -> Weight] : Follows(f, D, Weight, Stop, base, next, comb)
  BY <1>7, RecursiveFunction
<1>9. ASSUME NEW ab \in D
      PROVE  f[ab] = IF isZero(ab[2]) THEN ab[1] ELSE f[Next0(ab)]
  <2>1. next[ab] \in D
    BY <1>6
  <2> QED BY <1>5, <1>8, <2>1 DEF Follows
<1>10. f = [ab \in D |-> IF isZero(ab[2]) THEN ab[1] ELSE f[<<ab[2], remainder(ab[1], ab[2])>>]]
  BY <1>8, <1>9 DEF Next0
<1>11. gcd = [ab \in D |-> IF isZero(ab[2]) THEN ab[1] ELSE gcd[<<ab[2], remainder(ab[1], ab[2])>>]]
  BY <1>10 DEF gcd
<1>12. \A ab \in D : gcd[ab] = IF isZero(ab[2]) THEN ab[1] ELSE gcd[Next0(ab)]
  BY <1>11 DEF Next0
<1>13. Follows(gcd, D, Weight, Stop, base, next, comb)
  BY <1>5, <1>12 DEF Follows
<1>14. \A ab \in D : gcd[ab] \in Weight
  BY <1>7, <1>13, RecursiveFunctionType
<1>15. E \in SUBSET D /\ \A ab \in E : ab # <<Zero, Zero>>
  OBVIOUS
<1>16. ASSUME NEW ab \in E
       PROVE  /\ ab[2] = Zero => ab[1] # Zero
              /\ next[ab] \in E
              /\ ab \notin Stop => next[ab][1] = ab[2] /\ ab[2] # Zero
  <2>1. ab \in D /\ ab # <<Zero, Zero>> /\ ab = <<ab[1], ab[2]>>
    OBVIOUS
  <2>2. ab[2] = Zero => ab[1] # Zero
    BY <2>1
  <2>3. CASE ab \in Stop
    BY <1>5, <1>15, <2>2, <2>3
  <2>4. CASE ab \notin Stop
    <3>1. next[ab] = <<ab[2], remainder(ab[1], ab[2])>> /\ ab[2] # Zero /\ next[ab] \in D
      BY <1>1, <1>5, <1>6, <2>1, <2>4 DEF Next0
    <3> QED BY <2>2, <3>1
  <2> QED BY <2>3, <2>4
<1>17. One \in Some
  BY Constants, WeightIsCanonical, OneAndZero
<1>18. /\ sbase \in [E -> Some] /\ snext \in [E -> E] /\ scomb \in [E -> [Some -> Some]]
       /\ Stop \cap E \in SUBSET E /\ [ab \in E |-> mu[ab]] \in [E -> Nat]
       /\ \A ab \in E : /\ sbase[ab] = IF ab[2] = Zero THEN ab[1] ELSE One
                        /\ snext[ab] = next[ab] /\ \A v \in Some : scomb[ab][v] = v
  <2>1. \A ab \in E : ab[2] = Zero => ab[1] \in Some
    BY <1>16
  <2> QED BY <1>4, <1>15, <1>16, <1>17, <2>1
<1> HIDE DEF sbase, snext, scomb, E
<1>19. Recursion(E, Some, Stop \cap E, [ab \in E |-> mu[ab]], sbase, snext, scomb)
  <2>1. \A ab \in E \ (Stop \cap E) : mu[snext[ab]] < mu[ab] /\ snext[ab] \in E
    BY <1>3, <1>5, <1>15, <1>18
  <2> HIDE DEF Some
  <2> QED BY <1>18, <2>1 DEF Recursion
<1>20. Follows(gcd, E, Some, Stop \cap E, sbase, snext, scomb)
  <2> SUFFICES ASSUME NEW ab \in E
               PROVE  IF ab \in Stop \cap E THEN gcd[ab] = sbase[ab]
                      ELSE gcd[snext[ab]] \in Some => gcd[ab] = scomb[ab][gcd[snext[ab]]]
    BY DEF Follows
  <2>1. ab \in D
    BY <1>15
  <2>2. CASE ab \in Stop
    <3>1. isZero(ab[2])
      BY <1>5, <2>1, <2>2
    <3>2. gcd[ab] = ab[1]
      BY <1>12, <2>1, <3>1
    <3>3. ab[2] = Zero
      BY <1>1, <2>1, <3>1
    <3>4. sbase[ab] = ab[1]
      BY <1>18, <3>3
    <3> QED BY <2>2, <3>2, <3>4
  <2>3. CASE ab \notin Stop
    BY <1>5, <1>12, <1>18, <2>1, <2>3
  <2> QED BY <2>2, <2>3
<1>21. \A ab \in E : gcd[ab] \in Some
  BY <1>19, <1>20, RecursiveFunctionType
<1> QED BY <1>11, <1>14, <1>21 DEF E
-----------------------------------------------------------------------------
\* The weights other than 0.
NonZero == Weight \ {Zero}

\* The laws of the field, for weights.
LEMMA WeightLaws ==
    /\ Zero \in Weight /\ One \in NonZero
    /\ \A w \in Weight : /\ isZero(w) <=> w = Zero
                         /\ Multiply(w, One) = w /\ Multiply(One, w) = w
                         /\ Multiply(w, Zero) = Zero /\ Multiply(Zero, w) = Zero
    /\ \A w \in Weight, z \in Weight : /\ Multiply(w, z) \in Weight /\ Add(w, z) \in Weight
                                       /\ Multiply(w, z) = Multiply(z, w)
    /\ \A c \in Weight, w \in Weight, z \in Weight :
          Multiply(Multiply(c, w), z) = Multiply(c, Multiply(w, z))
<1>1. Zero \in Weight /\ One \in NonZero
  BY Constants, WeightIsCanonical, OneAndZero DEF NonZero
<1>2. \A w \in Weight : /\ isZero(w) <=> w = Zero
                        /\ Multiply(w, One) = w /\ Multiply(One, w) = w
                        /\ Multiply(w, Zero) = Zero /\ Multiply(Zero, w) = Zero
  BY WeightIsCanonical, OneAndZero, TimesOne
<1>3. \A w \in Weight, z \in Weight : /\ Multiply(w, z) \in Weight /\ Add(w, z) \in Weight
                                      /\ Multiply(w, z) = Multiply(z, w)
  BY WeightIsCanonical, CanonicalClosure, TimesCommutes
<1>4. \A c \in Weight, w \in Weight, z \in Weight :
          Multiply(Multiply(c, w), z) = Multiply(c, Multiply(w, z))
  BY WeightIsCanonical, TimesAssociates
<1> QED BY <1>1, <1>2, <1>3, <1>4

\* Every weight but 0 has an inverse, so products of such weights are not 0 and
\* a factor can be cancelled.
LEMMA NonZeroLaws ==
    /\ \A w \in NonZero : /\ inverse(w) \in NonZero
                          /\ Multiply(inverse(w), w) = One /\ Multiply(w, inverse(w)) = One
    /\ \A w \in NonZero, z \in NonZero : Multiply(w, z) \in NonZero
    /\ \A c \in NonZero, w \in Weight : Multiply(inverse(c), Multiply(c, w)) = w
    /\ \A c \in NonZero, w \in Weight, z \in Weight : Multiply(c, w) = Multiply(c, z) => w = z
<1>1. ASSUME NEW w \in NonZero
      PROVE  /\ inverse(w) \in NonZero
             /\ Multiply(inverse(w), w) = One /\ Multiply(w, inverse(w)) = One
  <2>1. Canonical(w) /\ ~isZero(w) /\ w \in Weight
    BY WeightIsCanonical, WeightLaws DEF NonZero
  <2>2. inverse(w) \in Weight /\ Multiply(inverse(w), w) = One
    BY <2>1, InverseTimes, WeightIsCanonical
  <2>3. inverse(w) # Zero
    BY <2>1, <2>2, WeightLaws DEF NonZero
  <2> QED BY <2>1, <2>2, <2>3, WeightLaws DEF NonZero
<1>2. ASSUME NEW c \in NonZero, NEW w \in Weight
      PROVE  Multiply(inverse(c), Multiply(c, w)) = w
  <2>1. inverse(c) \in Weight /\ c \in Weight
    BY <1>1 DEF NonZero
  <2>2. Multiply(Multiply(inverse(c), c), w) = Multiply(inverse(c), Multiply(c, w))
    BY <2>1, WeightLaws
  <2> QED BY <1>1, <2>2, WeightLaws
<1>3. ASSUME NEW w \in NonZero, NEW z \in NonZero PROVE Multiply(w, z) \in NonZero
  <2>1. w \in Weight /\ z \in Weight /\ z # Zero /\ inverse(w) \in Weight
    BY <1>1 DEF NonZero
  <2>2. Multiply(inverse(w), Multiply(w, z)) = z
    BY <1>2, <2>1
  <2> QED BY <2>1, <2>2, WeightLaws DEF NonZero
<1> QED BY <1>1, <1>2, <1>3

\* The conjugate of a weight is a weight, and 0 only if the weight is.
LEMMA ConjugateLaws ==
    \A z \in Weight : conjugate(z) \in Weight /\ (z # Zero => conjugate(z) # Zero)
<1> SUFFICES ASSUME NEW z \in Weight
             PROVE  conjugate(z) \in Weight /\ (conjugate(z) = Zero => z = Zero)
  OBVIOUS
<1>1. z \in DwValue /\ Canonical(z) /\ (isZero(z) => z = Zero)
  BY DEF Weight, Canonical
<1>2. Canonical(conjugate(z)) /\ F!Same(Element(conjugate(z)), F!Conjugate(Element(z)))
  BY <1>1, ConjugateIsExact
<1>3. conjugate(z) \in Weight
  BY <1>2, WeightIsCanonical
<1>4. ASSUME conjugate(z) = Zero PROVE z = Zero
  <2> DEFINE n == Element(z).n
             d == Element(z).d
  <2>1. Element(z) \in Fraction /\ n = scaleUp(z.t, z.k) /\ n \in Tuple /\ d \in Nat \ {0}
    BY <1>1, ElementFields, FractionFields DEF Element
  <2>2. F!Conjugate(Element(z)) = [n |-> ConjTuple(n), d |-> d]
    BY <2>1, FieldClosure
  <2>3. Element(Zero) = [n |-> ZeroTuple, d |-> 1]
    <3>1. scaleUp(ZeroTuple, 0) = ZeroTuple /\ Pow2[0] = 1
      BY ZeroTupleFacts, Pow2Def
    <3> QED BY <3>1 DEF Element, Zero
  <2> HIDE DEF n, d
  <2>4. Scale(d, ZeroTuple) = Scale(1, ConjTuple(n))
    <3>1. SameValue(Element(Zero), F!Conjugate(Element(z)))
      BY <1>2, <1>4, FieldCoordinates
    <3>2. F!Conjugate(Element(z)).n = ConjTuple(n) /\ F!Conjugate(Element(z)).d = d
      BY <2>2
    <3>3. Element(Zero).n = ZeroTuple /\ Element(Zero).d = 1
      BY <2>3
    <3> QED BY <3>1, <3>2, <3>3 DEF SameValue
  <2>5. ConjTuple(n) = ZeroTuple
    BY <2>1, <2>4 DEF Scale, ConjTuple, ZeroTuple, Tuple
  <2>6. n = ZeroTuple
    BY <2>1, <2>5 DEF ConjTuple, ZeroTuple, Tuple
  <2>7. z.t \in Tuple /\ z.k \in Nat
    BY <1>1 DEF DwValue
  <2>8. z.t = ZeroTuple
    BY <2>1, <2>6, <2>7, ZeroTupleFacts
  <2> QED BY <1>1, <2>8 DEF isZero
<1> QED BY <1>3, <1>4

\* The units by which reduceAssociate multiplies.
LEMMA UnitsAreNonZero ==
    omega \in NonZero /\ iUnit \in NonZero /\ unit \in NonZero /\ unitInv \in NonZero
<1>1. ASSUME NEW s, Unit(s) PROVE s \in NonZero
  <2>1. PICK t : RingElement(t) /\ Multiply(s, t) = One
    BY <1>1 DEF Unit
  <2>2. s \in Weight /\ t \in Weight
    BY <1>1, <2>1, WeightIsCanonical DEF Unit, RingElement
  <2>3. s # Zero
    BY <2>1, <2>2, WeightLaws DEF NonZero
  <2> QED BY <2>2, <2>3 DEF NonZero
<1> QED BY <1>1, UnitsOfTheRing

\* The norm that reduceNorm makes smaller is a natural number.
LEMMA QuarticNormNat ==
    ASSUME NEW z \in Weight
    PROVE  quarticNorm(z) \in Nat
<1>1. z.t \in Tuple
  BY DEF Weight, DwValue
<1>2. normX(z.t) \in Int /\ CrossTerms(z.t) \in Int
  BY <1>1, Components DEF normX, CrossTerms
<1> DEFINE i == normX(z.t)
           j == CrossTerms(z.t)
<1> HIDE DEF i, j
<1>3. i * i - 2 * (j * j) \in Int
  BY <1>2 DEF i, j
<1>4. Abs(i * i - 2 * (j * j)) \in Nat
  BY <1>3 DEF Abs
<1> QED BY <1>4 DEF quarticNorm, i, j

\* A turn of the loop of reduceNorm leaves the value as it is or makes its norm
\* smaller.
LEMMA ReducedStep ==
    ASSUME NEW z \in Weight
    PROVE  /\ reduced(z) \in Weight
           /\ z # Zero => reduced(z) # Zero
           /\ reduced(z) # z => quarticNorm(reduced(z)) < quarticNorm(z)
<1> DEFINE up == Multiply(z, unit)
           down == Multiply(z, unitInv)
<1>1. unit \in Weight /\ unitInv \in Weight
  BY UnitsAreNonZero DEF NonZero
<1>2. up \in Weight /\ down \in Weight
  BY <1>1, WeightLaws
<1>3. z # Zero => up # Zero /\ down # Zero
  BY UnitsAreNonZero, NonZeroLaws DEF NonZero
<1>4. reduced(z) = LeastNorm(z, up, down, quarticNorm(z), quarticNorm(up), quarticNorm(down))
  BY DEF reduced, LeastOf
<1> HIDE DEF up, down
<1>5. \/ reduced(z) = z
      \/ reduced(z) = up /\ quarticNorm(up) < quarticNorm(z)
      \/ reduced(z) = down /\ quarticNorm(down) < quarticNorm(z)
  BY <1>4 DEF LeastNorm
<1> QED BY <1>2, <1>3, <1>5

(***************************************************************************)
(* Dw::reduceNorm ends for any weight, because each turn of its loop makes *)
(* quarticNorm smaller, with a weight that is 0 only if the value is.      *)
(***************************************************************************)
THEOREM ReduceNormRecursion ==
    /\ \A z \in Weight : /\ reduceNorm[z] \in Weight
                         /\ reduceNorm[z] = IF reduced(z) = z THEN z ELSE reduceNorm[reduced(z)]
    /\ \A z \in NonZero : reduceNorm[z] \in NonZero
<1> DEFINE D == Weight
           Stop == {z \in D : reduced(z) = z}
           mu == [z \in D |-> quarticNorm(z)]
           base == [z \in D |-> z]
           next == [z \in D |-> reduced(z)]
           comb == [z \in D |-> [w \in D |-> w]]
           snext == [z \in NonZero |-> reduced(z)]
           smu == [z \in NonZero |-> quarticNorm(z)]
           sbase == [z \in NonZero |-> z]
           scomb == [z \in NonZero |-> [w \in NonZero |-> w]]
<1>1. /\ mu \in [D -> Nat] /\ base \in [D -> D] /\ next \in [D -> D] /\ comb \in [D -> [D -> D]]
      /\ Stop \in SUBSET D
      /\ \A z \in D : /\ mu[z] = quarticNorm(z) /\ base[z] = z /\ next[z] = reduced(z)
                      /\ z \in Stop <=> reduced(z) = z
                      /\ \A w \in D : comb[z][w] = w
  BY QuarticNormNat, ReducedStep
<1>2. /\ smu \in [NonZero -> Nat] /\ sbase \in [NonZero -> NonZero]
      /\ snext \in [NonZero -> NonZero] /\ scomb \in [NonZero -> [NonZero -> NonZero]]
      /\ \A z \in NonZero : /\ z \in D /\ smu[z] = quarticNorm(z) /\ sbase[z] = z
                            /\ snext[z] = reduced(z) /\ \A w \in NonZero : scomb[z][w] = w
  BY QuarticNormNat, ReducedStep DEF NonZero
<1> HIDE DEF Stop, mu, base, next, comb, smu, sbase, snext, scomb
<1>3. Recursion(D, D, Stop, mu, base, next, comb)
  BY <1>1, ReducedStep DEF Recursion
<1>4. PICK f \in [D -> D] : Follows(f, D, D, Stop, base, next, comb)
  BY <1>3, RecursiveFunction
<1>5. f = [z \in D |-> IF reduced(z) = z THEN z ELSE f[reduced(z)]]
  <2>1. ASSUME NEW z \in D PROVE f[z] = IF reduced(z) = z THEN z ELSE f[reduced(z)]
    BY <1>1, <1>4, ReducedStep DEF Follows
  <2> QED BY <1>4, <2>1
<1>6. reduceNorm = [z \in D |-> IF reduced(z) = z THEN z ELSE reduceNorm[reduced(z)]]
  BY <1>5 DEF reduceNorm, normStep
<1>7. \A z \in D : reduceNorm[z] = IF reduced(z) = z THEN z ELSE reduceNorm[reduced(z)]
  BY <1>6
<1>8. \A z \in D : reduceNorm[z] \in D
  <2>1. Follows(reduceNorm, D, D, Stop, base, next, comb)
    BY <1>1, <1>7 DEF Follows
  <2> QED BY <1>3, <2>1, RecursiveFunctionType
<1>9. \A z \in NonZero : reduceNorm[z] \in NonZero
  <2>1. Recursion(NonZero, NonZero, Stop \cap NonZero, smu, sbase, snext, scomb)
    <3>1. \A z \in NonZero \ (Stop \cap NonZero) : smu[snext[z]] < smu[z]
      BY <1>1, <1>2, ReducedStep
    <3> QED BY <1>2, <3>1 DEF Recursion
  <2>2. Follows(reduceNorm, NonZero, NonZero, Stop \cap NonZero, sbase, snext, scomb)
    BY <1>1, <1>2, <1>7 DEF Follows
  <2> QED BY <2>1, <2>2, RecursiveFunctionType
<1> QED BY <1>7, <1>8, <1>9

\* The associate that is chosen for a weight other than 0 is not 0.
LEMMA AssociateNonZero ==
    ASSUME NEW z \in NonZero
    PROVE  reduceAssociate(z) \in NonZero
<1> DEFINE n == reduceNorm[z]
           b == Multiply(n, omega)
           c == Multiply(n, iUnit)
           d == Multiply(c, omega)
           m == Lesser(Lesser(Lesser(n, b), c), d)
<1>1. n \in NonZero
  BY ReduceNormRecursion
<1> HIDE DEF n
<1>2. b \in NonZero /\ c \in NonZero
  BY <1>1, UnitsAreNonZero, NonZeroLaws
<1> HIDE DEF c
<1>3. d \in NonZero
  BY <1>2, UnitsAreNonZero, NonZeroLaws
<1>4. reduceAssociate(z) = WithPositiveD(m)
  BY DEF reduceAssociate, lexicographicalMinimum, n, c
<1> HIDE DEF b, d
<1>5. m \in NonZero
  BY <1>1, <1>2, <1>3 DEF Lesser
<1> HIDE DEF m
<1>6. Negate(m) \in NonZero
  <2>1. Canonical(m) /\ Canonical(One) /\ Unit(Negate(One))
    BY <1>5, WeightIsCanonical, Constants, UnitsOfTheRing DEF NonZero
  <2>2. Negate(m) \in Weight
    BY <2>1, CanonicalClosure, WeightIsCanonical
  <2>3. Multiply(Negate(One), m) = Negate(m)
    BY <2>1, NegateTimes, TimesOne
  <2>4. Negate(One) \in NonZero
    <3>1. PICK t : RingElement(t) /\ Multiply(Negate(One), t) = One
      BY <2>1 DEF Unit
    <3>2. Negate(One) \in Weight /\ t \in Weight
      BY <2>1, <3>1, WeightIsCanonical DEF Unit, RingElement
    <3> QED BY <3>1, <3>2, WeightLaws DEF NonZero
  <2> QED BY <1>5, <2>3, <2>4, NonZeroLaws
<1> QED BY <1>4, <1>5, <1>6 DEF WithPositiveD

\* operator+ commutes and associates, and Zero is neutral.
LEMMA PlusLaws ==
    ASSUME NEW a, NEW b, NEW c, Canonical(a), Canonical(b), Canonical(c)
    PROVE  /\ Add(a, b) = Add(b, a)
           /\ Add(Add(a, b), c) = Add(a, Add(b, c))
           /\ Add(a, Zero) = a
<1> DEFINE A == Element(a)
           B == Element(b)
           C == Element(c)
           O == Element(Zero)
           P == A.n
           Q == B.n
           R == C.n
           i == A.d
           j == B.d
           k == C.d
<1>1. /\ Denotes(a, A) /\ A \in Fraction /\ Denotes(b, B) /\ B \in Fraction
      /\ Denotes(c, C) /\ C \in Fraction
  BY DenotesElement
<1>2. Denotes(Zero, O) /\ O \in Fraction
  <2>1. Canonical(Zero)
    BY Constants
  <2> QED BY <2>1, DenotesElement
<1>3. O.n = ZeroTuple /\ O.d = 1
  <2>1. scaleUp(ZeroTuple, 0) = ZeroTuple /\ Pow2[0] = 1
    BY ZeroTupleFacts, Pow2Def
  <2> QED BY <2>1 DEF Element, Zero
<1> HIDE DEF A, B, C, O
<1>4. P \in Tuple /\ Q \in Tuple /\ R \in Tuple /\ i \in Int /\ j \in Int /\ k \in Int
  BY <1>1, FractionFields
<1>5. /\ F!Sum(A, B) \in Fraction /\ F!Sum(A, B).n = Plus(Scale(j, P), Scale(i, Q)) /\ F!Sum(A, B).d = i * j
      /\ F!Sum(B, A) \in Fraction /\ F!Sum(B, A).n = Plus(Scale(i, Q), Scale(j, P)) /\ F!Sum(B, A).d = j * i
  BY <1>1, FieldClosure
<1>6. Add(a, b) = Add(b, a)
  <2>1. Denotes(Add(a, b), F!Sum(A, B)) /\ Denotes(Add(b, a), F!Sum(B, A))
    BY <1>1, DenotesSum
  <2>2. Plus(Scale(j, P), Scale(i, Q)) = Plus(Scale(i, Q), Scale(j, P)) /\ i * j = j * i
    <3>1. \A p \in Tuple, q \in Tuple : Plus(p, q) = Plus(q, p)
      BY Components DEF Plus
    <3>2. Scale(j, P) \in Tuple /\ Scale(i, Q) \in Tuple
      BY <1>4, TupleClosure
    <3> QED BY <1>4, <3>1, <3>2
  <2>3. SameValue(F!Sum(A, B), F!Sum(B, A))
    BY <1>5, <2>2 DEF SameValue
  <2>4. Denotes(Add(a, b), F!Sum(B, A))
    BY <1>5, <2>1, <2>3, DenotesSame
  <2> QED BY <2>1, <2>4, DenotesUnique
<1>7. Add(Add(a, b), c) = Add(a, Add(b, c))
  <2> DEFINE l == F!Sum(F!Sum(A, B), C)
             r == F!Sum(A, F!Sum(B, C))
  <2>1. Denotes(Add(Add(a, b), c), l)
    <3>1. Denotes(Add(a, b), F!Sum(A, B))
      BY <1>1, DenotesSum
    <3> QED BY <1>1, <3>1, DenotesSum
  <2>2. Denotes(Add(a, Add(b, c)), r)
    <3>1. Denotes(Add(b, c), F!Sum(B, C))
      BY <1>1, DenotesSum
    <3> QED BY <1>1, <3>1, DenotesSum
  <2>3. F!Sum(B, C) \in Fraction /\ F!Sum(B, C).n = Plus(Scale(k, Q), Scale(j, R)) /\ F!Sum(B, C).d = j * k
    BY <1>1, FieldClosure
  <2>4. l.n = Plus(Scale(k, Plus(Scale(j, P), Scale(i, Q))), Scale(i * j, R)) /\ l.d = (i * j) * k
    BY <1>1, <1>5, FieldClosure
  <2>5. r.n = Plus(Scale(j * k, P), Scale(i, Plus(Scale(k, Q), Scale(j, R)))) /\ r.d = i * (j * k)
    BY <1>1, <2>3, FieldClosure
  <2> HIDE DEF l, r, P, Q, R, i, j, k
  <2>6. Scale(k, Plus(Scale(j, P), Scale(i, Q))) = Plus(Scale(k * j, P), Scale(k * i, Q))
    BY <1>4, LinearCombination
  <2>7. Scale(i, Plus(Scale(k, Q), Scale(j, R))) = Plus(Scale(i * k, Q), Scale(i * j, R))
    BY <1>4, LinearCombination
  <2>8. k * j = j * k /\ k * i = i * k /\ (i * j) * k = i * (j * k) /\ j * k \in Int /\ i * k \in Int /\ i * j \in Int
    BY <1>4
  <2>9. l.n = r.n
    <3>1. \A p \in Tuple, q \in Tuple, s \in Tuple : Plus(Plus(p, q), s) = Plus(p, Plus(q, s))
      BY Components DEF Plus
    <3>2. Scale(j * k, P) \in Tuple /\ Scale(i * k, Q) \in Tuple /\ Scale(i * j, R) \in Tuple
      BY <1>4, <2>8, TupleClosure
    <3> QED BY <2>4, <2>5, <2>6, <2>7, <2>8, <3>1, <3>2
  <2>10. SameValue(l, r) /\ r \in Fraction
    BY <2>2, <2>4, <2>5, <2>8, <2>9 DEF SameValue, Denotes
  <2>11. Denotes(Add(Add(a, b), c), r)
    BY <2>1, <2>10, DenotesSame
  <2> QED BY <2>2, <2>11, DenotesUnique
<1>8. Add(a, Zero) = a
  <2> DEFINE s == F!Sum(A, O)
  <2>1. Denotes(Add(a, Zero), s)
    BY <1>1, <1>2, DenotesSum
  <2>2. s.n = Plus(Scale(1, P), Scale(i, ZeroTuple)) /\ s.d = i * 1
    BY <1>1, <1>2, <1>3, FieldClosure
  <2> HIDE DEF s, P, i
  <2>3. Plus(Scale(1, P), Scale(i, ZeroTuple)) = P /\ i * 1 = i
    <3>1. Scale(i, ZeroTuple) = ZeroTuple
      BY <1>4, ZeroTupleFacts
    <3>2. Plus(Scale(1, P), ZeroTuple) = P
      BY <1>4, Components DEF Plus, Scale, ZeroTuple
    <3> QED BY <1>4, <3>1, <3>2
  <2>4. SameValue(s, A)
    BY <2>2, <2>3 DEF SameValue, P, i
  <2>5. Denotes(Add(a, Zero), A)
    BY <1>1, <2>1, <2>4, DenotesSame
  <2> QED BY <1>1, <2>5, DenotesUnique
<1> QED BY <1>6, <1>7, <1>8

\* conj denotes the conjugate.
LEMMA DenotesConjugate ==
    ASSUME NEW z, NEW p, Denotes(z, p)
    PROVE  Denotes(conjugate(z), F!Conjugate(p))
<1> USE DEF Denotes
<1> DEFINE Z == Element(z)
<1>1. Z \in Fraction /\ z \in DwValue
  BY DenotesElement, CanonicalFacts
<1>2. Denotes(conjugate(z), F!Conjugate(Z))
  BY <1>1, ConjugateIsExact, FieldCoordinates, FieldClosure
<1>3. Z.n \in Tuple /\ Z.d \in Int /\ p.n \in Tuple /\ p.d \in Int
  BY <1>1, FractionFields
<1>4. Scale(p.d, Z.n) = Scale(Z.d, p.n)
  BY DEF SameValue
<1> HIDE DEF Z
<1>5. ASSUME NEW n \in Int, NEW r \in Tuple PROVE Scale(n, ConjTuple(r)) = ConjTuple(Scale(n, r))
  BY Components DEF Scale, ConjTuple
<1>6. Scale(p.d, ConjTuple(Z.n)) = Scale(Z.d, ConjTuple(p.n))
  BY <1>3, <1>4, <1>5
<1>7. F!Conjugate(Z).n = ConjTuple(Z.n) /\ F!Conjugate(Z).d = Z.d
  BY <1>1, FieldClosure
<1>8. F!Conjugate(p).n = ConjTuple(p.n) /\ F!Conjugate(p).d = p.d /\ F!Conjugate(p) \in Fraction
  BY FieldClosure
<1>9. SameValue(F!Conjugate(Z), F!Conjugate(p))
  BY <1>6, <1>7, <1>8 DEF SameValue
<1> QED BY <1>2, <1>8, <1>9, DenotesSame

\* conj is multiplicative.
LEMMA ConjugateTimes ==
    ASSUME NEW a, NEW b, Canonical(a), Canonical(b)
    PROVE  conjugate(Multiply(a, b)) = Multiply(conjugate(a), conjugate(b))
<1> DEFINE A == Element(a)
           B == Element(b)
<1>1. Denotes(a, A) /\ A \in Fraction /\ Denotes(b, B) /\ B \in Fraction
  BY DenotesElement
<1> HIDE DEF A, B
<1>2. F!Conjugate(F!Product(A, B)) = F!Product(F!Conjugate(A), F!Conjugate(B))
  <2>1. A.n \in Tuple /\ B.n \in Tuple
    BY <1>1, FractionFields
  <2>2. ConjTuple(mulTuple(A.n, B.n)) = mulTuple(ConjTuple(A.n), ConjTuple(B.n))
    BY <2>1, ConjugateProduct
  <2>3. F!Product(A, B) \in Fraction /\ F!Product(A, B).n = mulTuple(A.n, B.n) /\ F!Product(A, B).d = A.d * B.d
    BY <1>1, FieldClosure
  <2>4. /\ F!Conjugate(A) \in Fraction /\ F!Conjugate(A).n = ConjTuple(A.n) /\ F!Conjugate(A).d = A.d
        /\ F!Conjugate(B) \in Fraction /\ F!Conjugate(B).n = ConjTuple(B.n) /\ F!Conjugate(B).d = B.d
    BY <1>1, FieldClosure
  <2>5. F!Conjugate(F!Product(A, B)) = [n |-> ConjTuple(mulTuple(A.n, B.n)), d |-> A.d * B.d]
    BY <2>3, FieldClosure
  <2>6. F!Product(F!Conjugate(A), F!Conjugate(B))
           = [n |-> mulTuple(ConjTuple(A.n), ConjTuple(B.n)), d |-> A.d * B.d]
    BY <2>4, FieldClosure
  <2> QED BY <2>2, <2>5, <2>6
<1>3. Denotes(conjugate(Multiply(a, b)), F!Conjugate(F!Product(A, B)))
  BY <1>1, DenotesProduct, DenotesConjugate
<1>4. Denotes(Multiply(conjugate(a), conjugate(b)), F!Product(F!Conjugate(A), F!Conjugate(B)))
  <2>1. Denotes(conjugate(a), F!Conjugate(A)) /\ Denotes(conjugate(b), F!Conjugate(B))
    BY <1>1, DenotesConjugate
  <2> QED BY <2>1, DenotesProduct
<1> QED BY <1>2, <1>3, <1>4, DenotesUnique

\* Sums, products and conjugates of weights.
LEMMA SumLaws ==
    /\ \A w \in Weight : /\ Add(w, Zero) = w /\ Add(Zero, w) = w
                         /\ conjugate(Zero) = Zero /\ conjugate(w) \in Weight
    /\ \A w \in Weight, z \in Weight : /\ Add(w, z) = Add(z, w)
                                       /\ conjugate(Multiply(w, z)) = Multiply(conjugate(w), conjugate(z))
    /\ \A c \in Weight, w \in Weight, z \in Weight :
          /\ Add(Add(c, w), z) = Add(c, Add(w, z))
          /\ Multiply(c, Add(w, z)) = Add(Multiply(c, w), Multiply(c, z))
<1>1. ASSUME NEW c \in Weight, NEW w \in Weight, NEW z \in Weight
      PROVE  /\ Add(w, Zero) = w /\ Add(w, z) = Add(z, w) /\ Add(Add(c, w), z) = Add(c, Add(w, z))
             /\ Multiply(c, Add(w, z)) = Add(Multiply(c, w), Multiply(c, z))
  <2>1. Canonical(c) /\ Canonical(w) /\ Canonical(z)
    BY WeightIsCanonical
  <2>2. Add(w, Zero) = w /\ Add(w, z) = Add(z, w)
    BY <2>1, PlusLaws
  <2>3. Add(Add(c, w), z) = Add(c, Add(w, z))
    BY <2>1, PlusLaws
  <2>4. Multiply(Add(w, z), c) = Add(Multiply(w, c), Multiply(z, c))
    BY <2>1, TimesDistributes
  <2> QED BY <2>2, <2>3, <2>4, WeightLaws
<1>2. ASSUME NEW w \in Weight, NEW z \in Weight
      PROVE  conjugate(Multiply(w, z)) = Multiply(conjugate(w), conjugate(z))
  BY WeightIsCanonical, ConjugateTimes
<1>3. ASSUME NEW w \in Weight PROVE conjugate(Zero) = Zero /\ conjugate(w) \in Weight
  <2>1. Zero \in Weight /\ conjugate(Zero) \in Weight /\ conjugate(w) \in Weight
    BY WeightLaws, ConjugateLaws
  <2>2. conjugate(Multiply(Zero, Zero)) = Multiply(conjugate(Zero), conjugate(Zero))
    BY <1>2, <2>1
  <2>3. scaleUp(ZeroTuple, 0) = ZeroTuple /\ Pow2[0] = 1
    BY ZeroTupleFacts, Pow2Def
  <2>4. conjugate(Zero) = Zero
    <3>1. Element(Zero) = [n |-> ZeroTuple, d |-> 1]
      BY <2>3 DEF Element, Zero
    <3>2. Canonical(Zero)
      BY <2>1, WeightIsCanonical
    <3>3. Denotes(Zero, Element(Zero)) /\ Element(Zero) \in Fraction
      BY <3>2, DenotesElement
    <3>4. Denotes(conjugate(Zero), F!Conjugate(Element(Zero)))
      BY <3>3, DenotesConjugate
    <3>5. F!Conjugate(Element(Zero)) = [n |-> ConjTuple(ZeroTuple), d |-> 1]
      BY <3>1, <3>3, FieldClosure
    <3>6. ConjTuple(ZeroTuple) = ZeroTuple
      <4>1. ASSUME NEW n \in Int, n + n = 0 PROVE ConjTuple(<<n, n, n, n>>) = <<n, n, n, n>>
        <5>1. -n = n
          BY <4>1
        <5> QED BY <5>1 DEF ConjTuple
      <4>2. 0 \in Int /\ 0 + 0 = 0
        OBVIOUS
      <4>3. ConjTuple(<<0, 0, 0, 0>>) = <<0, 0, 0, 0>>
        BY <4>1, <4>2
      <4> QED BY <4>3 DEF ZeroTuple
    <3>7. Denotes(conjugate(Zero), Element(Zero))
      BY <3>1, <3>4, <3>5, <3>6
    <3> QED BY <3>3, <3>7, DenotesUnique
  <2> QED BY <2>1, <2>4
<1>4. \A w \in Weight : Add(Zero, w) = w
  <2>1. Zero \in Weight
    BY WeightLaws
  <2> QED BY <1>1, <2>1
<1> QED BY <1>1, <1>2, <1>3, <1>4

\* ... of any three.
LEMMA ThreeWeights ==
    ASSUME NEW c \in Weight, NEW w \in Weight, NEW z \in Weight
    PROVE  /\ Add(Add(c, w), z) = Add(c, Add(w, z))
           /\ Multiply(c, Add(w, z)) = Add(Multiply(c, w), Multiply(c, z))
           /\ Multiply(Multiply(c, w), z) = Multiply(c, Multiply(w, z))
BY SumLaws, WeightLaws

(***************************************************************************)
(* s + t sqrt(2) such that neither it nor s - t sqrt(2) is negative: the   *)
(* order that norms have, which sums and products keep.                    *)
(***************************************************************************)
Above(s, t) == s >= 0 /\ s * s >= 2 * (t * t)
AboveZero(p) == p \in Tuple /\ p[3] = 0 /\ p[2] + p[4] = 0 /\ Above(p[1], p[2])

\* Squares of numbers that are not negative are ordered as the numbers are.
LEMMA SquareRoots ==
    ASSUME NEW m \in Int, NEW n \in Int, m >= 0, m * m >= n * n
    PROVE  m >= n /\ m >= -n
<1>1. ASSUME NEW i \in Int, i > m PROVE i * i > m * m
  <2>1. i * i - m * m = (i - m) * (i + m) /\ i - m > 0 /\ i + m > 0
    BY <1>1
  <2>2. \A j \in Int, k \in Int : j > 0 /\ k > 0 => j * k > 0
    OBVIOUS
  <2> DEFINE j == i - m
             k == i + m
  <2>3. j * k > 0
    BY <2>1, <2>2
  <2> QED BY <2>1, <2>3
<1>2. (-n) * (-n) = n * n
  OBVIOUS
<1> QED BY <1>1, <1>2

\* The product of two such numbers.
LEMMA AboveProduct ==
    ASSUME NEW s \in Int, NEW t \in Int, NEW i \in Int, NEW j \in Int, Above(s, t), Above(i, j)
    PROVE  /\ s * i >= 2 * (t * j) /\ s * i >= -(2 * (t * j))
           /\ Above(s * i + 2 * (t * j), s * j + t * i)
<1> DEFINE ss == s * s
           tt == 2 * (t * t)
           ii == i * i
           jj == 2 * (j * j)
           si == s * i
           tj == 2 * (t * j)
           other == s * j + t * i
<1>1. ss \in Int /\ tt \in Int /\ ii \in Int /\ jj \in Int /\ si \in Int /\ tj \in Int /\ other \in Int
  OBVIOUS
<1>2. ss >= tt /\ ii >= jj /\ tt >= 0 /\ jj >= 0 /\ ii >= 0
  BY DEF Above
<1>3. si * si = ss * ii /\ tj * tj = tt * jj
  OBVIOUS
<1>4. si >= 0
  BY DEF Above
<1>5. (si + tj) * (si + tj) - 2 * (other * other) = (ss - tt) * (ii - jj)
  OBVIOUS
<1> HIDE DEF ss, tt, ii, jj, si, tj, other
<1>6. \A g \in Int, h \in Int : g >= 0 /\ h >= 0 => g * h >= 0
  OBVIOUS
<1>7. ss * ii >= tt * jj
  <2> DEFINE g == ss - tt
             h == ii - jj
  <2>1. g \in Int /\ h \in Int /\ g >= 0 /\ h >= 0
    BY <1>1, <1>2
  <2>2. g * ii >= 0 /\ tt * h >= 0
    BY <2>1, <1>1, <1>2, <1>6
  <2>3. ss * ii - tt * jj = g * ii + tt * h
    BY <1>1
  <2> HIDE DEF g, h
  <2> QED BY <1>1, <2>1, <2>2, <2>3
<1>8. si >= tj /\ si >= -tj
  BY <1>1, <1>3, <1>4, <1>7, SquareRoots
<1>9. (ss - tt) * (ii - jj) >= 0
  <2> DEFINE g == ss - tt
             h == ii - jj
  <2>1. g \in Int /\ h \in Int /\ g >= 0 /\ h >= 0
    BY <1>1, <1>2
  <2> HIDE DEF g, h
  <2>2. g * h >= 0
    BY <2>1, <1>6
  <2> QED BY <2>2 DEF g, h
<1>10. Above(si + tj, other)
  <2> DEFINE g == (si + tj) * (si + tj)
             h == 2 * (other * other)
  <2>1. g \in Int /\ h \in Int
    BY <1>1
  <2>2. g - h >= 0
    BY <1>5, <1>9
  <2> HIDE DEF g, h
  <2>3. g >= h
    BY <2>1, <2>2
  <2>4. si + tj >= 0
    BY <1>1, <1>8
  <2> QED BY <2>3, <2>4 DEF Above, g, h
<1> QED BY <1>8, <1>10 DEF si, tj, other

\* The sum of two such numbers, and a multiple of one.
LEMMA AboveSum ==
    ASSUME NEW s \in Int, NEW t \in Int, NEW i \in Int, NEW j \in Int, Above(s, t), Above(i, j)
    PROVE  Above(s + i, t + j)
<1> DEFINE ss == s * s
           tt == 2 * (t * t)
           ii == i * i
           jj == 2 * (j * j)
           si == s * i
           tj == 2 * (t * j)
           g == (s + i) * (s + i)
           h == 2 * ((t + j) * (t + j))
<1>1. ss \in Int /\ tt \in Int /\ ii \in Int /\ jj \in Int /\ si \in Int /\ tj \in Int /\ g \in Int /\ h \in Int
  OBVIOUS
<1>2. ss >= tt /\ ii >= jj /\ si >= tj
  BY AboveProduct DEF Above
<1>3. g = ss + ii + 2 * si /\ h = tt + jj + 2 * tj
  OBVIOUS
<1> HIDE DEF ss, tt, ii, jj, si, tj, g, h
<1>4. g >= h
  BY <1>1, <1>2, <1>3
<1>5. s + i >= 0
  BY DEF Above
<1> QED BY <1>4, <1>5 DEF Above, g, h

\* Numbers that add up to 0.
LEMMA Opposites ==
    /\ \A s \in Int, t \in Int : s + t = 0 <=> t = -s
    /\ \A s \in Int, t \in Int : s + t = 0 <=> s = -t
    /\ \A s \in Int : s = 0 => -s = s
<1>1. \A s \in Int, t \in Int : (s + t = 0 <=> t = -s) /\ (s + t = 0 <=> s = -t)
  OBVIOUS
<1>2. ASSUME NEW s \in Int, s = 0 PROVE -s = s
  <2>1. s + s = 0
    BY <1>2
  <2> QED BY <2>1, <1>1
<1> QED BY <1>1, <1>2

\* A multiple of one, and of what is one.
LEMMA AboveScaled ==
    ASSUME NEW s \in Int, NEW t \in Int, NEW n \in Nat \ {0}
    PROVE  Above(n * s, n * t) <=> Above(s, t)
<1> DEFINE nn == n * n
           d == s * s - 2 * (t * t)
<1>1. nn \in Int /\ d \in Int /\ nn > 0
  BY DEF nn
<1>2. (n * s) * (n * s) - 2 * ((n * t) * (n * t)) = nn * d
  OBVIOUS
<1> HIDE DEF nn
<1>3. nn * d >= 0 <=> d >= 0
  <2> HIDE DEF d
  <2> QED BY <1>1
<1>4. n * s >= 0 <=> s >= 0
  OBVIOUS
<1> DEFINE g == (n * s) * (n * s)
           h == 2 * ((n * t) * (n * t))
<1>5. g \in Int /\ h \in Int /\ (g >= h <=> g - h >= 0)
  OBVIOUS
<1>6. s * s >= 2 * (t * t) <=> d >= 0
  OBVIOUS
<1> HIDE DEF d
<1>7. g >= h <=> d >= 0
  BY <1>2, <1>3, <1>5
<1> QED BY <1>4, <1>6, <1>7 DEF Above

\* Sums, multiples and products of tuples.
LEMMA AboveZeroClosure ==
    /\ \A p \in Tuple, n \in Nat \ {0} : AboveZero(Scale(n, p)) <=> AboveZero(p)
    /\ \A p, q : AboveZero(p) /\ AboveZero(q) => AboveZero(Plus(p, q)) /\ AboveZero(mulTuple(p, q))
<1>1. ASSUME NEW p \in Tuple, NEW n \in Nat \ {0} PROVE AboveZero(Scale(n, p)) <=> AboveZero(p)
  <2>1. /\ p[1] \in Int /\ p[2] \in Int /\ p[3] \in Int /\ p[4] \in Int
        /\ Scale(n, p) \in Tuple
        /\ Scale(n, p)[1] = n * p[1] /\ Scale(n, p)[2] = n * p[2]
        /\ Scale(n, p)[3] = n * p[3] /\ Scale(n, p)[4] = n * p[4]
    BY Components, TupleClosure DEF Scale
  <2>2. n * p[3] = 0 <=> p[3] = 0
    BY <2>1
  <2>3. n * p[2] + n * p[4] = 0 <=> p[2] + p[4] = 0
    <3>1. n * p[2] + n * p[4] = n * (p[2] + p[4]) /\ p[2] + p[4] \in Int
      BY <2>1
    <3> DEFINE s == p[2] + p[4]
    <3>2. s \in Int
      BY <3>1
    <3> HIDE DEF s
    <3>3. n * s = 0 <=> s = 0
      BY <3>2
    <3> QED BY <3>1, <3>3 DEF s
  <2>4. Above(n * p[1], n * p[2]) <=> Above(p[1], p[2])
    BY <2>1, AboveScaled
  <2> QED BY <2>1, <2>2, <2>3, <2>4 DEF AboveZero
<1>2. ASSUME NEW p, NEW q, AboveZero(p), AboveZero(q) PROVE AboveZero(Plus(p, q)) /\ AboveZero(mulTuple(p, q))
  <2>1. /\ p \in Tuple /\ q \in Tuple
        /\ p[1] \in Int /\ p[2] \in Int /\ p[4] \in Int /\ p[3] = 0 /\ p[2] + p[4] = 0
        /\ q[1] \in Int /\ q[2] \in Int /\ q[4] \in Int /\ q[3] = 0 /\ q[2] + q[4] = 0
        /\ Above(p[1], p[2]) /\ Above(q[1], q[2])
    BY <1>2, Components DEF AboveZero
  <2>2. /\ Plus(p, q) \in Tuple /\ mulTuple(p, q) \in Tuple
    BY <2>1, TupleClosure
  <2>3. AboveZero(Plus(p, q))
    <3>1. /\ Plus(p, q)[1] = p[1] + q[1] /\ Plus(p, q)[2] = p[2] + q[2]
          /\ Plus(p, q)[3] = 0 /\ Plus(p, q)[2] + Plus(p, q)[4] = 0
      BY <2>1 DEF Plus
    <3>2. Above(p[1] + q[1], p[2] + q[2])
      BY <2>1, AboveSum
    <3> QED BY <2>2, <3>1, <3>2 DEF AboveZero
  <2>4. AboveZero(mulTuple(p, q))
    <3>1. \A s \in Int, t \in Int, i \in Int, j \in Int :
             mulTuple(<<s, t, 0, -t>>, <<i, j, 0, -j>>)
                = <<s * i + 2 * (t * j), s * j + t * i, 0, -(s * j + t * i)>>
      BY DEF mulTuple
    <3>3. p = <<p[1], p[2], 0, -p[2]>> /\ q = <<q[1], q[2], 0, -q[2]>>
      BY <2>1, Components, Opposites
    <3>4. mulTuple(p, q) = <<p[1] * q[1] + 2 * (p[2] * q[2]), p[1] * q[2] + p[2] * q[1], 0,
                             -(p[1] * q[2] + p[2] * q[1])>>
      BY <2>1, <3>1, <3>3
    <3>2. Above(p[1] * q[1] + 2 * (p[2] * q[2]), p[1] * q[2] + p[2] * q[1])
      BY <2>1, AboveProduct
    <3>5. p[1] * q[1] + 2 * (p[2] * q[2]) \in Int /\ p[1] * q[2] + p[2] * q[1] \in Int
      BY <2>1
    <3>6. mulTuple(p, q)[2] + mulTuple(p, q)[4] = 0
      BY <3>4, <3>5
    <3> QED BY <2>2, <3>2, <3>4, <3>6 DEF AboveZero
  <2> QED BY <2>3, <2>4
<1> QED BY <1>1, <1>2

\* The norm of a tuple is such a number, and one is its own conjugate.
LEMMA NormAboveZero ==
    /\ \A p \in Tuple : AboveZero(mulTuple(ConjTuple(p), p))
    /\ \A p : AboveZero(p) => ConjTuple(p) = p
    /\ AboveZero(ZeroTuple)
<1>1. ASSUME NEW p \in Tuple PROVE AboveZero(mulTuple(ConjTuple(p), p))
  <2> DEFINE s == normX(p)
             t == normY(p)
  <2>1. ConjTuple(p) \in Tuple
    BY TupleClosure
  <2>2. mulTuple(ConjTuple(p), p) = <<s, t, 0, -t>>
    BY <2>1, MulTupleCommutes, NormTuple
  <2>3. s \in Int /\ t \in Int /\ s >= 0
    <3>1. p[1] \in Int /\ p[2] \in Int /\ p[3] \in Int /\ p[4] \in Int
      BY Components
    <3>2. \A i \in Int : i * i >= 0
      OBVIOUS
    <3> QED BY <3>1, <3>2 DEF normX, normY
  <2>4. s * s - 2 * t * t >= 0
    BY InverseDenominatorSign
  <2> HIDE DEF s, t
  <2>5. Above(s, t)
    <3> DEFINE g == s * s
               h == t * t
    <3>1. g \in Int /\ h \in Int /\ 2 * t * t = 2 * h
      BY <2>3
    <3>2. g - 2 * h >= 0
      BY <2>4, <3>1
    <3> HIDE DEF g, h
    <3>3. g >= 2 * h
      BY <3>1, <3>2
    <3> QED BY <2>3, <3>3 DEF Above, g, h
  <2>6. <<s, t, 0, -t>> \in Tuple
    BY <2>3 DEF Tuple
  <2>7. t + -t = 0
    BY <2>3
  <2> QED BY <2>2, <2>3, <2>5, <2>6, <2>7 DEF AboveZero
<1>2. ASSUME NEW p, AboveZero(p) PROVE ConjTuple(p) = p
  <2>1. /\ p = <<p[1], p[2], p[3], p[4]>> /\ p[1] \in Int /\ p[2] \in Int
        /\ p[4] \in Int /\ p[3] = 0 /\ p[2] + p[4] = 0
    BY <1>2, Components DEF AboveZero
  <2>2. -p[4] = p[2] /\ -p[2] = p[4]
    BY <2>1, Opposites
  <2>3. -p[3] = p[3]
    <3>1. p[3] \in Int
      BY <1>2, Components DEF AboveZero
    <3>2. \A s \in Int : s = 0 => -s = s
      BY Opposites
    <3> QED BY <3>1, <3>2, <2>1
  <2>4. ConjTuple(p) = <<p[1], p[2], p[3], p[4]>>
    BY <2>2, <2>3 DEF ConjTuple
  <2> QED BY <2>1, <2>4
<1>3. AboveZero(ZeroTuple)
  <2>1. /\ ZeroTuple \in Tuple /\ ZeroTuple[1] = 0 /\ ZeroTuple[2] = 0
        /\ ZeroTuple[3] = 0 /\ ZeroTuple[4] = 0
    BY ZeroTupleFacts DEF ZeroTuple
  <2>2. Above(0, 0)
    BY DEF Above
  <2> QED BY <2>1, <2>2 DEF AboveZero
<1> QED BY <1>1, <1>2, <1>3

\* Only zeros add up to zero.
LEMMA AboveZeroSum ==
    ASSUME NEW p, NEW q, AboveZero(p), AboveZero(q), Plus(p, q) = ZeroTuple
    PROVE  p = ZeroTuple /\ q = ZeroTuple
<1>1. /\ p = <<p[1], p[2], p[3], p[4]>> /\ q = <<q[1], q[2], q[3], q[4]>>
      /\ p[1] \in Int /\ p[2] \in Int /\ q[1] \in Int /\ q[2] \in Int
      /\ p[4] \in Int /\ q[4] \in Int
      /\ p[3] = 0 /\ p[2] + p[4] = 0 /\ q[3] = 0 /\ q[2] + q[4] = 0
      /\ Above(p[1], p[2]) /\ Above(q[1], q[2])
  BY Components DEF AboveZero
<1>2. p[1] + q[1] = 0
  BY DEF Plus, ZeroTuple
<1>3. p[1] = 0 /\ q[1] = 0
  BY <1>1, <1>2 DEF Above
<1>4. ASSUME NEW t \in Int, Above(0, t) PROVE t = 0
  BY <1>4 DEF Above
<1>5. p[2] = 0 /\ q[2] = 0
  BY <1>1, <1>3, <1>4
<1>6. p[4] = 0 /\ q[4] = 0
  BY <1>1, <1>5
<1>7. p[3] = 0 /\ q[3] = 0
  BY <1>1
<1>8. p = <<0, 0, 0, 0>>
  BY <1>1, <1>3, <1>5, <1>6, <1>7
<1>9. q = <<0, 0, 0, 0>>
  BY <1>1, <1>3, <1>5, <1>6, <1>7
<1> QED BY <1>8, <1>9 DEF ZeroTuple

\* A value that is not negative in this order.
NormLike(z) == Canonical(z) /\ AboveZero(Element(z).n)

\* Equal elements are in that order both or neither.
LEMMA SameAbove ==
    ASSUME NEW p \in Fraction, NEW q \in Fraction, SameValue(p, q), AboveZero(p.n)
    PROVE  AboveZero(q.n)
<1>1. p.n \in Tuple /\ q.n \in Tuple /\ p.d \in Nat \ {0} /\ q.d \in Nat \ {0}
  BY FractionFields
<1>2. AboveZero(Scale(q.d, p.n))
  BY <1>1, AboveZeroClosure
<1>3. AboveZero(Scale(p.d, q.n))
  BY <1>2 DEF SameValue
<1> QED BY <1>1, <1>3, AboveZeroClosure

\* A value is if an element that it denotes is.
LEMMA DenotesAbove ==
    ASSUME NEW z, NEW p, Denotes(z, p), AboveZero(p.n)
    PROVE  NormLike(z)
<1>1. Canonical(z) /\ p \in Fraction /\ SameValue(Element(z), p)
  BY DEF Denotes
<1>2. Element(z) \in Fraction /\ SameValue(p, Element(z))
  BY <1>1, DenotesElement, SameSymmetric
<1> QED BY <1>1, <1>2, SameAbove DEF NormLike

\* Sums and products of such values are such values, and so are the norms.
LEMMA NormLikeClosure ==
    /\ \A y, z : NormLike(y) /\ NormLike(z) => NormLike(Add(y, z)) /\ NormLike(Multiply(y, z))
    /\ \A z : Canonical(z) => NormLike(Multiply(conjugate(z), z))
    /\ NormLike(Zero)
<1>1. ASSUME NEW y, NEW z, NormLike(y), NormLike(z) PROVE NormLike(Add(y, z)) /\ NormLike(Multiply(y, z))
  <2> DEFINE Y == Element(y)
             Z == Element(z)
  <2>1. Denotes(y, Y) /\ Y \in Fraction /\ Denotes(z, Z) /\ Z \in Fraction /\ AboveZero(Y.n) /\ AboveZero(Z.n)
    BY <1>1, DenotesElement DEF NormLike
  <2> HIDE DEF Y, Z
  <2>2. Y.n \in Tuple /\ Z.n \in Tuple /\ Y.d \in Nat \ {0} /\ Z.d \in Nat \ {0}
    BY <2>1, FractionFields
  <2>3. AboveZero(F!Sum(Y, Z).n)
    <3>1. F!Sum(Y, Z).n = Plus(Scale(Z.d, Y.n), Scale(Y.d, Z.n))
      BY <2>1, FieldClosure
    <3>2. AboveZero(Scale(Z.d, Y.n)) /\ AboveZero(Scale(Y.d, Z.n))
      BY <2>1, <2>2, AboveZeroClosure
    <3> QED BY <3>1, <3>2, AboveZeroClosure
  <2>4. AboveZero(F!Product(Y, Z).n)
    <3>1. F!Product(Y, Z).n = mulTuple(Y.n, Z.n)
      BY <2>1, FieldClosure
    <3> QED BY <3>1, <2>1, AboveZeroClosure
  <2>5. Denotes(Add(y, z), F!Sum(Y, Z)) /\ Denotes(Multiply(y, z), F!Product(Y, Z))
    BY <2>1, DenotesSum, DenotesProduct
  <2> QED BY <2>3, <2>4, <2>5, DenotesAbove
<1>2. ASSUME NEW z, Canonical(z) PROVE NormLike(Multiply(conjugate(z), z))
  <2> DEFINE Z == Element(z)
             C == F!Conjugate(Z)
  <2>1. Denotes(z, Z) /\ Z \in Fraction
    BY <1>2, DenotesElement
  <2>2. C \in Fraction /\ C.n = ConjTuple(Z.n) /\ Denotes(conjugate(z), C)
    BY <2>1, FieldClosure, DenotesConjugate
  <2> HIDE DEF Z, C
  <2>3. Denotes(Multiply(conjugate(z), z), F!Product(C, Z)) /\ F!Product(C, Z).n = mulTuple(C.n, Z.n)
    BY <2>1, <2>2, DenotesProduct, FieldClosure
  <2>4. Z.n \in Tuple
    BY <2>1, FractionFields
  <2>5. AboveZero(F!Product(C, Z).n)
    BY <2>2, <2>3, <2>4, NormAboveZero
  <2> QED BY <2>3, <2>5, DenotesAbove
<1>3. NormLike(Zero)
  BY Constants, NormAboveZero DEF NormLike
<1> QED BY <1>1, <1>2, <1>3

\* Such a value is its own conjugate, and the sum of two is 0 only if both are.
LEMMA NormLikeFacts ==
    /\ \A z : NormLike(z) => conjugate(z) = z
    /\ \A y, z : NormLike(y) /\ NormLike(z) /\ Add(y, z) = Zero => y = Zero /\ z = Zero
<1>1. ASSUME NEW z, NormLike(z) PROVE conjugate(z) = z
  <2> DEFINE Z == Element(z)
  <2>1. Denotes(z, Z) /\ Z \in Fraction /\ AboveZero(Z.n)
    BY <1>1, DenotesElement DEF NormLike
  <2> HIDE DEF Z
  <2>2. Z = [n |-> Z.n, d |-> Z.d]
    BY <2>1, FractionFields
  <2>3. F!Conjugate(Z) = [n |-> ConjTuple(Z.n), d |-> Z.d]
    BY <2>1, FieldClosure
  <2>4. ConjTuple(Z.n) = Z.n
    BY <2>1, NormAboveZero
  <2>5. F!Conjugate(Z) = Z
    BY <2>2, <2>3, <2>4
  <2>6. Denotes(conjugate(z), Z)
    BY <2>1, <2>5, DenotesConjugate
  <2> QED BY <2>1, <2>6, DenotesUnique
<1>2. ASSUME NEW z, Canonical(z), Element(z).n = ZeroTuple PROVE z = Zero
  <2>1. z.t \in Tuple /\ z.k \in Nat /\ z.e \in Nat \ {0} /\ z \in DwValue
    BY <1>2, CanonicalFacts
  <2>2. scaleUp(z.t, z.k) = ZeroTuple
    BY <1>2, <2>1, ElementFields, ValueFields
  <2>3. z.t = ZeroTuple
    BY <2>1, <2>2, ZeroTupleFacts
  <2> QED BY <1>2, <2>3, OneAndZero DEF isZero
<1>3. ASSUME NEW y, NEW z, NormLike(y), NormLike(z), Add(y, z) = Zero PROVE y = Zero /\ z = Zero
  <2> DEFINE Y == Element(y)
             Z == Element(z)
  <2>1. Denotes(y, Y) /\ Y \in Fraction /\ Denotes(z, Z) /\ Z \in Fraction /\ AboveZero(Y.n) /\ AboveZero(Z.n)
    BY <1>3, DenotesElement DEF NormLike
  <2> HIDE DEF Y, Z
  <2>2. Y.n \in Tuple /\ Z.n \in Tuple /\ Y.d \in Nat \ {0} /\ Z.d \in Nat \ {0}
    BY <2>1, FractionFields
  <2> DEFINE p == Scale(Z.d, Y.n)
             q == Scale(Y.d, Z.n)
             S == F!Sum(Y, Z)
  <2>3. S \in Fraction /\ S.n = Plus(p, q)
    BY <2>1, FieldClosure
  <2>4. AboveZero(p) /\ AboveZero(q)
    BY <2>1, <2>2, AboveZeroClosure
  <2>5. Denotes(Zero, S)
    BY <1>3, <2>1, DenotesSum
  <2>6. S.n = ZeroTuple
    <3>1. SameValue([n |-> ZeroTuple, d |-> 1], S)
      BY <2>5, Constants DEF Denotes
    <3>2. Scale(S.d, ZeroTuple) = Scale(1, S.n)
      BY <3>1 DEF SameValue
    <3>3. S.d \in Int /\ S.n \in Tuple
      BY <2>3, FractionFields
    <3> HIDE DEF S
    <3> QED BY <3>2, <3>3, ZeroTupleFacts, ScaleOne
  <2>7. p = ZeroTuple /\ q = ZeroTuple
    <3> HIDE DEF p, q, S
    <3> QED BY <2>3, <2>4, <2>6, AboveZeroSum
  <2>8. Y.n = ZeroTuple /\ Z.n = ZeroTuple
    BY <2>2, <2>7, ZeroTupleFacts
  <2> QED BY <1>2, <1>3, <2>8 DEF Y, Z, NormLike
<1> QED BY <1>1, <1>3

\* s + t sqrt(2), from the first two coefficients, is not negative.
NonNegativePair(s, t) ==
    \/ s >= 0 /\ (t >= 0 \/ s * s >= 2 * t * t)
    \/ t > 0 /\ 2 * t * t >= s * s

\* Such a value is not negative, whatever power of sqrt(2) it is over.
LEMMA NormLikeSign ==
    ASSUME NEW z, NormLike(z)
    PROVE  NonNegativePair(z.t[1], z.t[2])
<1> DEFINE n == Pow2[z.k \div 2]
           p == Scale(n, z.t)
           s == z.t[1]
           t == z.t[2]
           i == z.t[3]
           j == z.t[4]
<1>1. z.t \in Tuple /\ z.k \in Nat /\ z.e \in Nat \ {0} /\ z \in DwValue
  BY CanonicalFacts DEF NormLike
<1>2. AboveZero(scaleUp(z.t, z.k))
  BY <1>1, ElementFields, ValueFields DEF NormLike
<1>3. s \in Int /\ t \in Int /\ i \in Int /\ j \in Int
  BY <1>1, Components
<1>4. n \in Nat \ {0}
  <2>1. z.k \div 2 \in Nat
    BY <1>1
  <2> QED BY <2>1, Pow2Def
<1>5. CASE z.k % 2 # 1
  <2>1. scaleUp(z.t, z.k) = p
    BY <1>5 DEF scaleUp
  <2>2. AboveZero(z.t)
    BY <1>1, <1>2, <1>4, <2>1, AboveZeroClosure
  <2>3. Above(s, t)
    BY <2>2 DEF AboveZero
  <2> HIDE DEF s, t
  <2>4. 2 * t * t = 2 * (t * t)
    BY <1>3
  <2>5. NonNegativePair(s, t)
    BY <2>3, <2>4 DEF Above, NonNegativePair
  <2> QED BY <2>5 DEF s, t
<1>6. CASE z.k % 2 = 1
  <2>1. scaleUp(z.t, z.k) = TimesSqrt2(p)
    BY <1>6 DEF scaleUp
  <2>2. TimesSqrt2(p) = Scale(n, TimesSqrt2(z.t)) /\ TimesSqrt2(z.t) \in Tuple
    BY <1>1, <1>4, ScaleIsLinear, TupleClosure
  <2>3. AboveZero(TimesSqrt2(z.t))
    BY <1>2, <1>4, <2>1, <2>2, AboveZeroClosure
  <2>4. TimesSqrt2(z.t) = <<t - j, s + i, t + j, i - s>>
    BY DEF TimesSqrt2
  <2> HIDE DEF s, t, i, j
  <2>5. t + j = 0 /\ (s + i) + (i - s) = 0 /\ Above(t - j, s + i)
    BY <2>3, <2>4 DEF AboveZero
  <2>6. i = 0 /\ t - j = 2 * t /\ s + i = s
    BY <1>3, <2>5
  <2>7. 2 * t >= 0 /\ (2 * t) * (2 * t) >= 2 * (s * s)
    BY <2>5, <2>6 DEF Above
  <2>8. (2 * t) * (2 * t) = 4 * (t * t) /\ 2 * t * t = 2 * (t * t)
    BY <1>3
  <2> DEFINE tt == t * t
             ss == s * s
  <2>9. tt \in Int /\ ss \in Int /\ ss >= 0
    BY <1>3
  <2>10. t >= 0 /\ 2 * tt >= ss
    <3>1. 4 * tt >= 2 * ss
      BY <2>7, <2>8
    <3> HIDE DEF tt, ss
    <3> QED BY <1>3, <2>7, <2>9, <3>1
  <2>11. CASE t > 0
    BY <2>8, <2>10, <2>11 DEF NonNegativePair, s, t
  <2>12. CASE t = 0
    <3>1. tt = 0
      BY <2>12
    <3>2. ss = 0
      <4> HIDE DEF ss, tt
      <4> QED BY <2>9, <2>10, <3>1
    <3>3. s >= 0
      BY <1>3, <3>2
    <3> QED BY <2>12, <3>3 DEF NonNegativePair, s, t
  <2> QED BY <1>3, <2>10, <2>11, <2>12
<1> QED BY <1>5, <1>6

\* conj is additive, and undoes itself.
LEMMA ConjugateSums ==
    /\ \A w \in Weight : conjugate(conjugate(w)) = w
    /\ \A w \in Weight, z \in Weight : conjugate(Add(w, z)) = Add(conjugate(w), conjugate(z))
<1>1. ASSUME NEW w \in Weight PROVE conjugate(conjugate(w)) = w
  <2> DEFINE W == Element(w)
             C == F!Conjugate(W)
  <2>1. Denotes(w, W) /\ W \in Fraction
    BY WeightIsCanonical, DenotesElement
  <2> HIDE DEF W
  <2>2. C \in Fraction /\ C.n = ConjTuple(W.n) /\ C.d = W.d
    BY <2>1, FieldClosure
  <2>3. Denotes(conjugate(conjugate(w)), F!Conjugate(C))
    BY <2>1, DenotesConjugate
  <2> HIDE DEF C
  <2>4. F!Conjugate(C) = [n |-> ConjTuple(ConjTuple(W.n)), d |-> W.d]
    BY <2>2, FieldClosure
  <2>5. W.n \in Tuple /\ W = [n |-> W.n, d |-> W.d]
    BY <2>1, FractionFields
  <2>6. ASSUME NEW p \in Tuple PROVE ConjTuple(ConjTuple(p)) = p
    BY Components DEF ConjTuple
  <2>7. F!Conjugate(C) = W
    BY <2>4, <2>5, <2>6
  <2>8. Denotes(conjugate(conjugate(w)), W)
    BY <2>3, <2>7
  <2> QED BY <2>1, <2>8, DenotesUnique
<1>2. ASSUME NEW w \in Weight, NEW z \in Weight
      PROVE  conjugate(Add(w, z)) = Add(conjugate(w), conjugate(z))
  <2> DEFINE W == Element(w)
             Z == Element(z)
             C == F!Conjugate(W)
             D == F!Conjugate(Z)
  <2>1. Denotes(w, W) /\ W \in Fraction /\ Denotes(z, Z) /\ Z \in Fraction
    BY WeightIsCanonical, DenotesElement
  <2> HIDE DEF W, Z
  <2>2. /\ C \in Fraction /\ C.n = ConjTuple(W.n) /\ C.d = W.d
        /\ D \in Fraction /\ D.n = ConjTuple(Z.n) /\ D.d = Z.d
    BY <2>1, FieldClosure
  <2>3. Denotes(conjugate(w), C) /\ Denotes(conjugate(z), D)
    BY <2>1, DenotesConjugate
  <2> HIDE DEF C, D
  <2>4. Denotes(Add(conjugate(w), conjugate(z)), F!Sum(C, D))
    BY <2>3, DenotesSum
  <2> DEFINE S == F!Sum(W, Z)
             T == F!Sum(C, D)
             R == F!Conjugate(S)
  <2>5. Denotes(conjugate(Add(w, z)), R)
    BY <2>1, DenotesSum, DenotesConjugate
  <2>6. /\ S \in Fraction /\ S.n = Plus(Scale(Z.d, W.n), Scale(W.d, Z.n)) /\ S.d = W.d * Z.d
        /\ T \in Fraction /\ T.n = Plus(Scale(Z.d, ConjTuple(W.n)), Scale(W.d, ConjTuple(Z.n))) /\ T.d = W.d * Z.d
    BY <2>1, <2>2, FieldClosure
  <2> HIDE DEF S, T
  <2>7. R = [n |-> ConjTuple(S.n), d |-> S.d]
    BY <2>6, FieldClosure
  <2>8. W.n \in Tuple /\ Z.n \in Tuple /\ W.d \in Int /\ Z.d \in Int
    BY <2>1, FractionFields
  <2>9. ASSUME NEW m \in Int, NEW n \in Int, NEW p \in Tuple, NEW q \in Tuple
        PROVE  ConjTuple(Plus(Scale(m, p), Scale(n, q))) = Plus(Scale(m, ConjTuple(p)), Scale(n, ConjTuple(q)))
    BY Components DEF ConjTuple, Plus, Scale
  <2>10. ConjTuple(S.n) = T.n
    BY <2>6, <2>8, <2>9
  <2>11. T = [n |-> T.n, d |-> T.d]
    BY <2>6, FractionFields
  <2>12. R = T
    BY <2>6, <2>7, <2>10, <2>11
  <2> QED BY <2>4, <2>5, <2>12, DenotesUnique DEF T
<1> QED BY <1>1, <1>2

\* The opposite of a weight, in sums and products.
LEMMA OppositeLaws ==
    /\ \A w \in Weight : Negate(w) \in Weight /\ Add(w, Negate(w)) = Zero
    /\ \A w \in Weight, z \in Weight : Multiply(Negate(w), z) = Negate(Multiply(w, z))
<1>1. ASSUME NEW w \in Weight PROVE Negate(w) \in Weight /\ Add(w, Negate(w)) = Zero
  <2>1. Canonical(w) /\ Canonical(Zero)
    BY WeightIsCanonical, Constants
  <2>2. Negate(w) \in Weight
    BY <2>1, CanonicalClosure, WeightIsCanonical
  <2>3. Zero \in Weight /\ isZero(Zero)
    BY WeightLaws
  <2>4. Add(Subtract(Zero, w), w) = Zero
    BY <2>1, DifferencePlus
  <2>5. Subtract(Zero, w) = Negate(w)
    BY <2>2, SumLaws DEF Subtract
  <2> QED BY <2>2, <2>4, <2>5, SumLaws
<1>2. ASSUME NEW w \in Weight, NEW z \in Weight PROVE Multiply(Negate(w), z) = Negate(Multiply(w, z))
  BY WeightIsCanonical, NegateTimes
<1> QED BY <1>1, <1>2

\* A product is 0 only if a factor is.
LEMMA ProductNotZero ==
    ASSUME NEW w \in Weight, NEW z \in Weight
    PROVE  Multiply(w, z) = Zero <=> w = Zero \/ z = Zero
<1>1. w # Zero /\ z # Zero => Multiply(w, z) # Zero
  BY NonZeroLaws DEF NonZero
<1> QED BY <1>1, WeightLaws

\* A product of a conjugate is 0 if a factor is.
LEMMA ZeroFactor ==
    ASSUME NEW w \in Weight, NEW z \in Weight, isZero(w) \/ isZero(z)
    PROVE  Multiply(conjugate(w), z) = Zero
<1> DEFINE c == conjugate(w)
<1>1. w = Zero \/ z = Zero
  BY WeightLaws
<1>2. c \in Weight /\ (w = Zero => c = Zero)
  BY SumLaws
<1> HIDE DEF c
<1>3. Multiply(c, Zero) = Zero /\ Multiply(Zero, z) = Zero
  BY <1>2, WeightLaws
<1>4. Multiply(c, z) = Zero
  BY <1>1, <1>2, <1>3
<1> QED BY <1>4 DEF c
=============================================================================
