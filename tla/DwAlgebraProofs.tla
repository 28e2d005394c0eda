-------------------------- MODULE DwAlgebraProofs --------------------------
(***************************************************************************)
(* The decision diagrams compute the linear algebra, for every number of   *)
(* qubits, every strategy and every input.                                 *)
(*                                                                         *)
(* For each operation of DwPackage a lemma says what is read of its        *)
(* result, in terms of what is read of its arguments (addition and         *)
(* multiplication: DwCalculatorProofs): if its recursive calls do, it      *)
(* does, and induction over the qubits does the rest.  The loops that      *)
(* build gates and basis states are read qubit by qubit.                   *)
(*                                                                         *)
(* DiagramsImplementAlgebra puts them together: each step of a client of   *)
(* the diagrams is a step of DenseAlgebra on the vectors and matrices that *)
(* the client's edges stand for.                                           *)
(*                                                                         *)
(* What is computed of two vectors follows.  innerProduct is the sum over  *)
(* all amplitudes (InnerIsDot).  A measurement splits the squared norm of  *)
(* what it leaves behind (MeasurementsAlwaysComplete), and a fidelity is   *)
(* a number between 0 and the product of the norms, the inequality of      *)
(* Cauchy and Schwarz (InnerProductsAlwaysExact).                          *)
(*                                                                         *)
(* Last, gates: a matrix whose columns are orthonormal keeps the norm of   *)
(* each vector, the columns of a controlled gate are orthonormal when      *)
(* those of its 2 x 2 or 4 x 4 matrix are, and those of each matrix of     *)
(* DwGateMatrixDefinitions are (NamedGatesKeepNorm).                       *)
(***************************************************************************)
EXTENDS DwCalculatorProofs

\* The indices of the algebra, and their bits.
Positions == 1..Pow2[NumQubits]

\* The algebra's indices and qubits are those of the diagrams.
LEMMA AlgebraIndices ==
    /\ Algebra!Size = Pow2 /\ Algebra!Index = Positions
    /\ Algebra!Qubit = 0..NumQubits - 1
    /\ \A i \in Positions : i - 1 \in Nat /\ i - 1 < Pow2[NumQubits] /\ i = (i - 1) + 1
    /\ NumQubits \in Nat /\ Pow2[NumQubits] \in Nat
    /\ \A k \in Nat : k < Pow2[NumQubits] => k + 1 \in Positions
<1>1. Algebra!Size = Pow2
  BY DEF Algebra!Size, Pow2
<1>2. Algebra!Index = Positions
  BY <1>1 DEF Algebra!Index, Positions
<1>3. NumQubits \in Nat /\ Pow2[NumQubits] \in Nat
  BY QubitsAssumption, Pow2Def
<1>4. Algebra!Qubit = 0..NumQubits - 1
  BY DEF Algebra!Qubit
<1>5. \A i \in Positions : i - 1 \in Nat /\ i - 1 < Pow2[NumQubits] /\ i = (i - 1) + 1
  BY <1>3 DEF Positions
<1>6. \A k \in Nat : k < Pow2[NumQubits] => k + 1 \in Positions
  BY <1>3 DEF Positions
<1> QED BY <1>1, <1>2, <1>3, <1>4, <1>5, <1>6

\* The edges for all qubits.
LEMMA EdgeLev ==
    ASSUME NEW arity \in {V, M}
    PROVE  Edge(arity) = Lev(arity, NumQubits) /\ NumQubits \in Nat /\ NumQubits <= NumQubits
BY QubitsAssumption DEF Edge, Lev

\* The entries of a vector are what is read.
LEMMA VectorEntry ==
    ASSUME NEW e \in Edge(V)
    PROVE  /\ Vector(e) \in [Positions -> Weight]
           /\ \A i \in Positions, j \in Nat : Vector(e)[i] = Read(V, e, i - 1, j, NumQubits)
           /\ \A i \in Positions : Vector(e)[i] \in Weight
<1>1. /\ Vector(e) \in [Positions -> Weight]
      /\ \A i \in Positions : Vector(e)[i] = amplitudeRec[<<e, i - 1, NumQubits>>]
  BY VectorIs DEF Positions
<1>2. \A i \in Positions, j \in Nat : Vector(e)[i] = Read(V, e, i - 1, j, NumQubits)
  BY <1>1 DEF Read
<1> QED BY <1>1, <1>2

\* A list that agrees with all that is read of an edge is the vector of it.
LEMMA VectorEquals ==
    ASSUME NEW e \in Edge(V), NEW f, f = [i \in Positions |-> f[i]],
           \A i \in Positions : f[i] = Read(V, e, i - 1, 0, NumQubits)
    PROVE  Vector(e) = f
<1>1. Vector(e) \in [Positions -> Weight] /\ \A i \in Positions : Vector(e)[i] = Read(V, e, i - 1, 0, NumQubits)
  <2>1. 0 \in Nat
    OBVIOUS
  <2> QED BY <2>1, VectorEntry
<1>2. Vector(e) = [i \in Positions |-> Vector(e)[i]]
  BY <1>1
<1>3. \A i \in Positions : Vector(e)[i] = f[i]
  BY <1>1
<1> DEFINE g == Vector(e)
<1>4. g = [i \in Positions |-> g[i]] /\ \A i \in Positions : g[i] = f[i]
  BY <1>2, <1>3
<1> HIDE DEF g
<1>5. g = f
  BY <1>4
<1> QED BY <1>5 DEF g

\* The entries of a matrix are what is read.
LEMMA MatrixEntry ==
    ASSUME NEW e \in Edge(M)
    PROVE  /\ Matrix(e) \in [Positions -> [Positions -> Weight]]
           /\ \A i \in Positions : Matrix(e)[i] \in [Positions -> Weight]
           /\ \A i \in Positions, j \in Positions : Matrix(e)[i][j] = Read(M, e, i - 1, j - 1, NumQubits)
           /\ \A i \in Positions, j \in Positions : Matrix(e)[i][j] \in Weight
<1>1. /\ Matrix(e) \in [Positions -> [Positions -> Weight]]
      /\ \A i \in Positions, j \in Positions : Matrix(e)[i][j] = matrixEntryRec[<<e, i - 1, j - 1, NumQubits>>]
  BY MatrixIs DEF Positions, SquareMatrix
<1>2. M # V
  BY DEF M, V
<1>3. \A i \in Positions, j \in Positions : Matrix(e)[i][j] = Read(M, e, i - 1, j - 1, NumQubits)
  BY <1>1, <1>2 DEF Read
<1> QED BY <1>1, <1>3

\* A table that agrees with all that is read of an edge is the matrix of it.
LEMMA MatrixEquals ==
    ASSUME NEW e \in Edge(M), NEW f, f = [i \in Positions |-> [j \in Positions |-> f[i][j]]],
           \A i \in Positions, j \in Positions : f[i][j] = Read(M, e, i - 1, j - 1, NumQubits)
    PROVE  Matrix(e) = f
<1> DEFINE g == Matrix(e)
<1>1. g \in [Positions -> [Positions -> Weight]]
      /\ \A i \in Positions, j \in Positions : g[i][j] = Read(M, e, i - 1, j - 1, NumQubits)
  BY MatrixEntry
<1> HIDE DEF g
<1>2. \A i \in Positions : g[i] = f[i]
  <2> SUFFICES ASSUME NEW i \in Positions PROVE g[i] = f[i]
    OBVIOUS
  <2> DEFINE p == g[i]
             q == f[i]
  <2>1. p \in [Positions -> Weight]
    BY <1>1
  <2>2. q = [j \in Positions |-> q[j]]
    OBVIOUS
  <2>3. \A j \in Positions : p[j] = q[j]
    BY <1>1
  <2> HIDE DEF p, q
  <2>4. p = q
    BY <2>1, <2>2, <2>3
  <2> QED BY <2>4 DEF p, q
<1>3. DOMAIN f = Positions /\ f = [i \in Positions |-> f[i]]
  OBVIOUS
<1>4. g = f
  BY <1>1, <1>2, <1>3
<1> QED BY <1>4 DEF g

\* A row times a column is a dot product.
LEMMA RowTimesIsDot ==
    ASSUME NEW arity \in {V, M}, NEW d \in Edge(M), NEW e \in Edge(arity), NEW i \in Nat, NEW j \in Nat,
           NEW p \in [Positions -> Weight], NEW q,
           \A k \in Positions : p[k] = Read(M, d, i, k - 1, NumQubits) /\ q[k] = Read(arity, e, k - 1, j, NumQubits)
    PROVE  Algebra!Dot(p, q) = RowTimes(arity, d, e, i, j, NumQubits)
<1> DEFINE f == Terms(arity, d, e, i, j, NumQubits)
           n == Pow2[NumQubits]
<1>1. NumQubits \in Nat /\ NumQubits <= NumQubits /\ n \in Nat /\ M \in {V, M}
  BY AlgebraIndices
<1>2. d \in Lev(M, NumQubits) /\ e \in Lev(arity, NumQubits)
  <2>1. Edge(M) = Lev(M, NumQubits)
    BY <1>1, EdgeLev
  <2> QED BY <2>1, EdgeLev
<1>3. f \in [Nat -> Weight]
      /\ \A k \in Nat : f[k] = Multiply(Read(M, d, i, k, NumQubits), Read(arity, e, k, j, NumQubits))
  BY <1>1, <1>2, TermsType
<1> HIDE DEF f
<1>4. \A k \in Nat : k < n => f[k] = Multiply(p[k + 1], q[k + 1])
  <2> SUFFICES ASSUME NEW k \in Nat, k < n PROVE f[k] = Multiply(p[k + 1], q[k + 1])
    OBVIOUS
  <2> DEFINE l == k + 1
  <2>1. l \in Positions /\ l - 1 = k
    BY AlgebraIndices
  <2> HIDE DEF l
  <2>2. p[l] = Read(M, d, i, k, NumQubits) /\ q[l] = Read(arity, e, k, j, NumQubits)
    BY <2>1
  <2>3. f[k] = Multiply(p[l], q[l])
    BY <1>3, <2>2
  <2> QED BY <2>3 DEF l
<1>5. p \in [1..n -> Weight]
  BY DEF Positions
<1> HIDE DEF n
<1>6. Algebra!Dot(p, q) = Total(f)[n]
  BY <1>1, <1>3, <1>4, <1>5, DotIsTotal
<1> QED BY <1>6 DEF RowTimes, f, n

\* add of two vector edges.
LEMMA AddVectors ==
    ASSUME strategy \in Strategies, NEW d \in Edge(V), NEW e \in Edge(V)
    PROVE  Vector(add(d, e)) = Algebra!Sum(Vector(d), Vector(e))
<1> DEFINE s == add(d, e)
           f == Algebra!Sum(Vector(d), Vector(e))
<1>1. V \in {V, M} /\ Edge(V) = Lev(V, NumQubits) /\ NumQubits \in Nat /\ NumQubits <= NumQubits /\ 0 \in Nat
  BY EdgeLev
<1>2. s \in Edge(V)
  BY <1>1, AddLev DEF add
<1>3. ASSUME NEW i \in Positions PROVE f[i] = Read(V, s, i - 1, 0, NumQubits)
  <2>1. i - 1 \in Nat
    BY AlgebraIndices
  <2>2. f[i] = Add(Vector(d)[i], Vector(e)[i])
    BY AlgebraIndices DEF Algebra!Sum
  <2>3. Vector(d)[i] = Read(V, d, i - 1, 0, NumQubits)
    BY <1>1, VectorEntry
  <2>4. Vector(e)[i] = Read(V, e, i - 1, 0, NumQubits)
    BY <1>1, VectorEntry
  <2> DEFINE k == i - 1
  <2>5. k \in Nat /\ k = i - 1
    BY <2>1
  <2> HIDE DEF k
  <2>6. Read(V, s, k, 0, NumQubits) = Add(Read(V, d, k, 0, NumQubits), Read(V, e, k, 0, NumQubits))
    BY <1>1, <2>5, ReadAdd DEF add
  <2> QED BY <2>2, <2>3, <2>4, <2>5, <2>6
<1>4. f = [i \in Positions |-> f[i]]
  BY AlgebraIndices DEF Algebra!Sum
<1> HIDE DEF f, s
<1>5. Vector(s) = f
  BY <1>2, <1>3, <1>4, VectorEquals
<1> QED BY <1>5 DEF s, f

\* Entry by entry.
MatrixSum(b, c) == [i \in Positions |-> [j \in Positions |-> Add(b[i][j], c[i][j])]]

\* The overload of addRec for matrices, by which multiply adds blocks.
LEMMA AddMatrices ==
    ASSUME strategy \in Strategies, NEW d \in Edge(M), NEW e \in Edge(M)
    PROVE  Matrix(addRec(M)[<<d, e>>]) = MatrixSum(Matrix(d), Matrix(e))
<1> DEFINE s == addRec(M)[<<d, e>>]
           f == MatrixSum(Matrix(d), Matrix(e))
<1>1. M \in {V, M} /\ Edge(M) = Lev(M, NumQubits) /\ NumQubits \in Nat /\ NumQubits <= NumQubits
  BY EdgeLev
<1>2. s \in Edge(M)
  BY <1>1, AddLev
<1>3. f = [i \in Positions |-> [j \in Positions |-> f[i][j]]]
  BY DEF MatrixSum
<1>4. ASSUME NEW i \in Positions, NEW j \in Positions PROVE f[i][j] = Read(M, s, i - 1, j - 1, NumQubits)
  <2> DEFINE k == i - 1
             l == j - 1
  <2>1. k \in Nat /\ l \in Nat
    BY AlgebraIndices
  <2>2. f[i][j] = Add(Matrix(d)[i][j], Matrix(e)[i][j])
    BY DEF MatrixSum
  <2>3. Matrix(d)[i][j] = Read(M, d, k, l, NumQubits) /\ Matrix(e)[i][j] = Read(M, e, k, l, NumQubits)
    BY MatrixEntry
  <2> HIDE DEF k, l, f
  <2>4. Read(M, s, k, l, NumQubits) = Add(Read(M, d, k, l, NumQubits), Read(M, e, k, l, NumQubits))
    BY <1>1, <2>1, ReadAdd
  <2> QED BY <2>2, <2>3, <2>4 DEF k, l
<1> HIDE DEF f, s
<1>5. Matrix(s) = f
  BY <1>2, <1>3, <1>4, MatrixEquals
<1> QED BY <1>5 DEF s, f

(***************************************************************************)
(* The two overloads of addRec, for vectors (which add calls) and for      *)
(* matrices (which multiply calls): the vector or matrix of the edge they  *)
(* return is the sum of those of their arguments.                          *)
(***************************************************************************)
THEOREM AddIsSum ==
    ASSUME strategy \in Strategies
    PROVE  /\ \A d \in Edge(V), e \in Edge(V) : Vector(add(d, e)) = Algebra!Sum(Vector(d), Vector(e))
           /\ \A d \in Edge(M), e \in Edge(M) : Matrix(addRec(M)[<<d, e>>]) = MatrixSum(Matrix(d), Matrix(e))
<1>1. strategy \in Strategies
  OBVIOUS
<1>2. ASSUME NEW d \in Edge(V), NEW e \in Edge(V) PROVE Vector(add(d, e)) = Algebra!Sum(Vector(d), Vector(e))
  BY <1>1, AddVectors
<1>3. ASSUME NEW d \in Edge(M), NEW e \in Edge(M)
      PROVE  Matrix(addRec(M)[<<d, e>>]) = MatrixSum(Matrix(d), Matrix(e))
  BY <1>1, AddMatrices
<1> QED BY <1>2, <1>3

(***************************************************************************)
(* multiply(V, d, e) is the matrix of d applied to the vector of e.        *)
(***************************************************************************)
THEOREM MultiplyIsApply ==
    ASSUME strategy \in Strategies, NEW d \in Edge(M), NEW e \in Edge(V)
    PROVE  Vector(multiply(V, d, e)) = Algebra!Apply(Matrix(d), Vector(e))
<1> DEFINE s == multiply(V, d, e)
           f == Algebra!Apply(Matrix(d), Vector(e))
<1>1. /\ V \in {V, M} /\ M \in {V, M} /\ NumQubits \in Nat /\ NumQubits <= NumQubits /\ 0 \in Nat
      /\ Edge(V) = Lev(V, NumQubits)
  BY EdgeLev
<1>2. Edge(M) = Lev(M, NumQubits)
  BY <1>1, EdgeLev
<1>3. s \in Edge(V)
  BY <1>1, <1>2, MultiplyLev
<1>4. ASSUME NEW i \in Positions PROVE f[i] = Read(V, s, i - 1, 0, NumQubits)
  <2> DEFINE k == i - 1
             p == Matrix(d)[i]
             q == Vector(e)
  <2>1. k \in Nat
    BY AlgebraIndices
  <2>2. f[i] = Algebra!Dot(p, q)
    BY AlgebraIndices DEF Algebra!Apply
  <2>3. p \in [Positions -> Weight] /\ \A l \in Positions : p[l] = Read(M, d, k, l - 1, NumQubits)
    BY MatrixEntry
  <2>4. \A l \in Positions : q[l] = Read(V, e, l - 1, 0, NumQubits)
    BY <1>1, VectorEntry
  <2> HIDE DEF p, q, k, f
  <2>5. Algebra!Dot(p, q) = RowTimes(V, d, e, k, 0, NumQubits)
    BY <1>1, <2>1, <2>3, <2>4, RowTimesIsDot
  <2>6. Read(V, s, k, 0, NumQubits) = RowTimes(V, d, e, k, 0, NumQubits)
    BY <1>1, <1>2, <2>1, ReadMultiply
  <2> QED BY <2>2, <2>5, <2>6 DEF k
<1>5. f = [i \in Positions |-> f[i]]
  BY AlgebraIndices DEF Algebra!Apply
<1> HIDE DEF f, s
<1>6. Vector(s) = f
  BY <1>3, <1>4, <1>5, VectorEquals
<1> QED BY <1>6 DEF s, f

(***************************************************************************)
(* multiply(M, d, e) is the product of the matrices of d and e.            *)
(***************************************************************************)
THEOREM MultiplyIsProduct ==
    ASSUME strategy \in Strategies, NEW d \in Edge(M), NEW e \in Edge(M)
    PROVE  Matrix(multiply(M, d, e)) = Algebra!Product(Matrix(d), Matrix(e))
<1> DEFINE s == multiply(M, d, e)
           f == Algebra!Product(Matrix(d), Matrix(e))
           Column(j) == [i \in Positions |-> Matrix(e)[i][j]]
<1>1. M \in {V, M} /\ NumQubits \in Nat /\ NumQubits <= NumQubits
  BY EdgeLev
<1>2. Edge(M) = Lev(M, NumQubits)
  BY <1>1, EdgeLev
<1>3. s \in Edge(M)
  BY <1>1, <1>2, MultiplyLev
<1>4. f = [i \in Positions |-> [j \in Positions |-> Algebra!Dot(Matrix(d)[i], Column(j))]]
  BY AlgebraIndices DEF Algebra!Product
<1> HIDE DEF f
<1>5. ASSUME NEW i \in Positions, NEW j \in Positions
      PROVE  f[i][j] = Read(M, s, i - 1, j - 1, NumQubits)
  <2> DEFINE k == i - 1
             r == j - 1
             p == Matrix(d)[i]
             q == Column(j)
  <2>1. k \in Nat /\ r \in Nat
    BY AlgebraIndices
  <2>2. f[i][j] = Algebra!Dot(p, q)
    BY <1>4
  <2>3. p \in [Positions -> Weight] /\ \A l \in Positions : p[l] = Read(M, d, k, l - 1, NumQubits)
    BY MatrixEntry
  <2>4. \A l \in Positions : q[l] = Read(M, e, l - 1, r, NumQubits)
    BY MatrixEntry
  <2> HIDE DEF p, q, k, r
  <2>5. Algebra!Dot(p, q) = RowTimes(M, d, e, k, r, NumQubits)
    BY <1>1, <2>1, <2>3, <2>4, RowTimesIsDot
  <2>6. Read(M, s, k, r, NumQubits) = RowTimes(M, d, e, k, r, NumQubits)
    BY <1>1, <1>2, <2>1, ReadMultiply
  <2> QED BY <2>2, <2>5, <2>6 DEF k, r
<1>6. f = [i \in Positions |-> [j \in Positions |-> f[i][j]]]
  BY <1>4
<1> HIDE DEF s
<1>7. Matrix(s) = f
  BY <1>3, <1>5, <1>6, MatrixEquals
<1> QED BY <1>7 DEF s, f

\* One call of outerProduct.
LEMMA OuterStepAt ==
    ASSUME NEW joint, NEW d, NEW e, NEW l
    PROVE  outerStep(joint, d, e, l) =
              IF isZero(d.w) \/ isZero(e.w) THEN zero
              ELSE IF l = 0 THEN terminal(Multiply(d.w, conjugate(e.w)))
              ELSE Rescaled(Multiply(d.w, conjugate(e.w)), makeEdge(M, l - 1, OuterEntries(joint, d, e, l)))
BY DEF outerStep, OuterEntries, OuterCall, BottomReached, makeMEdge

\* The children whose outer product an entry is read from.
LEMMA OuterKids ==
    ASSUME NEW d, NEW e, NEW k \in Nat, NEW i \in Nat, NEW j \in Nat, NEW joint
    PROVE  joint[OuterCall(d, e, Digit(M, i, j, k), k + 1)] = joint[<<Kid(V, d, i, 0, k), Kid(V, e, j, 0, k), k>>]
<1> DEFINE g == Digit(M, i, j, k)
           bi == Bit(i, k)
           bj == Bit(j, k)
           dc == vChildrenAt(d.p, k)
           ec == vChildrenAt(e.p, k)
<1>1. bi \in {0, 1} /\ bj \in {0, 1} /\ M # V /\ k + 1 - 1 = k
  BY BitType DEF M, V
<1>2. g = 2 * bi + bj + 1
  BY <1>1 DEF Digit, Corner
<1>3. OuterCall(d, e, g, k + 1) = <<vChildrenAt(d.p, k + 1 - 1)[Row(g) + 1], vChildrenAt(e.p, k + 1 - 1)[Col(g) + 1], k + 1 - 1>>
  BY DEF OuterCall
<1>4. Kid(V, d, i, 0, k) = dc[bi + 1] /\ Kid(V, e, j, 0, k) = ec[bj + 1]
  BY DEF Kid, childrenAt, Digit
<1> HIDE DEF g, bi, bj
<1>5. Row(g) = bi /\ Col(g) = bj
  BY <1>1, <1>2 DEF Row, Col
<1>6. OuterCall(d, e, g, k + 1) = <<dc[bi + 1], ec[bj + 1], k>>
  BY <1>1, <1>3, <1>5
<1>7. joint[OuterCall(d, e, g, k + 1)] = joint[<<Kid(V, d, i, 0, k), Kid(V, e, j, 0, k), k>>]
  BY <1>4, <1>6
<1> QED BY <1>7 DEF g

\* What is read of the outer product at level k.
ReadsOuter(i, j, k) ==
    \A d \in Lev(V, k), e \in Lev(V, k) :
       Read(M, outerProductRec[<<d, e, k>>], i, j, k)
          = Multiply(Read(V, d, i, 0, k), conjugate(Read(V, e, j, 0, k)))

OuterLev(k) == \A d \in Lev(V, k), e \in Lev(V, k) : outerProductRec[<<d, e, k>>] \in Lev(M, k)

\* A call is for edges of the level below.
LEMMA OuterCallLev ==
    ASSUME NEW k \in Nat, NEW d \in Lev(V, k + 1), NEW e \in Lev(V, k + 1), NEW q \in 1..M, OuterLev(k)
    PROVE  outerProductRec[OuterCall(d, e, q, k + 1)] \in Lev(M, k)
<1> DEFINE dc == vChildrenAt(d.p, k)
           ec == vChildrenAt(e.p, k)
           nodes == Nodes(V, 0)
<1>1. V \in {V, M} /\ k + 1 - 1 = k
  OBVIOUS
<1>2. Family(V, "Any", nodes)
  BY <1>1, LevFacts
<1>3. d \in EdgesTo(nodes[k + 1]) /\ e \in EdgesTo(nodes[k + 1]) /\ Lev(V, k) = EdgesTo(nodes[k])
  BY DEF Lev
<1> HIDE DEF nodes
<1>4. childrenAt(V, d.p, k) \in [1..V -> EdgesTo(nodes[k])]
  BY <1>2, <1>3, BelowEdges
<1>5. childrenAt(V, e.p, k) \in [1..V -> EdgesTo(nodes[k])]
  BY <1>2, <1>3, BelowEdges
<1>6. dc \in [1..V -> Lev(V, k)] /\ ec \in [1..V -> Lev(V, k)]
  BY <1>3, <1>4, <1>5 DEF childrenAt
<1>7. OuterCall(d, e, q, k + 1) = <<dc[Row(q) + 1], ec[Col(q) + 1], k>>
  BY <1>1 DEF OuterCall
<1> HIDE DEF dc, ec
<1>8. dc[Row(q) + 1] \in Lev(V, k) /\ ec[Col(q) + 1] \in Lev(V, k)
  BY <1>6, RowCol
<1> QED BY <1>7, <1>8 DEF OuterLev

\* The outer product of two edges of a level is an edge of the level.
LEMMA OuterLevels ==
    ASSUME strategy \in Strategies
    PROVE  \A k \in 0..NumQubits : OuterLev(k)
<1> DEFINE S == {k \in 0..NumQubits : OuterLev(k)}
           nodes == Nodes(M, 0)
<1>1. NumQubits \in Nat /\ 0 <= NumQubits /\ 0 \in Nat /\ M \in {V, M} /\ V \in {V, M}
  BY QubitsAssumption
<1>2. Family(M, "Any", nodes) /\ Makes("Any") /\ \A l \in Nat : Lev(M, l) = EdgesTo(nodes[l])
  <2>1. Family(M, "Any", nodes) /\ Makes("Any")
    BY <1>1, LevFacts
  <2> QED BY <2>1 DEF Lev
<1> HIDE DEF nodes
<1>3. ASSUME NEW l \in 0..NumQubits, NEW d \in Lev(V, l), NEW e \in Lev(V, l),
             l > 0 => \A i \in 1..M : outerProductRec[OuterCall(d, e, i, l)] \in Lev(M, l - 1)
      PROVE  outerProductRec[<<d, e, l>>] \in Lev(M, l)
  <2>1. d \in Edge(V) /\ e \in Edge(V) /\ l \in Nat
    BY <1>1, LevFacts
  <2>2. outerProductRec[<<d, e, l>>] = outerStep(outerProductRec, d, e, l)
    BY <2>1, OuterEquation
  <2>3. l > 0 => \A i \in 1..M : outerProductRec[OuterCall(d, e, i, l)] \in EdgesTo(nodes[l - 1])
    BY <1>2, <1>3, <2>1
  <2>4. outerStep(outerProductRec, d, e, l) \in EdgesTo(nodes[l])
    BY <1>2, <2>1, <2>3, OuterStepEdges
  <2> QED BY <1>2, <2>1, <2>2, <2>4
<1>4. 0 \in S
  BY <1>1, <1>3 DEF OuterLev
<1>5. \A k \in 0..NumQubits : k # 0 /\ k - 1 \in S => k \in S
  <2> SUFFICES ASSUME NEW k \in 0..NumQubits, k # 0, k - 1 \in S,
                      NEW d \in Lev(V, k), NEW e \in Lev(V, k)
               PROVE  outerProductRec[<<d, e, k>>] \in Lev(M, k)
    BY DEF OuterLev
  <2> DEFINE l == k - 1
  <2>1. l \in Nat /\ k = l + 1 /\ OuterLev(l)
    BY <1>1
  <2> HIDE DEF l
  <2>2. \A i \in 1..M : outerProductRec[OuterCall(d, e, i, k)] \in Lev(M, l)
    BY <2>1, OuterCallLev
  <2>3. k - 1 = l
    BY <2>1
  <2> QED BY <1>3, <2>2, <2>3
<1> HIDE DEF S
<1>6. 0..NumQubits \subseteq S
  BY <1>1, <1>4, <1>5, CountInduction
<1> QED BY <1>6 DEF S

\* outerProductRec, if its recursive calls return outer products: the blocks of
\* the node are products of the halves, and the weights multiply.
LEMMA ReadOuterStep ==
    ASSUME strategy \in Strategies, NEW i \in Nat, NEW j \in Nat, NEW k \in Nat, k < NumQubits,
           ReadsOuter(i, j, k), NEW d \in Lev(V, k + 1), NEW e \in Lev(V, k + 1)
    PROVE  Read(M, outerProductRec[<<d, e, k + 1>>], i, j, k + 1)
              = Multiply(Read(V, d, i, 0, k + 1), conjugate(Read(V, e, j, 0, k + 1)))
<1> DEFINE n == k + 1
           s == outerProductRec[<<d, e, n>>]
           c == Multiply(d.w, conjugate(e.w))
           dk == Kid(V, d, i, 0, k)
           ek == Kid(V, e, j, 0, k)
           rd == Read(V, dk, i, 0, k)
           re == Read(V, ek, j, 0, k)
<1>1. n \in Nat /\ n <= NumQubits /\ k <= NumQubits /\ n \in 0..NumQubits /\ k \in 0..NumQubits
      /\ M \in {V, M} /\ V \in {V, M} /\ NumQubits \in Nat /\ 0 \in Nat /\ n # 0 /\ n - 1 = k
  BY QubitsAssumption
<1>2. d \in Edge(V) /\ e \in Edge(V)
  BY <1>1, LevFacts
<1>3. d.w \in Weight /\ e.w \in Weight /\ (d.w = Zero => d = zero) /\ (e.w = Zero => e = zero)
  BY <1>1, LevFacts
<1>4. OuterLev(k) /\ OuterLev(n)
  BY <1>1, OuterLevels
<1>5. s \in Lev(M, n)
  BY <1>4 DEF OuterLev
<1>6. s = outerStep(outerProductRec, d, e, n)
  BY <1>1, <1>2, OuterEquation
<1>7. dk \in Lev(V, k) /\ ek \in Lev(V, k)
  BY <1>1, PartType
<1>8. /\ Read(V, d, i, 0, n) = Multiply(d.w, rd)
      /\ Read(V, e, j, 0, n) = Multiply(e.w, re)
  BY <1>1, ReadKid
<1> HIDE DEF dk, ek
<1>9. rd \in Weight /\ re \in Weight
  BY <1>1, <1>7, ReadType
<1> HIDE DEF rd, re
<1>10. conjugate(e.w) \in Weight /\ conjugate(re) \in Weight /\ conjugate(Zero) = Zero
       /\ conjugate(Multiply(e.w, re)) = Multiply(conjugate(e.w), conjugate(re))
  BY <1>3, <1>9, SumLaws
<1>11. Multiply(Read(V, d, i, 0, n), conjugate(Read(V, e, j, 0, n))) = Multiply(c, Multiply(rd, conjugate(re)))
  <2> DEFINE ce == conjugate(e.w)
             cr == conjugate(re)
  <2>1. ce \in Weight /\ cr \in Weight
    BY <1>10
  <2> HIDE DEF ce, cr
  <2>2. Multiply(Multiply(d.w, rd), Multiply(ce, cr)) = Multiply(Multiply(d.w, ce), Multiply(rd, cr))
    BY <1>3, <1>9, <2>1, FourFactors
  <2> QED BY <1>8, <1>10, <2>2 DEF ce, cr
<1>12. CASE isZero(d.w) \/ isZero(e.w)
  <2>1. s = zero
    BY <1>6, <1>12, OuterStepAt
  <2>2. c = Zero
    <3> DEFINE ce == conjugate(e.w)
    <3>1. isZero(d.w) => d.w = Zero
      BY <1>3, WeightLaws
    <3>2. isZero(e.w) => ce = Zero
      BY <1>3, <1>10, WeightLaws
    <3>3. ce \in Weight
      BY <1>10
    <3> HIDE DEF ce
    <3>4. Multiply(d.w, ce) = Zero
      BY <1>3, <1>12, <3>1, <3>2, <3>3, ProductNotZero
    <3> QED BY <3>4 DEF ce
  <2>3. Multiply(rd, conjugate(re)) \in Weight
    BY <1>9, <1>10, WeightLaws
  <2> HIDE DEF s, c
  <2>4. Multiply(c, Multiply(rd, conjugate(re))) = Zero
    BY <2>2, <2>3, WeightLaws
  <2>5. Read(M, zero, i, j, n) = Zero
    BY <1>1, ReadZero
  <2> QED BY <1>11, <2>1, <2>4, <2>5 DEF s
<1>13. CASE ~(isZero(d.w) \/ isZero(e.w))
  <2> DEFINE cs == OuterEntries(outerProductRec, d, e, n)
             g == Digit(M, i, j, k)
             made == makeEdge(M, k, cs)
  <2>1. s = Rescaled(c, made)
    BY <1>1, <1>6, <1>13, OuterStepAt
  <2>2. \A q \in 1..M : cs[q] = outerProductRec[OuterCall(d, e, q, n)]
    BY DEF OuterEntries
  <2> HIDE DEF cs
  <2>3. \A q \in 1..M : cs[q] \in Lev(M, k)
    BY <1>4, <2>2, OuterCallLev
  <2>4. /\ made \in Lev(M, k + 1)
        /\ Read(M, made, i, j, k + 1) = Read(M, cs[g], i, j, k)
    <3>1. M \in {V, M}
      BY <1>1
    <3> HIDE DEF n, s, c, g
    <3>2. made \in Lev(M, k + 1) /\ Read(M, made, i, j, k + 1) = Read(M, cs[Digit(M, i, j, k)], i, j, k)
      BY <2>3, <3>1, ReadMadeOf
    <3> QED BY <3>2 DEF g
  <2>5. g \in 1..M
    BY <1>1, DigitType
  <2>6. cs[g] = outerProductRec[<<dk, ek, k>>]
    <3>1. outerProductRec[OuterCall(d, e, Digit(M, i, j, k), k + 1)]
             = outerProductRec[<<Kid(V, d, i, 0, k), Kid(V, e, j, 0, k), k>>]
      BY OuterKids
    <3>2. cs[g] = outerProductRec[OuterCall(d, e, g, k + 1)]
      BY <2>2, <2>5
    <3> QED BY <3>1, <3>2 DEF dk, ek
  <2> HIDE DEF g, made, s
  <2>7. Read(M, cs[g], i, j, k) = Multiply(rd, conjugate(re))
    <3>1. Read(M, outerProductRec[<<dk, ek, k>>], i, j, k) = Multiply(Read(V, dk, i, 0, k), conjugate(Read(V, ek, j, 0, k)))
      BY <1>7 DEF ReadsOuter
    <3> QED BY <2>6, <3>1 DEF rd, re
  <2>8. c \in Weight
    BY <1>3, <1>10, WeightLaws
  <2>9. Read(M, s, i, j, n) = Multiply(c, Read(M, made, i, j, n))
    <3>1. made \in Lev(M, n) /\ Rescaled(c, made) \in Lev(M, n)
      BY <1>5, <2>1, <2>4 DEF s
    <3> HIDE DEF c, n
    <3> QED BY <1>1, <2>1, <2>8, <3>1, ReadRescaled
  <2> QED BY <1>11, <2>4, <2>7, <2>9 DEF s
<1> QED BY <1>12, <1>13

\* outerProductRec of two terminals multiplies their weights.
LEMMA ReadOuterTerminals ==
    ASSUME strategy \in Strategies, NEW i \in Nat, NEW j \in Nat
    PROVE  ReadsOuter(i, j, 0)
<1> SUFFICES ASSUME NEW d \in Lev(V, 0), NEW e \in Lev(V, 0)
             PROVE  Read(M, outerProductRec[<<d, e, 0>>], i, j, 0)
                       = Multiply(Read(V, d, i, 0, 0), conjugate(Read(V, e, j, 0, 0)))
  BY DEF ReadsOuter
<1> DEFINE s == outerProductRec[<<d, e, 0>>]
<1>1. M \in {V, M} /\ V \in {V, M} /\ 0 \in Nat /\ 0 <= NumQubits /\ NumQubits \in Nat /\ 0 \in 0..NumQubits
  BY QubitsAssumption
<1>2. d \in Edge(V) /\ e \in Edge(V) /\ d.w \in Weight /\ e.w \in Weight
  BY <1>1, LevFacts
<1>3. s = outerStep(outerProductRec, d, e, 0)
  BY <1>1, <1>2, OuterEquation
<1>4. s = IF isZero(d.w) \/ isZero(e.w) THEN zero ELSE terminal(Multiply(d.w, conjugate(e.w)))
  BY <1>3, OuterStepAt
<1>5. s \in Lev(M, 0)
  BY <1>1, OuterLevels DEF OuterLev
<1> HIDE DEF s
<1>6. conjugate(e.w) \in Weight /\ conjugate(Zero) = Zero
  BY <1>2, SumLaws
<1>7. s.w = Multiply(d.w, conjugate(e.w))
  <2>1. zero.w = Zero /\ terminal(Multiply(d.w, conjugate(e.w))).w = Multiply(d.w, conjugate(e.w))
    BY DEF zero, terminal
  <2> DEFINE ce == conjugate(e.w)
             w == d.w
             z == e.w
  <2>2. ce \in Weight /\ w \in Weight /\ z \in Weight /\ conjugate(Zero) = Zero /\ ce = conjugate(z)
    BY <1>2, <1>6
  <2>3. s = IF isZero(w) \/ isZero(z) THEN zero ELSE terminal(Multiply(w, ce))
    BY <1>4
  <2>4. terminal(Multiply(w, ce)).w = Multiply(w, ce) /\ zero.w = Zero
    BY <2>1
  <2> HIDE DEF ce, w, z
  <2>5. (isZero(w) <=> w = Zero) /\ (isZero(z) <=> z = Zero) /\ Multiply(Zero, ce) = Zero /\ Multiply(w, Zero) = Zero
    BY <2>2, WeightLaws
  <2>6. s.w = Multiply(w, ce)
    BY <2>2, <2>3, <2>4, <2>5
  <2> QED BY <2>6 DEF ce, w
<1>8. Read(M, s, i, j, 0) = s.w
  BY <1>1, <1>5, ReadType
<1>9. Read(V, d, i, 0, 0) = d.w /\ Read(V, e, j, 0, 0) = e.w
  BY <1>1, ReadType
<1> QED BY <1>7, <1>8, <1>9 DEF s

(***************************************************************************)
(* outerProduct(d, e) is the matrix of all products of an amplitude of d   *)
(* and a conjugated one of e, also where both skip a level.                *)
(***************************************************************************)
LEMMA ReadOuter ==
    ASSUME strategy \in Strategies, NEW n \in Nat, n <= NumQubits,
           NEW d \in Lev(V, n), NEW e \in Lev(V, n), NEW i \in Nat, NEW j \in Nat
    PROVE  Read(M, outerProductRec[<<d, e, n>>], i, j, n)
              = Multiply(Read(V, d, i, 0, n), conjugate(Read(V, e, j, 0, n)))
<1> DEFINE S == {k \in 0..NumQubits : ReadsOuter(i, j, k)}
<1>1. NumQubits \in Nat /\ 0 <= NumQubits /\ 0 \in Nat
  BY QubitsAssumption
<1>2. 0 \in S
  BY <1>1, ReadOuterTerminals
<1>3. \A k \in 0..NumQubits : k # 0 /\ k - 1 \in S => k \in S
  <2> SUFFICES ASSUME NEW k \in 0..NumQubits, k # 0, k - 1 \in S PROVE ReadsOuter(i, j, k)
    OBVIOUS
  <2> DEFINE l == k - 1
  <2>1. l \in Nat /\ l < NumQubits /\ k = l + 1 /\ l \in S
    BY <1>1
  <2>2. ReadsOuter(i, j, l)
    BY <2>1
  <2> HIDE DEF l
  <2>3. ASSUME NEW b \in Lev(V, l + 1), NEW c \in Lev(V, l + 1)
        PROVE Read(M, outerProductRec[<<b, c, l + 1>>], i, j, l + 1)
                 = Multiply(Read(V, b, i, 0, l + 1), conjugate(Read(V, c, j, 0, l + 1)))
    BY <2>1, <2>2, ReadOuterStep
  <2> QED BY <2>1, <2>3 DEF ReadsOuter
<1> HIDE DEF S
<1>4. 0..NumQubits \subseteq S
  BY <1>1, <1>2, <1>3, CountInduction
<1>5. n \in S
  BY <1>1, <1>4
<1> QED BY <1>5 DEF S, ReadsOuter

\* outerProduct is the outer product of the vectors of its arguments, the second
\* conjugated.
THEOREM OuterIsOuter ==
    ASSUME strategy \in Strategies, NEW d \in Edge(V), NEW e \in Edge(V)
    PROVE  Matrix(outerProduct(d, e)) = Algebra!Outer(Vector(d), Vector(e))
<1> DEFINE s == outerProduct(d, e)
           f == Algebra!Outer(Vector(d), Vector(e))
<1>1. V \in {V, M} /\ M \in {V, M} /\ NumQubits \in Nat /\ NumQubits <= NumQubits /\ 0 \in Nat
      /\ NumQubits \in 0..NumQubits /\ Edge(V) = Lev(V, NumQubits)
  BY EdgeLev
<1>2. Edge(M) = Lev(M, NumQubits)
  BY <1>1, EdgeLev
<1>3. s \in Edge(M)
  BY <1>1, <1>2, OuterLevels DEF OuterLev, outerProduct
<1>4. f = [i \in Positions |-> [j \in Positions |-> Multiply(Vector(d)[i], conjugate(Vector(e)[j]))]]
  BY AlgebraIndices DEF Algebra!Outer
<1> HIDE DEF f
<1>5. ASSUME NEW i \in Positions, NEW j \in Positions
      PROVE  f[i][j] = Read(M, s, i - 1, j - 1, NumQubits)
  <2> DEFINE k == i - 1
             r == j - 1
  <2>1. k \in Nat /\ r \in Nat
    BY AlgebraIndices
  <2>2. f[i][j] = Multiply(Vector(d)[i], conjugate(Vector(e)[j]))
    BY <1>4
  <2>3. Vector(d)[i] = Read(V, d, k, 0, NumQubits)
    BY <1>1, VectorEntry
  <2>4. Vector(e)[j] = Read(V, e, r, 0, NumQubits)
    BY <1>1, VectorEntry
  <2> HIDE DEF k, r
  <2>5. Read(M, s, k, r, NumQubits) = Multiply(Read(V, d, k, 0, NumQubits), conjugate(Read(V, e, r, 0, NumQubits)))
    BY <1>1, <2>1, ReadOuter DEF outerProduct
  <2> QED BY <2>2, <2>3, <2>4, <2>5 DEF k, r
<1>6. f = [i \in Positions |-> [j \in Positions |-> f[i][j]]]
  BY <1>4
<1> HIDE DEF s
<1>7. Matrix(s) = f
  BY <1>3, <1>5, <1>6, MatrixEquals
<1> QED BY <1>7 DEF s, f

\* The bits of an index without its lowest n bits.
LEMMA UpperBits ==
    ASSUME NEW n \in Nat, NEW i \in Nat
    PROVE  /\ i \div Pow2[n] \in Nat
           /\ \A d \in Nat : Bit(i \div Pow2[n], d) = Bit(i, n + d)
<1> DEFINE h == i \div Pow2[n]
           l == i % Pow2[n]
<1>1. h \in Nat /\ l \in Nat /\ l < Pow2[n] /\ i = h * Pow2[n] + l
  BY HalvesOf
<1> HIDE DEF h, l
<1>2. ASSUME NEW d \in Nat PROVE Bit(h, d) = Bit(i, n + d)
  <2>1. Bit(h * Pow2[n] + l, n + d) = Bit(h, d)
    BY <1>1, BitsAbove
  <2> QED BY <1>1, <2>1
<1> QED BY <1>1, <1>2 DEF h, l

\* Those of its lowest n bits.
LEMMA LowerBits ==
    ASSUME NEW n \in Nat, NEW i \in Nat
    PROVE  /\ i % Pow2[n] \in Nat
           /\ \A q \in Nat : q < n => Bit(i % Pow2[n], q) = Bit(i, q)
           /\ \A q \in Nat : n <= q => Bit(i % Pow2[n], q) = 0
<1> DEFINE h == i \div Pow2[n]
           l == i % Pow2[n]
<1>1. h \in Nat /\ l \in Nat /\ l < Pow2[n] /\ i = h * Pow2[n] + l
  BY HalvesOf
<1> HIDE DEF h, l
<1>3. ASSUME NEW q \in Nat, q < n PROVE Bit(l, q) = Bit(i, q)
  <2>1. Bit(h * Pow2[n] + l, q) = Bit(l, q)
    BY <1>1, <1>3, BitsBelow
  <2> QED BY <1>1, <2>1
<1>4. ASSUME NEW q \in Nat, n <= q PROVE Bit(l, q) = 0
  BY <1>1, <1>4, BitsOfSmall
<1> QED BY <1>1, <1>3, <1>4 DEF l

\* The nodes for the qubits from k on are nodes for all qubits.
LEMMA NodesInAll ==
    ASSUME NEW arity \in {V, M}, NEW k \in Nat
    PROVE  \A n \in Nat : Nodes(arity, k)[n] \subseteq Nodes(arity, 0)[n]
<1> DEFINE K == Nodes(arity, k)
           A == Nodes(arity, 0)
           S == {n \in Nat : K[n] \subseteq A[n]}
<1>1. \A n \in Nat : K[n] = Level(arity, k, "Any", K, n)
  BY NodesLevels
<1>2. 0 \in Nat
  OBVIOUS
<1>3. \A n \in Nat : A[n] = Level(arity, 0, "Any", A, n)
  BY <1>2, NodesLevels
<1>4. \A n \in Nat : Null \in A[n]
  BY <1>2, NodesFromAll
<1> HIDE DEF K, A
<1>5. 0 \in S
  <2>0. 0 <= k
    OBVIOUS
  <2>1. K[0] = Level(arity, k, "Any", K, 0)
    BY <1>1, <1>2
  <2>2. K[0] = {Null}
    BY <2>0, <2>1 DEF Level
  <2> QED BY <1>2, <1>4, <2>2
<1>6. ASSUME NEW n \in Nat, n \in S PROVE n + 1 \in S
  <2>1. n + 1 \in Nat /\ (n + 1) - 1 = n /\ ~(n + 1 <= 0)
    OBVIOUS
  <2>2. K[n + 1] = Level(arity, k, "Any", K, n + 1) /\ A[n + 1] = Level(arity, 0, "Any", A, n + 1)
    BY <1>1, <1>3, <2>1
  <2>3. A[n + 1] = A[n] \cup KeptNodes(arity, "Any", n, A[n])
    BY <2>1, <2>2 DEF Level
  <2>4. n + 1 <= k => K[n + 1] = {Null}
    BY <2>2 DEF Level
  <2>5. ~(n + 1 <= k) => K[n + 1] = K[n] \cup KeptNodes(arity, "Any", n, K[n])
    BY <2>1, <2>2 DEF Level
  <2>6. KeptNodes(arity, "Any", n, K[n]) \subseteq KeptNodes(arity, "Any", n, A[n])
    <3> DEFINE c == EdgesTo(K[n])
               d == EdgesTo(A[n])
    <3>1. c \subseteq d
      BY <1>6 DEF EdgesTo
    <3> HIDE DEF c, d
    <3>2. [1..arity -> c] \subseteq [1..arity -> d]
      BY <3>1
    <3>3. NodesOver(arity, n, K[n]) = [var : {n}, e : [1..arity -> c]]
          /\ NodesOver(arity, n, A[n]) = [var : {n}, e : [1..arity -> d]]
      BY DEF NodesOver, c, d
    <3>4. NodesOver(arity, n, K[n]) \subseteq NodesOver(arity, n, A[n])
      BY <3>2, <3>3
    <3> QED BY <3>4 DEF KeptNodes
  <2>7. K[n + 1] \subseteq A[n + 1]
    BY <1>4, <1>6, <2>1, <2>3, <2>4, <2>5, <2>6
  <2> QED BY <2>1, <2>7
<1>7. Nat \subseteq S
  <2> HIDE DEF S
  <2> QED BY <1>5, <1>6, TotalInduction
<1> QED BY <1>7 DEF K, A

\* The edges for the qubits from b to l - 1.
LevFrom(arity, b, l) == EdgesTo(Nodes(arity, b)[l])

\* An edge for the qubits from b is one for all qubits, and one for the qubits
\* from b to any further one.
LEMMA LevFromFacts ==
    ASSUME NEW arity \in {V, M}, NEW b \in Nat, NEW l \in Nat, NEW e \in LevFrom(arity, b, l)
    PROVE  /\ e \in Lev(arity, l)
           /\ \A n \in Nat : l <= n => e \in LevFrom(arity, b, n)
<1>1. Nodes(arity, b)[l] \subseteq Nodes(arity, 0)[l]
  BY NodesInAll
<1>2. \A n \in Nat : l <= n => Nodes(arity, b)[l] \subseteq Nodes(arity, b)[n]
  BY NodesFromAll
<1> QED BY <1>1, <1>2 DEF Lev, LevFrom, EdgesTo

\* The level b has no nodes.
LEMMA LevFromBottom ==
    ASSUME NEW arity \in {V, M}, NEW b \in Nat, NEW e \in LevFrom(arity, b, b)
    PROVE  e.p = Null
<1> DEFINE K == Nodes(arity, b)
<1>1. \A n \in Nat : K[n] = Level(arity, b, "Any", K, n)
  BY NodesLevels
<1>2. e.p \in K[b]
  BY DEF LevFrom, EdgesTo
<1> HIDE DEF K
<1>3. K[b] = Level(arity, b, "Any", K, b) /\ b <= b
  BY <1>1
<1>4. K[b] = {Null}
  BY <1>3 DEF Level
<1> QED BY <1>2, <1>4

\* The node of e is for the qubit l, above edges for the qubits from b on.
NodeAt(arity, b, e, l) == e.p.var = l /\ e.p # Null /\ e.p.e \in [1..arity -> LevFrom(arity, b, l)]

\* An edge of the level above l that is none of l.
LEMMA LevFromNode ==
    ASSUME NEW arity \in {V, M}, NEW b \in Nat, NEW l \in Nat, NEW l1 \in Nat, l1 = l + 1,
           NEW e \in LevFrom(arity, b, l1), e \notin LevFrom(arity, b, l)
    PROVE  NodeAt(arity, b, e, l)
<1> DEFINE K == Nodes(arity, b)
<1>1. \A n \in Nat : K[n] = Level(arity, b, "Any", K, n)
  BY NodesLevels
<1> HIDE DEF K
<1>2. l1 - 1 = l /\ (l1 <= b => l <= b)
  OBVIOUS
<1>3. K[l1] = Level(arity, b, "Any", K, l1) /\ K[l] = Level(arity, b, "Any", K, l)
  BY <1>1
<1>4. e.p \in K[l1] /\ e.p \notin K[l]
  BY DEF LevFrom, EdgesTo, K
<1>5. l1 <= b => K[l1] = K[l]
  BY <1>2, <1>3 DEF Level
<1>6. ~(l1 <= b) => K[l1] = K[l] \cup KeptNodes(arity, "Any", l, K[l])
  BY <1>2, <1>3 DEF Level
<1>7. e.p \in NodesOver(arity, l, K[l])
  BY <1>4, <1>5, <1>6 DEF KeptNodes
<1>8. e.p.var = l /\ e.p.e \in [1..arity -> LevFrom(arity, b, l)]
  BY <1>7 DEF NodesOver, LevFrom, K
<1>9. e.p # Null
  <2>1. Null.var = -1 /\ l # -1
    BY DEF Null
  <2> QED BY <1>8, <2>1
<1> QED BY <1>8, <1>9 DEF NodeAt

\* What is read of f grafted below the edges from b to l - 1, which are moved up
\* by shift: the product of what is read of both.
GraftRead(arity, f, k, shift, i, j, l, e) ==
    /\ kroneckerRec(arity, f, k, shift)[e] \in Lev(arity, l + shift)
    /\ Read(arity, kroneckerRec(arity, f, k, shift)[e], i, j, l + shift)
          = Multiply(Read(arity, e, i \div Pow2[shift], j \div Pow2[shift], l), Read(arity, f, i, j, k))

GraftsRead(arity, f, k, shift, i, j, l) ==
    \A e \in LevFrom(arity, k - shift, l) : GraftRead(arity, f, k, shift, i, j, l, e)

\* The calls of kronecker for the children.
GraftedKids(arity, graft, e) == [q \in 1..arity |-> graft[e.p.e[q]]]

\* One call of kronecker, in which an edge is 0, or ends in a terminal, or in a
\* node.
LEMMA KroneckerAt ==
    ASSUME strategy \in Strategies, NEW arity \in {V, M}, NEW k \in Nat, k <= NumQubits, NEW shift \in {0, k},
           NEW f \in Lev(arity, k), NEW l \in Nat, l <= NumQubits, NEW e \in LevFrom(arity, k - shift, l)
    PROVE  /\ isZero(e.w) \/ isZero(f.w) => kroneckerRec(arity, f, k, shift)[e] = zero
           /\ ~(isZero(e.w) \/ isZero(f.w)) /\ e.p = Null => kroneckerRec(arity, f, k, shift)[e] = Rescaled(e.w, f)
           /\ ~(isZero(e.w) \/ isZero(f.w)) /\ e.p # Null =>
                 kroneckerRec(arity, f, k, shift)[e] =
                    Rescaled(e.w, makeEdge(arity, e.p.var + shift,
                                           GraftedKids(arity, kroneckerRec(arity, f, k, shift), e)))
<1> DEFINE b == k - shift
<1>1. b \in Nat /\ NumQubits \in Nat
  BY QubitsAssumption
<1>2. e \in LevFrom(arity, b, NumQubits)
  <2>1. e \in LevFrom(arity, b, l)
    OBVIOUS
  <2> HIDE DEF b
  <2> QED BY <1>1, <2>1, LevFromFacts
<1>3. e \in EdgesTo(Nodes(arity, k - shift)[NumQubits]) /\ f \in EdgesTo(Nodes(arity, 0)[k])
  BY <1>2 DEF LevFrom, Lev
<1>4. kroneckerRec(arity, f, k, shift)[e] = kroneckerStep(arity, kroneckerRec(arity, f, k, shift), e, f, shift)
  BY <1>3, KroneckerEquation
<1> QED BY <1>4 DEF kroneckerStep, GraftedKids

\* A factor that is 0.
LEMMA ReadZeroGraft ==
    ASSUME strategy \in Strategies, NEW arity \in {V, M}, NEW k \in Nat, k <= NumQubits, NEW shift \in {0, k},
           NEW f \in Lev(arity, k), NEW l \in Nat, NEW n \in Nat, n = l + shift, n <= NumQubits,
           NEW e \in LevFrom(arity, k - shift, l),
           isZero(e.w) \/ isZero(f.w), NEW i \in Nat, NEW j \in Nat, NEW s \in Nat, NEW t \in Nat
    PROVE  /\ kroneckerRec(arity, f, k, shift)[e] \in Lev(arity, n)
           /\ Read(arity, kroneckerRec(arity, f, k, shift)[e], i, j, n)
                 = Multiply(Read(arity, e, s, t, l), Read(arity, f, i, j, k))
<1> DEFINE b == k - shift
<1>1. b \in Nat /\ l <= NumQubits /\ e \in LevFrom(arity, b, l)
  BY LevFacts
<1>2. e \in Lev(arity, l)
  <2> HIDE DEF b
  <2> QED BY <1>1, LevFromFacts
<1>3. kroneckerRec(arity, f, k, shift)[e] = zero
  <2>1. l <= NumQubits
    BY <1>1
  <2> QED BY <2>1, KroneckerAt
<1>4. zero \in Lev(arity, n) /\ Read(arity, zero, i, j, n) = Zero
  BY LevFacts, ReadZero
<1>5. Read(arity, e, s, t, l) \in Weight /\ Read(arity, f, i, j, k) \in Weight
  BY <1>1, <1>2, ReadType
<1>6. /\ isZero(e.w) => e = zero
      /\ isZero(f.w) => f = zero
  <2>0. e.w = Zero => e = zero
    BY <1>2, LevFacts
  <2>1. f.w = Zero => f = zero
    BY LevFacts
  <2>2. e.w \in Weight /\ f.w \in Weight
    BY <1>2, LevFacts
  <2> QED BY <2>0, <2>1, <2>2, WeightLaws
<1>7. Read(arity, e, s, t, l) = Zero \/ Read(arity, f, i, j, k) = Zero
  BY <1>1, <1>6, ReadZero
<1> DEFINE g == Read(arity, e, s, t, l)
           h == Read(arity, f, i, j, k)
<1>8. Multiply(g, h) = Zero
  <2>1. g \in Weight /\ h \in Weight /\ (g = Zero \/ h = Zero)
    BY <1>5, <1>7
  <2> HIDE DEF g, h
  <2> QED BY <2>1, WeightLaws
<1> QED BY <1>3, <1>4, <1>8

\* Edges that end in terminals.
LEMMA ReadTerminalGraft ==
    ASSUME strategy \in Strategies, NEW arity \in {V, M}, NEW k \in Nat, k <= NumQubits, NEW shift \in {0, k},
           arity = V \/ shift = k, NEW f \in Lev(arity, k), NEW i \in Nat, NEW j \in Nat
    PROVE  GraftsRead(arity, f, k, shift, i, j, k - shift)
<1> DEFINE b == k - shift
           s == i \div Pow2[shift]
           t == j \div Pow2[shift]
<1>1. b \in Nat /\ b + shift = k /\ b <= NumQubits /\ shift \in Nat /\ 0 <= b /\ 0 \in Nat
  BY LevFacts
<1>2. arity = V \/ b = 0
  BY <1>1
<1>3. s \in Nat /\ t \in Nat
  BY <1>1, HalvesOf
<1> HIDE DEF s, t
<1>4. ASSUME NEW e \in LevFrom(arity, b, b)
      PROVE  /\ kroneckerRec(arity, f, k, shift)[e] \in Lev(arity, k)
             /\ Read(arity, kroneckerRec(arity, f, k, shift)[e], i, j, k)
                   = Multiply(Read(arity, e, s, t, b), Read(arity, f, i, j, k))
  <2>1. CASE isZero(e.w) \/ isZero(f.w)
    <3>1. e \in LevFrom(arity, k - shift, b) /\ k = b + shift
      BY <1>1, <1>4
    <3> HIDE DEF b
    <3> QED BY <1>1, <1>3, <2>1, <3>1, ReadZeroGraft
  <2>2. CASE ~(isZero(e.w) \/ isZero(f.w))
    <3>1. e.p = Null
      <4> HIDE DEF b
      <4> QED BY <1>1, <1>4, LevFromBottom
    <3>2. e \in Lev(arity, b)
      <4> HIDE DEF b
      <4> QED BY <1>1, <1>4, LevFromFacts
    <3>3. e \in Edge(arity) /\ e.w \in Weight
      BY <1>1, <3>2, LevFacts
    <3>4. e = terminal(e.w)
      <4>1. e = [p |-> e.p, w |-> e.w]
        BY <3>3 DEF Edge, EdgesTo
      <4> QED BY <3>1, <4>1 DEF terminal
    <3>5. e \in Lev(arity, 0)
      BY <1>1, <3>3, <3>4, LevFacts
    <3>6. Read(arity, e, s, t, 0) = e.w
      <4>1. 0 \in Nat /\ 0 <= NumQubits
        BY <1>1, LevFacts
      <4> QED BY <1>3, <3>5, <4>1, ReadType
    <3>7. Read(arity, e, s, t, b) = e.w
      <4>1. CASE b = 0
        BY <3>6, <4>1
      <4>2. CASE arity = V
        <5> HIDE DEF b
        <5> QED BY <1>1, <1>3, <3>5, <3>6, <4>2, ReadUp
      <4> QED BY <1>2, <4>1, <4>2
    <3>8. kroneckerRec(arity, f, k, shift)[e] = Rescaled(e.w, f)
      <4>1. b \in Nat /\ b <= NumQubits /\ e \in LevFrom(arity, k - shift, b)
        BY <1>1, <1>4
      <4> HIDE DEF b
      <4> QED BY <2>2, <3>1, <4>1, KroneckerAt
    <3>9. Rescaled(e.w, f) \in Lev(arity, k)
      <4>1. f \in EdgesTo(Nodes(arity, 0)[k]) /\ Family(arity, "Any", Nodes(arity, 0))
        BY LevFacts DEF Lev
      <4>2. e.w \in NonZero
        BY <2>2, <3>3, WeightLaws DEF NonZero
      <4> QED BY <4>1, <4>2, RescaledEdges DEF Lev
    <3>10. Read(arity, Rescaled(e.w, f), i, j, k) = Multiply(e.w, Read(arity, f, i, j, k))
      BY <3>3, <3>9, ReadRescaled
    <3> QED BY <3>7, <3>8, <3>9, <3>10
  <2> QED BY <2>1, <2>2
<1> QED BY <1>1, <1>4 DEF GraftsRead, GraftRead, s, t

\* An edge without a node for the qubit l.
LEMMA ReadSkipGraft ==
    ASSUME strategy \in Strategies, NEW arity \in {V, M}, NEW k \in Nat, k <= NumQubits, NEW shift \in {0, k},
           NEW f \in Lev(arity, k), NEW i \in Nat, NEW j \in Nat,
           NEW l \in Nat, NEW l1 \in Nat, l1 = l + 1, l + shift < NumQubits,
           GraftsRead(arity, f, k, shift, i, j, l), NEW e \in LevFrom(arity, k - shift, l)
    PROVE  GraftRead(arity, f, k, shift, i, j, l1, e)
<1> DEFINE n == l + shift
           n1 == n + 1
           b == k - shift
           s == i \div Pow2[shift]
           t == j \div Pow2[shift]
           g == kroneckerRec(arity, f, k, shift)[e]
<1>1. b \in Nat /\ l < NumQubits /\ shift \in Nat /\ shift + l = n /\ n <= n1 /\ n1 \in Nat
      /\ l <= NumQubits /\ n <= NumQubits /\ n \in Nat /\ n < NumQubits /\ n1 = l1 + shift
  BY LevFacts
<1>2. s \in Nat /\ t \in Nat /\ Bit(s, l) = Bit(i, n) /\ Bit(t, l) = Bit(j, n)
  BY <1>1, UpperBits
<1>3. e \in Lev(arity, l)
  <2>1. e \in LevFrom(arity, b, l)
    OBVIOUS
  <2> HIDE DEF b
  <2> QED BY <1>1, <2>1, LevFromFacts
<1>4. g \in Lev(arity, n) /\ Read(arity, g, i, j, n) = Multiply(Read(arity, e, s, t, l), Read(arity, f, i, j, k))
  BY DEF GraftsRead, GraftRead
<1> HIDE DEF s, t, g, n
<1>5. g \in Lev(arity, n1)
  BY <1>1, <1>4, LevFacts
<1>6. Read(arity, g, i, j, n1) =
         IF arity = V \/ Bit(i, n) = Bit(j, n) THEN Read(arity, g, i, j, n) ELSE Zero
  BY <1>1, <1>4, ReadSkip
<1>7. Read(arity, e, s, t, l1) =
         IF arity = V \/ Bit(s, l) = Bit(t, l) THEN Read(arity, e, s, t, l) ELSE Zero
  BY <1>1, <1>2, <1>3, ReadSkip
<1>8. Read(arity, f, i, j, k) \in Weight
  BY ReadType
<1> DEFINE r == Read(arity, f, i, j, k)
<1>9. Multiply(Zero, r) = Zero
  <2>1. r \in Weight
    BY <1>8
  <2> HIDE DEF r
  <2> QED BY <2>1, WeightLaws
<1>10. Read(arity, g, i, j, n1) = Multiply(Read(arity, e, s, t, l1), Read(arity, f, i, j, k))
  BY <1>2, <1>4, <1>6, <1>7, <1>9
<1> QED BY <1>1, <1>5, <1>10 DEF g, s, t, GraftRead

\* An edge with a node for the qubit l.
LEMMA ReadNodeGraft ==
    ASSUME strategy \in Strategies, NEW arity \in {V, M}, NEW k \in Nat, k <= NumQubits, NEW shift \in {0, k},
           NEW f \in Lev(arity, k), NEW i \in Nat, NEW j \in Nat,
           NEW l \in Nat, NEW l1 \in Nat, l1 = l + 1, l + shift < NumQubits,
           GraftsRead(arity, f, k, shift, i, j, l), NEW e \in LevFrom(arity, k - shift, l1),
           ~(isZero(e.w) \/ isZero(f.w)), NodeAt(arity, k - shift, e, l)
    PROVE  GraftRead(arity, f, k, shift, i, j, l1, e)
<1> DEFINE n == l + shift
           n1 == n + 1
           b == k - shift
           s == i \div Pow2[shift]
           t == j \div Pow2[shift]
           rec == kroneckerRec(arity, f, k, shift)
           cs == GraftedKids(arity, rec, e)
           d == Digit(arity, i, j, n)
           kid == e.p.e[d]
           made == makeEdge(arity, n, cs)
           r == Read(arity, f, i, j, k)
           w == e.w
<1>0. e.p.var = l /\ e.p # Null /\ e.p.e \in [1..arity -> LevFrom(arity, k - shift, l)]
  BY DEF NodeAt
<1>1. b \in Nat /\ l < NumQubits /\ shift \in Nat /\ shift + l = n /\ l <= NumQubits
      /\ l1 <= NumQubits /\ n1 <= NumQubits /\ n \in Nat /\ n < NumQubits /\ n1 \in Nat /\ n1 = l1 + shift
  BY LevFacts
<1>2. s \in Nat /\ t \in Nat /\ Bit(s, l) = Bit(i, n) /\ Bit(t, l) = Bit(j, n)
  <2>1. s \in Nat /\ t \in Nat /\ Bit(s, l) = Bit(i, shift + l) /\ Bit(t, l) = Bit(j, shift + l)
    BY <1>1, UpperBits
  <2> QED BY <1>1, <2>1
<1>3. e \in Lev(arity, l1)
  <2>1. e \in LevFrom(arity, b, l1)
    OBVIOUS
  <2> HIDE DEF b
  <2> QED BY <1>1, <2>1, LevFromFacts
<1>4. w \in Weight /\ w \in NonZero
  <2>1. e.w \in Weight
    BY <1>1, <1>3, LevFacts
  <2> QED BY <2>1, WeightLaws DEF NonZero
<1>5. rec[e] = Rescaled(w, made)
  <2>1. e \in LevFrom(arity, k - shift, l1) /\ l1 \in Nat /\ l1 <= NumQubits
    BY <1>1
  <2> HIDE DEF cs, made
  <2>2. rec[e] = Rescaled(e.w, makeEdge(arity, e.p.var + shift, GraftedKids(arity, rec, e)))
    BY <1>0, <2>1, KroneckerAt
  <2> QED BY <1>0, <1>1, <2>2 DEF cs, made
<1>6. \A q \in 1..arity :
         /\ cs[q] \in Lev(arity, n)
         /\ Read(arity, cs[q], i, j, n) = Multiply(Read(arity, e.p.e[q], s, t, l), r)
  <2> SUFFICES ASSUME NEW q \in 1..arity
               PROVE  /\ cs[q] \in Lev(arity, n)
                      /\ Read(arity, cs[q], i, j, n) = Multiply(Read(arity, e.p.e[q], s, t, l), r)
    OBVIOUS
  <2>1. cs[q] = rec[e.p.e[q]] /\ e.p.e[q] \in LevFrom(arity, k - shift, l)
    BY <1>0 DEF GraftedKids
  <2> QED BY <2>1 DEF GraftsRead, GraftRead
<1>7. d \in 1..arity
  BY <1>1, DigitType
<1>8. d = Digit(arity, s, t, l)
  BY <1>2 DEF Digit, Corner
<1>9. kid = Kid(arity, e, s, t, l)
  <2>1. childrenAt(arity, e.p, l) = e.p.e
    BY <1>0 DEF childrenAt, vChildrenAt, mChildrenAt
  <2> QED BY <1>8, <2>1 DEF Kid
<1>10. kid \in Lev(arity, l)
  <2>1. kid \in LevFrom(arity, b, l)
    BY <1>0, <1>7
  <2> HIDE DEF kid, b
  <2> QED BY <1>1, <2>1, LevFromFacts
<1> HIDE DEF cs, rec, s, t, d, n
<1>11. made \in Lev(arity, n1) /\ Read(arity, made, i, j, n1) = Read(arity, cs[d], i, j, n)
  <2>1. \A q \in 1..arity : cs[q] \in Lev(arity, n)
    BY <1>6
  <2>2. made \in Lev(arity, n + 1) /\ Read(arity, made, i, j, n + 1) = Read(arity, cs[Digit(arity, i, j, n)], i, j, n)
    BY <1>1, <2>1, ReadMadeOf
  <2> QED BY <2>2 DEF d, n1
<1>12. Read(arity, cs[d], i, j, n) = Multiply(Read(arity, kid, s, t, l), r)
  BY <1>6, <1>7
<1>13. Read(arity, e, s, t, l1) = Multiply(w, Read(arity, kid, s, t, l))
  <2> HIDE DEF kid
  <2>1. Read(arity, e, s, t, l + 1) = Multiply(e.w, Read(arity, Kid(arity, e, s, t, l), s, t, l))
    BY <1>1, <1>2, <1>3, ReadKid
  <2> QED BY <1>9, <2>1
<1> HIDE DEF made, w, n1
<1>14. Rescaled(w, made) \in Lev(arity, n1)
  <2>1. made \in EdgesTo(Nodes(arity, 0)[n1])
    BY <1>11 DEF Lev
  <2>2. Family(arity, "Any", Nodes(arity, 0))
    BY <2>1, LevFacts
  <2>3. Rescaled(w, made) \in EdgesTo(Nodes(arity, 0)[n1])
    BY <1>1, <1>4, <2>1, <2>2, RescaledEdges
  <2> QED BY <2>3 DEF Lev
<1>15. Read(arity, Rescaled(w, made), i, j, n1) = Multiply(w, Read(arity, made, i, j, n1))
  <2>1. made \in Lev(arity, n1) /\ n1 \in Nat /\ n1 <= NumQubits /\ Rescaled(w, made) \in Lev(arity, n1) /\ w \in Weight
    BY <1>1, <1>4, <1>11, <1>14
  <2> QED BY <2>1, ReadRescaled
<1> DEFINE h == Read(arity, kid, s, t, l)
<1>16. Multiply(w, Multiply(h, r)) = Multiply(Multiply(w, h), r)
  <2>1. h \in Weight /\ r \in Weight
    <3> HIDE DEF kid
    <3>1. Read(arity, kid, s, t, l) \in Weight
      BY <1>1, <1>2, <1>10, ReadType
    <3>2. Read(arity, f, i, j, k) \in Weight
      BY ReadType
    <3> QED BY <3>1, <3>2
  <2> HIDE DEF h, r
  <2> QED BY <1>4, <2>1, WeightLaws
<1>17. Read(arity, rec[e], i, j, n1) = Multiply(Read(arity, e, s, t, l1), r)
  <2> HIDE DEF kid, r, h
  <2> QED BY <1>5, <1>11, <1>12, <1>13, <1>15, <1>16 DEF h
<1> QED BY <1>1, <1>5, <1>14, <1>17 DEF rec, s, t, GraftRead

\* What is read of kronecker.
LEMMA ReadGraft ==
    ASSUME strategy \in Strategies, NEW arity \in {V, M}, NEW k \in Nat, k <= NumQubits, NEW shift \in {0, k},
           arity = V \/ shift = k, NEW f \in Lev(arity, k), NEW i \in Nat, NEW j \in Nat
    PROVE  \A c \in Nat : k + c <= NumQubits => GraftsRead(arity, f, k, shift, i, j, (k - shift) + c)
<1> DEFINE b == k - shift
           S == {c \in Nat : k + c <= NumQubits => GraftsRead(arity, f, k, shift, i, j, b + c)}
<1>1. b \in Nat /\ b + 0 = b /\ NumQubits \in Nat /\ shift \in Nat /\ b + shift = k
  BY LevFacts
<1>2. 0 \in S
  <2>1. GraftsRead(arity, f, k, shift, i, j, b)
    BY ReadTerminalGraft
  <2> HIDE DEF b
  <2> QED BY <1>1, <2>1
<1>3. ASSUME NEW c \in Nat, c \in S PROVE c + 1 \in S
  <2> SUFFICES ASSUME k + (c + 1) <= NumQubits PROVE GraftsRead(arity, f, k, shift, i, j, b + (c + 1))
    OBVIOUS
  <2> DEFINE l == b + c
             l1 == l + 1
  <2>1. l \in Nat /\ l + shift < NumQubits /\ l1 = b + (c + 1) /\ l1 \in Nat /\ l1 + shift <= NumQubits
    BY <1>1
  <2>2. GraftsRead(arity, f, k, shift, i, j, l)
    BY <1>3, <1>1
  <2>3. l1 = l + 1
    OBVIOUS
  <2> HIDE DEF l, l1
  <2>4. ASSUME NEW e \in LevFrom(arity, k - shift, l1)
        PROVE  GraftRead(arity, f, k, shift, i, j, l1, e)
    <3>1. CASE e \in LevFrom(arity, k - shift, l)
      BY <2>1, <2>2, <2>3, <3>1, ReadSkipGraft
    <3>2. CASE e \notin LevFrom(arity, k - shift, l) /\ (isZero(e.w) \/ isZero(f.w))
      <4> DEFINE n1 == l1 + shift
                 s == i \div Pow2[shift]
                 t == j \div Pow2[shift]
      <4>1. n1 \in Nat /\ n1 = l1 + shift /\ n1 <= NumQubits
        BY <1>1, <2>1
      <4>2. s \in Nat /\ t \in Nat
        BY <1>1, HalvesOf
      <4> HIDE DEF n1, s, t
      <4>3. /\ kroneckerRec(arity, f, k, shift)[e] \in Lev(arity, n1)
            /\ Read(arity, kroneckerRec(arity, f, k, shift)[e], i, j, n1)
                  = Multiply(Read(arity, e, s, t, l1), Read(arity, f, i, j, k))
        BY <2>1, <2>4, <3>2, <4>1, <4>2, ReadZeroGraft
      <4> QED BY <4>3 DEF n1, s, t, GraftRead
    <3>3. CASE e \notin LevFrom(arity, k - shift, l) /\ ~(isZero(e.w) \/ isZero(f.w))
      <4>1. NodeAt(arity, k - shift, e, l)
        <5>1. e \in LevFrom(arity, b, l1) /\ e \notin LevFrom(arity, b, l)
          BY <2>4, <3>3
        <5> HIDE DEF b
        <5>2. NodeAt(arity, b, e, l)
          BY <1>1, <2>1, <2>3, <5>1, LevFromNode
        <5> QED BY <5>2 DEF b
      <4> QED BY <2>1, <2>2, <2>3, <2>4, <3>3, <4>1, ReadNodeGraft
    <3> QED BY <3>1, <3>2, <3>3
  <2>5. GraftsRead(arity, f, k, shift, i, j, l1)
    BY <2>4 DEF GraftsRead
  <2> QED BY <2>1, <2>5
<1>4. Nat \subseteq S
  <2> HIDE DEF S
  <2> QED BY <1>2, <1>3, TotalInduction
<1> QED BY <1>4

\* An edge is one of every level above its node.
LEMMA OwnLev ==
    ASSUME NEW arity \in {V, M}, NEW n \in Nat, NEW e \in Lev(arity, n)
    PROVE  /\ Height(e) \in Nat /\ Height(e) <= n /\ e \in Lev(arity, Height(e))
           /\ e.p.var = Height(e) - 1
           /\ \A k \in Nat : e.p.var < k => e \in Lev(arity, k)
<1> DEFINE nodes == Nodes(arity, 0)
           h == Height(e)
<1>1. Family(arity, "Any", nodes) /\ \A k \in Nat : Lev(arity, k) = EdgesTo(nodes[k])
  BY LevFacts DEF Lev
<1> HIDE DEF nodes
<1>2. h \in Nat /\ h <= n /\ e \in EdgesTo(nodes[h]) /\ e.p.var = h - 1 /\ e.p.var \in Int
  BY <1>1, HeightFacts
<1> HIDE DEF h
<1>3. ASSUME NEW k \in Nat, e.p.var < k PROVE e \in Lev(arity, k)
  <2>1. h <= k
    BY <1>2, <1>3
  <2>2. EdgesTo(nodes[h]) \subseteq EdgesTo(nodes[k])
    BY <1>1, <1>2, <2>1, HigherEdges
  <2> QED BY <1>1, <1>2, <2>2
<1> QED BY <1>1, <1>2, <1>3 DEF h

\* The bits from lo to hi - 1 are the same.
AgreeFrom(i, j, lo, hi) == \A q \in lo..hi - 1 : Bit(i, q) = Bit(j, q)

\* Two indices below 2^n have the same bits from h + k on when they do from h on
\* without their lowest k bits.
LEMMA SameUpperBits ==
    ASSUME NEW n \in Nat, NEW i \in Nat, i < Pow2[n], NEW j \in Nat, j < Pow2[n], NEW h \in Nat, NEW k \in Nat
    PROVE  AgreeFrom(i, j, h + k, n) <=> AgreeFrom(i \div Pow2[k], j \div Pow2[k], h, n)
<1> DEFINE s == i \div Pow2[k]
           t == j \div Pow2[k]
<1>1. \A d \in Nat : Bit(s, d) = Bit(i, k + d) /\ Bit(t, d) = Bit(j, k + d)
  <2>1. \A d \in Nat : Bit(s, d) = Bit(i, k + d)
    BY UpperBits
  <2>2. \A d \in Nat : Bit(t, d) = Bit(j, k + d)
    BY UpperBits
  <2> QED BY <2>1, <2>2
<1> HIDE DEF s, t
<1>2. \A q \in Nat : n <= q => Bit(i, q) = 0 /\ Bit(j, q) = 0
  BY BitsOfSmall
<1>3. ASSUME \A q \in h + k..n - 1 : Bit(i, q) = Bit(j, q), NEW q \in h..n - 1
      PROVE  Bit(s, q) = Bit(t, q)
  <2> DEFINE c == k + q
  <2>1. q \in Nat /\ c \in Nat /\ (c \in h + k..n - 1 \/ n <= c)
    OBVIOUS
  <2>2. Bit(s, q) = Bit(i, c) /\ Bit(t, q) = Bit(j, c)
    BY <1>1, <2>1
  <2> HIDE DEF c
  <2> QED BY <1>2, <1>3, <2>1, <2>2
<1>4. ASSUME \A q \in h..n - 1 : Bit(s, q) = Bit(t, q), NEW q \in h + k..n - 1
      PROVE  Bit(i, q) = Bit(j, q)
  <2> DEFINE d == q - k
  <2>1. d \in Nat /\ k + d = q /\ d \in h..n - 1
    OBVIOUS
  <2> HIDE DEF d
  <2>2. Bit(s, d) = Bit(i, q) /\ Bit(t, d) = Bit(j, q)
    <3>1. Bit(s, d) = Bit(i, k + d) /\ Bit(t, d) = Bit(j, k + d)
      BY <1>1, <2>1
    <3> QED BY <2>1, <3>1
  <2> QED BY <1>4, <2>1, <2>2
<1>5. AgreeFrom(i, j, h + k, n) => AgreeFrom(s, t, h, n)
  BY <1>3 DEF AgreeFrom
<1>6. AgreeFrom(s, t, h, n) => AgreeFrom(i, j, h + k, n)
  BY <1>4 DEF AgreeFrom
<1> QED BY <1>5, <1>6 DEF s, t

\* What is read of an edge for the qubits below k, at the lowest k bits.
LEMMA ReadLower ==
    ASSUME NEW arity \in {V, M}, NEW k \in Nat, k <= NumQubits, NEW e \in Lev(arity, k), NEW i \in Nat, NEW j \in Nat
    PROVE  Read(arity, e, i % Pow2[k], j % Pow2[k], NumQubits) = Read(arity, e, i, j, k)
<1> DEFINE s == i % Pow2[k]
           t == j % Pow2[k]
           N == NumQubits
<1>1. s \in Nat /\ t \in Nat
  BY LowerBits
<1>2. SameBelow(k, i, j, s, t)
  <2>1. \A q \in Nat : q < k => Bit(s, q) = Bit(i, q)
    BY LowerBits
  <2>2. \A q \in Nat : q < k => Bit(t, q) = Bit(j, q)
    BY LowerBits
  <2> QED BY <2>1, <2>2 DEF SameBelow
<1>3. \A q \in Nat : k <= q => Bit(s, q) = 0 /\ Bit(t, q) = 0
  <2>1. \A q \in Nat : k <= q => Bit(s, q) = 0
    BY LowerBits
  <2>2. \A q \in Nat : k <= q => Bit(t, q) = 0
    BY LowerBits
  <2> QED BY <2>1, <2>2
<1> HIDE DEF s, t
<1>4. N \in Nat /\ N <= NumQubits /\ k <= N
  BY LevFacts
<1>5. \A q \in k..N - 1 : Bit(s, q) = Bit(t, q)
  BY <1>3, <1>4
<1> HIDE DEF N
<1>6. Read(arity, e, s, t, N) = Read(arity, e, s, t, k)
  BY <1>1, <1>4, <1>5, ReadUp
<1>7. Read(arity, e, i, j, k) = Read(arity, e, s, t, k)
  BY <1>1, <1>2, ReadSame
<1> QED BY <1>6, <1>7 DEF s, t, N

\* What is read of kronecker, at the level of the node that it returns.
LEMMA ReadKroneckerLow ==
    ASSUME strategy \in Strategies, NEW arity \in {V, M}, NEW k \in Nat, k <= NumQubits,
           NEW d \in Edge(arity), NEW e \in Lev(arity, k), Height(d) + k <= NumQubits, NEW i \in Nat, NEW j \in Nat
    PROVE  GraftRead(arity, e, k, k, i, j, Height(d), d)
<1> DEFINE h == Height(d)
<1>1. d \in Lev(arity, NumQubits) /\ NumQubits \in Nat
  BY EdgeLev
<1>2. h \in Nat /\ d \in Lev(arity, h)
  BY <1>1, OwnLev
<1>3. h + k <= NumQubits
  OBVIOUS
<1> HIDE DEF h
<1>4. d \in LevFrom(arity, 0, h)
  BY <1>2 DEF Lev, LevFrom
<1>5. k - k = 0 /\ 0 + h = h /\ (arity = V \/ k = k) /\ k \in {0, k} /\ k + h <= NumQubits
  BY <1>2, <1>3
<1>6. \A c \in Nat : k + c <= NumQubits => GraftsRead(arity, e, k, k, i, j, (k - k) + c)
  BY <1>5, ReadGraft
<1>7. GraftsRead(arity, e, k, k, i, j, h)
  <2>1. GraftsRead(arity, e, k, k, i, j, (k - k) + h)
    BY <1>2, <1>5, <1>6
  <2> QED BY <1>2, <1>5, <2>1
<1>8. d \in LevFrom(arity, k - k, h)
  BY <1>4, <1>5
<1> QED BY <1>7, <1>8 DEF GraftsRead, h

\* ... and at all qubits.
LEMMA ReadKronecker ==
    ASSUME strategy \in Strategies, NEW arity \in {V, M}, NEW k \in Nat, k <= NumQubits,
           NEW d \in Edge(arity), NEW e \in Lev(arity, k), Height(d) + k <= NumQubits,
           NEW i \in Nat, i < Pow2[NumQubits], NEW j \in Nat, j < Pow2[NumQubits]
    PROVE  /\ kroneckerRec(arity, e, k, k)[d] \in Edge(arity)
           /\ Read(arity, kroneckerRec(arity, e, k, k)[d], i, j, NumQubits)
                 = Multiply(Read(arity, d, i \div Pow2[k], j \div Pow2[k], NumQubits),
                            Read(arity, e, i % Pow2[k], j % Pow2[k], NumQubits))
<1> DEFINE h == Height(d)
           n == h + k
           N == NumQubits
           s == i \div Pow2[k]
           t == j \div Pow2[k]
           g == kroneckerRec(arity, e, k, k)[d]
           r == Read(arity, e, i, j, k)
           Low(lo, p, q) == arity = V \/ \A b \in lo..N - 1 : Bit(p, b) = Bit(q, b)
<1>1. /\ d \in Lev(arity, N) /\ N \in Nat /\ N <= NumQubits /\ n <= N
      /\ Lev(arity, N) = Edge(arity) /\ h \in Nat /\ h <= N /\ d \in Lev(arity, h)
  <2>1. d \in Lev(arity, N) /\ N \in Nat /\ N <= NumQubits /\ n <= N /\ Lev(arity, N) = Edge(arity)
    BY EdgeLev
  <2> HIDE DEF N
  <2> QED BY <2>1, OwnLev
<1>2. GraftRead(arity, e, k, k, i, j, h, d)
  BY ReadKroneckerLow
<1>3. g \in Lev(arity, n) /\ Read(arity, g, i, j, n) = Multiply(Read(arity, d, s, t, h), r)
  BY <1>2 DEF GraftRead
<1>4. s \in Nat /\ t \in Nat
  BY UpperBits
<1>5. Low(n, i, j) <=> Low(h, s, t)
  <2> HIDE DEF h
  <2>1. AgreeFrom(i, j, n, N) <=> AgreeFrom(s, t, h, N)
    BY <1>1, SameUpperBits
  <2> QED BY <2>1 DEF AgreeFrom
<1>6. Read(arity, e, i % Pow2[k], j % Pow2[k], N) = r
  BY ReadLower
<1>7. n \in Nat
  BY <1>1
<1> HIDE DEF h, n, N, s, t, g
<1>8. Read(arity, g, i, j, N) = IF Low(n, i, j) THEN Read(arity, g, i, j, n) ELSE Zero
  BY <1>1, <1>3, <1>7, ReadUp
<1>9. Read(arity, d, s, t, N) = IF Low(h, s, t) THEN Read(arity, d, s, t, h) ELSE Zero
  BY <1>1, <1>4, ReadUp
<1>10. Multiply(Zero, r) = Zero
  <2>1. r \in Weight
    BY ReadType
  <2> HIDE DEF r
  <2> QED BY <2>1, WeightLaws
<1>11. g \in Edge(arity)
  BY <1>1, <1>3, <1>7, LevFacts
<1> HIDE DEF Low, r
<1>12. Read(arity, g, i, j, N) = Multiply(Read(arity, d, s, t, N), r)
  BY <1>3, <1>5, <1>8, <1>9, <1>10
<1> QED BY <1>6, <1>11, <1>12 DEF g, s, t, N

\* The index of the upper qubits, and that of the lower.
LEMMA HighLow ==
    ASSUME NEW i \in Positions, NEW k \in Nat
    PROVE  /\ Algebra!High(i, k) \in Positions /\ Algebra!Low(i, k) \in Positions
           /\ Algebra!High(i, k) - 1 = (i - 1) \div Pow2[k]
           /\ Algebra!Low(i, k) - 1 = (i - 1) % Pow2[k]
<1> DEFINE c == i - 1
           P == Pow2[k]
           W == Pow2[NumQubits]
           h == c \div P
           l == c % P
<1>1. /\ Algebra!Size = Pow2 /\ c \in Nat /\ c < W /\ W \in Nat
      /\ \A j \in Nat : j < W => j + 1 \in Positions
  BY AlgebraIndices
<1>2. P \in Nat /\ P # 0
  BY Pow2Def
<1>3. Algebra!High(i, k) = h + 1 /\ Algebra!Low(i, k) = l + 1
  BY <1>1 DEF Algebra!High, Algebra!Low
<1>4. h \in Nat /\ l \in Nat /\ l < P /\ c = h * P + l
  BY <1>1, HalvesOf
<1> HIDE DEF c, P, W, h, l
<1>5. h <= h * P /\ h * P \in Nat
  <2>1. P = 1 + (P - 1) /\ P - 1 \in Nat
    BY <1>2
  <2> DEFINE p == P - 1
  <2> HIDE DEF p
  <2>2. p \in Nat /\ P = 1 + p
    BY <2>1 DEF p
  <2>3. h * P = h + h * p /\ h * p \in Nat
    BY <1>4, <2>2
  <2> QED BY <1>4, <2>3
<1>6. h < W /\ l < W
  BY <1>1, <1>4, <1>5
<1>7. h + 1 \in Positions /\ l + 1 \in Positions /\ (h + 1) - 1 = h /\ (l + 1) - 1 = l
  BY <1>1, <1>4, <1>6
<1> QED BY <1>3, <1>7 DEF h, l, c, P

\* kronecker of vectors: x for the qubits from k on, which it moves its variables
\* to, and y for those below.
THEOREM KroneckerIsTensor ==
    ASSUME strategy \in Strategies, NEW k \in 1..NumQubits - 1, NEW d \in Edge(V), NEW e \in Edge(V),
           topVar(e.p) < k, kroneckerFits(d, k, TRUE)
    PROVE  Vector(kronecker(V, d, e, k, TRUE)) = Algebra!Tensor(Vector(d), Vector(e), k)
<1> DEFINE g == kroneckerRec(V, e, k, k)[d]
           f == Algebra!Tensor(Vector(d), Vector(e), k)
           N == NumQubits
<1>1. V \in {V, M} /\ N \in Nat /\ k \in Nat /\ k <= N
  BY QubitsAssumption
<1>2. e \in Lev(V, N) /\ d \in Lev(V, N)
  BY <1>1, EdgeLev
<1>3. e \in Lev(V, k) /\ Height(d) + k <= N
  <2>1. e.p.var < k /\ d.p.var + 1 + k <= N
    BY DEF topVar, kroneckerFits, Shift
  <2> HIDE DEF N
  <2>2. e \in Lev(V, k)
    BY <1>1, <1>2, <2>1, OwnLev
  <2>3. Height(d) \in Nat /\ d.p.var = Height(d) - 1
    BY <1>1, <1>2, OwnLev
  <2> QED BY <1>1, <2>1, <2>2, <2>3 DEF Height
<1>4. kronecker(V, d, e, k, TRUE) = g
  BY DEF kronecker, Shift
<1>5. ASSUME NEW i \in Positions
      PROVE  g \in Edge(V) /\ f[i] = Read(V, g, i - 1, 0, N)
  <2> DEFINE c == i - 1
             h == Algebra!High(i, k)
             l == Algebra!Low(i, k)
  <2>1. c \in Nat /\ c < Pow2[N] /\ 0 \in Nat /\ 0 < Pow2[N]
    BY AlgebraIndices
  <2>2. h \in Positions /\ l \in Positions /\ h - 1 = c \div Pow2[k] /\ l - 1 = c % Pow2[k]
    BY <1>1, HighLow
  <2>3. f[i] = Multiply(Vector(d)[h], Vector(e)[l])
    BY AlgebraIndices DEF Algebra!Tensor
  <2> HIDE DEF c, h, l
  <2>4. /\ g \in Edge(V)
        /\ Read(V, g, c, 0, N) = Multiply(Read(V, d, c \div Pow2[k], 0 \div Pow2[k], N),
                                          Read(V, e, c % Pow2[k], 0 % Pow2[k], N))
    BY <1>1, <1>3, <2>1, ReadKronecker
  <2>5. Vector(d)[h] = Read(V, d, h - 1, 0 \div Pow2[k], N)
    <3>1. 0 \div Pow2[k] \in Nat
      BY <1>1, <2>1, UpperBits
    <3> QED BY <2>2, <3>1, VectorEntry
  <2>6. Vector(e)[l] = Read(V, e, l - 1, 0 % Pow2[k], N)
    <3>1. 0 % Pow2[k] \in Nat
      BY <1>1, <2>1, LowerBits
    <3> QED BY <2>2, <3>1, VectorEntry
  <2>7. f[i] = Read(V, g, c, 0, N)
    BY <2>2, <2>3, <2>4, <2>5, <2>6
  <2> QED BY <2>4, <2>7 DEF c
<1>6. g \in Edge(V)
  <2>1. 0 + 1 \in Positions
    <3>1. 0 < Pow2[N]
      BY <1>1, Pow2Def
    <3> QED BY <3>1, AlgebraIndices
  <2> QED BY <1>5, <2>1
<1>7. f = [i \in Positions |-> f[i]]
  BY AlgebraIndices DEF Algebra!Tensor
<1> HIDE DEF f, g
<1>8. Vector(g) = f
  BY <1>5, <1>6, <1>7, VectorEquals
<1> QED BY <1>4, <1>8 DEF f

\* kronecker of matrices: the same, on the rows and on the columns.
THEOREM KroneckerIsTensorOperator ==
    ASSUME strategy \in Strategies, NEW k \in 1..NumQubits - 1, NEW d \in Edge(M), NEW e \in Edge(M),
           topVar(e.p) < k, kroneckerFits(d, k, TRUE)
    PROVE  Matrix(kronecker(M, d, e, k, TRUE)) = Algebra!TensorOperator(Matrix(d), Matrix(e), k)
<1> DEFINE g == kroneckerRec(M, e, k, k)[d]
           f == Algebra!TensorOperator(Matrix(d), Matrix(e), k)
           N == NumQubits
<1>1. M \in {V, M} /\ N \in Nat /\ k \in Nat /\ k <= N
  BY QubitsAssumption
<1>2. e \in Lev(M, N) /\ d \in Lev(M, N)
  BY <1>1, EdgeLev
<1>3. e \in Lev(M, k) /\ Height(d) + k <= N
  <2>1. e.p.var < k /\ d.p.var + 1 + k <= N
    BY DEF topVar, kroneckerFits, Shift
  <2> HIDE DEF N
  <2>2. e \in Lev(M, k)
    BY <1>1, <1>2, <2>1, OwnLev
  <2>3. Height(d) \in Nat /\ d.p.var = Height(d) - 1
    BY <1>1, <1>2, OwnLev
  <2> QED BY <1>1, <2>1, <2>2, <2>3 DEF Height
<1>4. kronecker(M, d, e, k, TRUE) = g
  BY DEF kronecker, Shift
<1>5. ASSUME NEW i \in Positions, NEW j \in Positions
      PROVE  g \in Edge(M) /\ f[i][j] = Read(M, g, i - 1, j - 1, N)
  <2> DEFINE c == i - 1
             b == j - 1
             hi == Algebra!High(i, k)
             hj == Algebra!High(j, k)
             li == Algebra!Low(i, k)
             lj == Algebra!Low(j, k)
  <2>1. c \in Nat /\ c < Pow2[N] /\ b \in Nat /\ b < Pow2[N]
    BY AlgebraIndices
  <2>2. hi \in Positions /\ li \in Positions /\ hi - 1 = c \div Pow2[k] /\ li - 1 = c % Pow2[k]
    BY <1>1, HighLow
  <2>3. hj \in Positions /\ lj \in Positions /\ hj - 1 = b \div Pow2[k] /\ lj - 1 = b % Pow2[k]
    BY <1>1, HighLow
  <2>4. f[i][j] = Multiply(Matrix(d)[hi][hj], Matrix(e)[li][lj])
    BY AlgebraIndices DEF Algebra!TensorOperator
  <2> HIDE DEF c, b, hi, hj, li, lj
  <2>5. /\ g \in Edge(M)
        /\ Read(M, g, c, b, N) = Multiply(Read(M, d, c \div Pow2[k], b \div Pow2[k], N),
                                          Read(M, e, c % Pow2[k], b % Pow2[k], N))
    BY <1>1, <1>3, <2>1, ReadKronecker
  <2>6. Matrix(d)[hi][hj] = Read(M, d, hi - 1, hj - 1, N)
    BY <2>2, <2>3, MatrixEntry
  <2>7. Matrix(e)[li][lj] = Read(M, e, li - 1, lj - 1, N)
    BY <2>2, <2>3, MatrixEntry
  <2>8. f[i][j] = Read(M, g, c, b, N)
    BY <2>2, <2>3, <2>4, <2>5, <2>6, <2>7
  <2> QED BY <2>5, <2>8 DEF c, b
<1>6. g \in Edge(M)
  <2>1. 0 + 1 \in Positions
    <3>1. 0 < Pow2[N]
      BY <1>1, Pow2Def
    <3> QED BY <3>1, AlgebraIndices
  <2> QED BY <1>5, <2>1
<1>7. f = [i \in Positions |-> [j \in Positions |-> f[i][j]]]
  BY AlgebraIndices DEF Algebra!TensorOperator
<1> HIDE DEF f, g
<1>8. Matrix(g) = f
  BY <1>5, <1>6, <1>7, MatrixEquals
<1> QED BY <1>4, <1>8 DEF f

\* kronecker of vectors in place: x's variables lie above those of y.
THEOREM KroneckerIsPointwise ==
    ASSUME strategy \in Strategies, NEW k \in 1..NumQubits - 1, NEW d \in Edge(V), NEW e \in Edge(V),
           topVar(e.p) < k, d.p \in Nodes(V, k)[NumQubits]
    PROVE  Vector(kronecker(V, d, e, k, FALSE)) = Algebra!Pointwise(Vector(d), Vector(e))
<1> DEFINE g == kroneckerRec(V, e, k, 0)[d]
           f == Algebra!Pointwise(Vector(d), Vector(e))
           N == NumQubits
           b == N - k
<1>1. V \in {V, M} /\ N \in Nat /\ k \in Nat /\ k <= N /\ b \in Nat /\ k + b = N /\ 0 \in {0, k} /\ k - 0 = k
  BY QubitsAssumption
<1>2. e \in Lev(V, N) /\ d \in Lev(V, N)
  BY <1>1, EdgeLev
<1>3. e \in Lev(V, k)
  <2>1. e.p.var < k
    BY DEF topVar
  <2> HIDE DEF N
  <2> QED BY <1>1, <1>2, <2>1, OwnLev
<1>4. d \in LevFrom(V, k - 0, N)
  <2>1. d \in LevFrom(V, k, N)
    BY <1>2 DEF Lev, LevFrom, EdgesTo
  <2> QED BY <1>1, <2>1
<1>5. kronecker(V, d, e, k, FALSE) = g
  BY DEF kronecker, Shift
<1> HIDE DEF b
<1>6. ASSUME NEW c \in Nat
      PROVE  g \in Edge(V) /\ Read(V, g, c, 0, N) = Multiply(Read(V, d, c, 0, N), Read(V, e, c, 0, N))
  <2>1. \A n \in Nat : k + n <= NumQubits => GraftsRead(V, e, k, 0, c, 0, (k - 0) + n)
    BY <1>1, <1>3, ReadGraft
  <2>2. GraftsRead(V, e, k, 0, c, 0, N)
    <3>1. GraftsRead(V, e, k, 0, c, 0, (k - 0) + b)
      BY <1>1, <2>1
    <3> QED BY <1>1, <3>1
  <2>3. GraftRead(V, e, k, 0, c, 0, N, d)
    BY <1>4, <2>2 DEF GraftsRead
  <2>4. Pow2[0] = 1 /\ c \div 1 = c /\ 0 \div 1 = 0 /\ N + 0 = N
    BY <1>1, Pow2Def
  <2>5. g \in Lev(V, N) /\ Read(V, g, c, 0, N) = Multiply(Read(V, d, c, 0, N), Read(V, e, c, 0, k))
    BY <2>3, <2>4 DEF GraftRead
  <2>6. Read(V, e, c, 0, N) = Read(V, e, c, 0, k)
    <3> HIDE DEF N
    <3>1. N <= NumQubits
      BY <1>1 DEF N
    <3> QED BY <1>1, <1>3, <3>1, ReadUp
  <2> QED BY <1>1, <2>5, <2>6, EdgeLev
<1>7. ASSUME NEW i \in Positions PROVE f[i] = Read(V, g, i - 1, 0, N)
  <2> DEFINE c == i - 1
  <2>1. c \in Nat
    BY AlgebraIndices
  <2>2. f[i] = Multiply(Vector(d)[i], Vector(e)[i])
    BY AlgebraIndices DEF Algebra!Pointwise
  <2>3. Vector(d)[i] = Read(V, d, i - 1, 0, N) /\ Vector(e)[i] = Read(V, e, i - 1, 0, N)
    BY VectorEntry
  <2>4. Read(V, g, c, 0, N) = Multiply(Read(V, d, c, 0, N), Read(V, e, c, 0, N))
    <3> HIDE DEF c
    <3> QED BY <1>6, <2>1
  <2> QED BY <2>2, <2>3, <2>4
<1>8. g \in Edge(V)
  BY <1>6
<1>9. f = [i \in Positions |-> f[i]]
  BY AlgebraIndices DEF Algebra!Pointwise
<1> HIDE DEF f, g
<1>10. Vector(g) = f
  BY <1>7, <1>8, <1>9, VectorEquals
<1> QED BY <1>5, <1>10 DEF f

\* Row and column differ in a bit from lo to hi - 1, and the controls there are
\* all 1 in the row.
Differ(i, j, lo, hi) == \E k \in lo..hi - 1 : Bit(i, k) # Bit(j, k)
Fire(controls, i, lo, hi) == \A k \in lo..hi - 1 : k \in Range(controls) => Bit(i, k) = 1

\* The entry of a block wrapped from lo to hi - 1, given that of the block and that
\* of what is there otherwise.
WrappedEntry(f, g, controls, i, j, lo, hi) ==
    IF Differ(i, j, lo, hi) THEN Zero ELSE IF Fire(controls, i, lo, hi) THEN f ELSE g

Otherwise(b, diagonal, i, j, lo) == IF b \in diagonal THEN Read(M, identity, i, j, lo) ELSE Zero

\* The identity is 1 where row and column are the same.
LEMMA ReadIdentity ==
    ASSUME NEW lo \in Nat, NEW hi \in Nat, lo <= hi, hi <= NumQubits, NEW i \in Nat, NEW j \in Nat
    PROVE  /\ identity \in Lev(M, lo)
           /\ Read(M, identity, i, j, hi) = IF Differ(i, j, lo, hi) THEN Zero ELSE Read(M, identity, i, j, lo)
           /\ Read(M, identity, i, j, hi) = IF Differ(i, j, 0, hi) THEN Zero ELSE One
<1>1. M \in {V, M} /\ M # V /\ 0 \in Nat /\ 0 <= hi /\ 0 <= NumQubits /\ lo <= NumQubits
  BY LevFacts
<1>2. identity \in Lev(M, lo) /\ identity \in Lev(M, 0)
  BY <1>1, LevFacts
<1>3. \A k \in Nat : k <= hi /\ identity \in Lev(M, k) =>
         Read(M, identity, i, j, hi) = IF Differ(i, j, k, hi) THEN Zero ELSE Read(M, identity, i, j, k)
  <2> SUFFICES ASSUME NEW k \in Nat, k <= hi, identity \in Lev(M, k)
               PROVE  Read(M, identity, i, j, hi) = IF Differ(i, j, k, hi) THEN Zero ELSE Read(M, identity, i, j, k)
    OBVIOUS
  <2>1. Read(M, identity, i, j, hi) =
           IF M = V \/ \A q \in k..hi - 1 : Bit(i, q) = Bit(j, q) THEN Read(M, identity, i, j, k) ELSE Zero
    BY <1>1, ReadUp
  <2> QED BY <1>1, <2>1 DEF Differ
<1>4. Read(M, identity, i, j, 0) = One
  <2>1. Read(M, identity, i, j, 0) = identity.w
    BY <1>1, <1>2, ReadType
  <2> QED BY <2>1 DEF identity, terminal
<1> QED BY <1>1, <1>2, <1>3, <1>4

\* Bits from lo to q, the last being that of q.
LEMMA NextBit ==
    ASSUME NEW lo \in Nat, NEW q \in Nat, lo <= q, NEW i, NEW j, NEW controls
    PROVE  /\ Differ(i, j, lo, q + 1) <=> Differ(i, j, lo, q) \/ Bit(i, q) # Bit(j, q)
           /\ Fire(controls, i, lo, q + 1) <=> Fire(controls, i, lo, q) /\ (q \in Range(controls) => Bit(i, q) = 1)
           /\ ~Differ(i, j, lo, lo) /\ Fire(controls, i, lo, lo)
<1>1. \A k : k \in lo..(q + 1) - 1 <=> k \in lo..q - 1 \/ k = q
  OBVIOUS
<1>2. \A k : k \notin lo..lo - 1
  OBVIOUS
<1> QED BY <1>1, <1>2 DEF Differ, Fire

\* A block wrapped with one more qubit, which is a control or not.
NextBlock(q, active, b, diagonal, controls) ==
    IF q \in Range(controls) THEN wrapWithControl(q, active, b \in diagonal) ELSE active

\* One more qubit around a block: read where it was before, or where the block is
\* not meant to act.
LEMMA ReadWrap ==
    ASSUME strategy \in Strategies, NEW lo \in Nat, NEW q \in Nat, lo <= q, q < NumQubits,
           NEW active \in Lev(M, q), NEW b, NEW diagonal, NEW controls, NEW i \in Nat, NEW j \in Nat, NEW f,
           Read(M, active, i, j, q) = WrappedEntry(f, Otherwise(b, diagonal, i, j, lo), controls, i, j, lo, q)
    PROVE  Read(M, NextBlock(q, active, b, diagonal, controls), i, j, q + 1)
              = WrappedEntry(f, Otherwise(b, diagonal, i, j, lo), controls, i, j, lo, q + 1)
<1> DEFINE g == Otherwise(b, diagonal, i, j, lo)
           r == Read(M, active, i, j, q)
           inactive == IF b \in diagonal THEN identity ELSE zero
           cs == <<inactive, zero, zero, active>>
           c == Corner(i, j, q)
           wrapped == wrapWithControl(q, active, b \in diagonal)
<1>1. /\ M \in {V, M} /\ M # V /\ q <= NumQubits /\ M = 4 /\ zero \in Lev(M, q) /\ identity \in Lev(M, q)
      /\ inactive \in Lev(M, q)
  BY LevFacts
<1>2. /\ Differ(i, j, lo, q + 1) <=> Differ(i, j, lo, q) \/ Bit(i, q) # Bit(j, q)
      /\ Fire(controls, i, lo, q + 1) <=> Fire(controls, i, lo, q) /\ (q \in Range(controls) => Bit(i, q) = 1)
  BY NextBit
<1>3. CASE q \notin Range(controls)
  <2>1. Read(M, active, i, j, q + 1) = IF M = V \/ Bit(i, q) = Bit(j, q) THEN r ELSE Zero
    BY <1>1, ReadSkip
  <2> HIDE DEF g
  <2>2. Read(M, active, i, j, q + 1) = WrappedEntry(f, g, controls, i, j, lo, q + 1)
    BY <1>1, <1>2, <1>3, <2>1 DEF WrappedEntry, g
  <2> QED BY <1>3, <2>2 DEF g, NextBlock
<1>4. CASE q \in Range(controls)
  <2>1. wrapped = makeEdge(M, q, cs)
    BY DEF wrapWithControl, makeMEdge
  <2>2. Bit(i, q) \in {0, 1} /\ Bit(j, q) \in {0, 1} /\ c = 2 * Bit(i, q) + Bit(j, q) + 1
    BY BitType DEF Corner
  <2>3. cs[1] = inactive /\ cs[2] = zero /\ cs[3] = zero /\ cs[4] = active
    OBVIOUS
  <2>4. Digit(M, i, j, q) = c
    BY <1>1 DEF Digit
  <2>5. Read(M, inactive, i, j, q) = IF Differ(i, j, lo, q) THEN Zero ELSE g
    <3>1. CASE b \in diagonal
      <4>1. inactive = identity /\ g = Read(M, identity, i, j, lo)
        BY <3>1 DEF Otherwise
      <4>2. Read(M, identity, i, j, q) = IF Differ(i, j, lo, q) THEN Zero ELSE Read(M, identity, i, j, lo)
        BY <1>1, ReadIdentity
      <4> HIDE DEF g, inactive
      <4> QED BY <4>1, <4>2
    <3>2. CASE b \notin diagonal
      <4>1. inactive = zero /\ g = Zero
        BY <3>2 DEF Otherwise
      <4>2. Read(M, zero, i, j, q) = Zero
        BY <1>1, ReadZero
      <4> HIDE DEF g, inactive
      <4> QED BY <4>1, <4>2
    <3> QED BY <3>1, <3>2
  <2>6. Read(M, zero, i, j, q) = Zero
    BY <1>1, ReadZero
  <2> HIDE DEF cs, c, inactive, g, wrapped
  <2>7. \A k \in 1..M : cs[k] \in Lev(M, q)
    <3>1. \A k \in 1..M : k = 1 \/ k = 2 \/ k = 3 \/ k = 4
      BY <1>1
    <3> QED BY <1>1, <2>3, <3>1
  <2>8. Read(M, makeEdge(M, q, cs), i, j, q + 1) = Read(M, cs[Digit(M, i, j, q)], i, j, q)
    BY <1>1, <2>7, ReadMadeOf
  <2>9. Read(M, wrapped, i, j, q + 1) = Read(M, cs[c], i, j, q)
    BY <2>1, <2>4, <2>8
  <2>10. Read(M, wrapped, i, j, q + 1) = WrappedEntry(f, g, controls, i, j, lo, q + 1)
    <3>1. CASE Bit(i, q) # Bit(j, q)
      <4>1. c = 2 \/ c = 3
        BY <2>2, <3>1
      <4>2. Read(M, wrapped, i, j, q + 1) = Zero
        BY <2>3, <2>6, <2>9, <4>1
      <4> QED BY <1>2, <3>1, <4>2 DEF WrappedEntry
    <3>2. CASE Bit(i, q) = 1 /\ Bit(j, q) = 1
      <4>1. c = 4
        BY <2>2, <3>2
      <4>2. Read(M, wrapped, i, j, q + 1) = r
        BY <2>3, <2>9, <4>1
      <4>3. r = WrappedEntry(f, g, controls, i, j, lo, q)
        BY DEF g
      <4> QED BY <1>2, <3>2, <4>2, <4>3 DEF WrappedEntry
    <3>3. CASE Bit(i, q) = 0 /\ Bit(j, q) = 0
      <4>1. c = 1
        BY <2>2, <3>3
      <4>2. Read(M, wrapped, i, j, q + 1) = Read(M, inactive, i, j, q)
        BY <2>3, <2>9, <4>1
      <4>3. ~Fire(controls, i, lo, q + 1)
        BY <1>2, <1>4, <3>3
      <4> QED BY <1>2, <2>5, <3>3, <4>2, <4>3 DEF WrappedEntry
    <3> QED BY <2>2, <3>1, <3>2, <3>3
  <2> QED BY <1>4, <2>10 DEF wrapped, g, NextBlock
<1> QED BY <1>3, <1>4

\* All blocks, wrapped with the controls from lo to hi - 1.
ReadsBlock(blocks, b, diagonal, controls, i, j, lo, hi) ==
    Read(M, Wrapped(blocks, diagonal, controls, lo, hi)[b], i, j, hi)
        = WrappedEntry(Read(M, blocks[b], i, j, lo), Otherwise(b, diagonal, i, j, lo), controls, i, j, lo, hi)

\* All of the qubits of the loop around a block, by induction over them.
LEMMA ReadWrapped ==
    ASSUME strategy \in Strategies, NEW lo \in Nat, NEW hi \in Nat, lo <= hi, hi <= NumQubits, NEW len \in Nat,
           NEW blocks \in [1..len -> Lev(M, lo)], NEW diagonal, NEW controls,
           NEW b \in 1..len, NEW i \in Nat, NEW j \in Nat
    PROVE  /\ Wrapped(blocks, diagonal, controls, lo, hi)[b] \in Lev(M, hi)
           /\ ReadsBlock(blocks, b, diagonal, controls, i, j, lo, hi)
<1> DEFINE nodes == Nodes(M, 0)
           f == Read(M, blocks[b], i, j, lo)
           g == Otherwise(b, diagonal, i, j, lo)
<1>1. Family(M, "Any", nodes) /\ Makes("Any") /\ \A q \in Nat : Lev(M, q) = EdgesTo(nodes[q])
  BY LevFacts DEF Lev
<1>2. blocks \in [1..len -> EdgesTo(nodes[lo])]
  BY <1>1
<1> HIDE DEF nodes
<1>3. PICK upTo : /\ upTo = [q \in lo..hi |-> wrapStep(blocks, diagonal, controls, lo, upTo, q)]
                  /\ \A q \in lo..hi : upTo[q] \in [1..len -> EdgesTo(nodes[q])]
                  /\ Wrapped(blocks, diagonal, controls, lo, hi) = upTo[hi]
  <2>1. WrapsInSteps(nodes, len, blocks, diagonal, controls, lo, hi)
    BY <1>1, <1>2, WrappedSteps
  <2> QED BY <2>1 DEF WrapsInSteps
<1>4. \A q \in lo..hi : upTo[q] \in [1..len -> Lev(M, q)]
  BY <1>1, <1>3
<1> DEFINE S == {q \in lo..hi : Read(M, upTo[q][b], i, j, q) = WrappedEntry(f, g, controls, i, j, lo, q)}
<1>5. lo \in S
  <2>1. lo \in lo..hi
    OBVIOUS
  <2>2. upTo[lo] = blocks
    BY <1>3, <2>1 DEF wrapStep
  <2>3. ~Differ(i, j, lo, lo) /\ Fire(controls, i, lo, lo)
    BY NextBit
  <2> QED BY <2>1, <2>2, <2>3 DEF WrappedEntry
<1>6. ASSUME NEW n \in lo..hi, n # lo, n - 1 \in S PROVE n \in S
  <2> DEFINE q == n - 1
             em == upTo[q]
             active == em[b]
             ws == [k \in 1..len |-> wrapWithControl(q, em[k], k \in diagonal)]
             next == NextBlock(q, active, b, diagonal, controls)
  <2>1. q \in Nat /\ lo <= q /\ q < NumQubits /\ q + 1 = n /\ q \in lo..hi
    BY <1>6, LevFacts
  <2>2. em \in [1..len -> Lev(M, q)] /\ active \in Lev(M, q) /\ DOMAIN em = 1..len
    BY <1>4, <2>1
  <2>3. Read(M, active, i, j, q) = WrappedEntry(f, g, controls, i, j, lo, q)
    BY <1>6
  <2>4. upTo[n] = IF q \in Range(controls) THEN Listed([k \in DOMAIN em |-> wrapWithControl(q, em[k], k \in diagonal)])
                  ELSE em
    BY <1>3, <1>6 DEF wrapStep
  <2>5. upTo[n][b] = next
    <3>1. CASE q \in Range(controls)
      <4>1. ws \in [1..len -> Lev(M, n)]
        <5>1. \A k \in 1..len : wrapWithControl(q, em[k], k \in diagonal) \in EdgesTo(nodes[q + 1])
          <6> SUFFICES ASSUME NEW k \in 1..len
                       PROVE  wrapWithControl(q, em[k], k \in diagonal) \in EdgesTo(nodes[q + 1])
            OBVIOUS
          <6>1. em[k] \in EdgesTo(nodes[q])
            BY <1>1, <2>1, <2>2
          <6> HIDE DEF em, q
          <6> QED BY <1>1, <2>1, <6>1, WrapEdges
        <5> HIDE DEF em, q
        <5> QED BY <1>1, <2>1, <5>1
      <4> HIDE DEF ws
      <4>2. Listed(ws) = ws
        BY <4>1, ListedSame
      <4>3. upTo[n] = ws
        BY <2>2, <2>4, <3>1, <4>2 DEF ws
      <4>4. ws[b] = wrapWithControl(q, active, b \in diagonal)
        BY DEF ws
      <4> QED BY <3>1, <4>3, <4>4 DEF NextBlock
    <3>2. CASE q \notin Range(controls)
      BY <2>4, <3>2 DEF NextBlock
    <3> QED BY <3>1, <3>2
  <2> HIDE DEF q, em, active, f
  <2>6. Read(M, next, i, j, q + 1) = WrappedEntry(f, g, controls, i, j, lo, q + 1)
    BY <2>1, <2>2, <2>3, ReadWrap
  <2>7. Read(M, upTo[n][b], i, j, n) = WrappedEntry(f, g, controls, i, j, lo, n)
    BY <2>1, <2>5, <2>6
  <2> QED BY <2>7 DEF f
<1>7. lo..hi \subseteq S
  <2> HIDE DEF S
  <2>1. \A n \in lo..hi : n # lo /\ n - 1 \in S => n \in S
    BY <1>6
  <2> QED BY <1>5, <2>1, CountInduction
<1>8. hi \in lo..hi
  OBVIOUS
<1>9. upTo[hi][b] \in Lev(M, hi)
  BY <1>4, <1>8
<1> QED BY <1>3, <1>7, <1>8, <1>9 DEF ReadsBlock

\* The bits of the targets, of which there are one or two.
LEMMA SelectedBits ==
    ASSUME NEW i, NEW targets \in Seq(Nat)
    PROVE  /\ Len(targets) = 1 => Algebra!Selected(i, targets) = 2 * 0 + Algebra!Bit(i, targets[1])
           /\ Len(targets) = 2 => Algebra!Selected(i, targets)
                                     = 2 * (2 * 0 + Algebra!Bit(i, targets[1])) + Algebra!Bit(i, targets[2])
<1> DEFINE n == Len(targets)
           bit(k) == Algebra!Bit(i, targets[k])
           Sub(f) == f = [k \in 0..n |-> IF k = 0 THEN 0 ELSE 2 * f[k - 1] + bit(k)]
           sub == CHOOSE f : Sub(f)
<1>1. Algebra!Selected(i, targets) = sub[n]
  BY DEF Algebra!Selected
<1>0. n \in Nat
  OBVIOUS
<1> HIDE DEF n
<1>2. ASSUME n = 1 \/ n = 2 PROVE Sub(sub)
  <2> DEFINE f == [k \in 0..n |-> IF k = 0 THEN 0 ELSE IF k = 1 THEN 2 * 0 + bit(1) ELSE 2 * (2 * 0 + bit(1)) + bit(2)]
             g == [k \in 0..n |-> IF k = 0 THEN 0 ELSE 2 * f[k - 1] + bit(k)]
  <2>1. \A k \in 0..n : k = 0 \/ k = 1 \/ k = 2
    BY <1>0, <1>2
  <2>2. \A k \in 0..n : f[k] = g[k]
    <3> HIDE DEF bit
    <3>1. f[0] = 0 /\ 1 \in 0..n /\ f[1] = 2 * 0 + bit(1)
      BY <1>0, <1>2
    <3>2. ASSUME NEW k \in 0..n PROVE f[k] = IF k = 0 THEN 0 ELSE 2 * f[k - 1] + bit(k)
      <4>1. CASE k = 0
        BY <4>1
      <4>2. CASE k = 1
        BY <3>1, <4>2
      <4>3. CASE k = 2
        BY <3>1, <4>3
      <4> QED BY <2>1, <4>1, <4>2, <4>3
    <3> QED BY <3>2
  <2>3. f = g
    BY <2>2
  <2>4. Sub(f)
    BY <2>3
  <2> HIDE DEF Sub, f, g
  <2> QED BY <2>4
<1>3. ASSUME n = 1 \/ n = 2 PROVE sub[0] = 0 /\ sub[1] = 2 * sub[0] + bit(1)
  <2> HIDE DEF sub, bit
  <2>1. sub = [k \in 0..n |-> IF k = 0 THEN 0 ELSE 2 * sub[k - 1] + bit(k)]
    BY <1>2, <1>3
  <2>2. 0 \in 0..n /\ 1 \in 0..n /\ 1 - 1 = 0
    BY <1>0, <1>3
  <2> QED BY <2>1, <2>2
<1>4. ASSUME n = 2 PROVE sub[2] = 2 * sub[1] + bit(2)
  <2> HIDE DEF sub, bit
  <2>1. sub = [k \in 0..n |-> IF k = 0 THEN 0 ELSE 2 * sub[k - 1] + bit(k)]
    BY <1>2, <1>4
  <2>2. 2 \in 0..n /\ 2 - 1 = 1 /\ 2 # 0
    BY <1>0, <1>4
  <2>3. \A k \in 0..n : k # 0 => sub[k] = 2 * sub[k - 1] + bit(k)
    BY <2>1
  <2>4. sub[2] = 2 * sub[2 - 1] + bit(2)
    BY <2>2, <2>3
  <2> QED BY <2>2, <2>4
<1> HIDE DEF sub
<1> QED BY <1>1, <1>3, <1>4 DEF n

\* An index for each: the bits from 0 on, without the targets, the controls.
Spectating(r, i, j) == \A q \in 0..NumQubits - 1 : (\A k \in DOMAIN r.targets : q # r.targets[k]) => Bit(i, q) = Bit(j, q)
Firing(r, i) == \A k \in DOMAIN r.controls : Bit(i, r.controls[k]) = 1

\* The entries of a gate's operator.
OperatorCases(r, i, j) ==
    /\ ~Spectating(r, i - 1, j - 1) => Algebra!Operator(r)[i][j] = Zero
    /\ Spectating(r, i - 1, j - 1) /\ Firing(r, i - 1) =>
          Algebra!Operator(r)[i][j] =
             r.matrix[Pow2[Len(r.targets)] * Algebra!Selected(i, r.targets) + Algebra!Selected(j, r.targets) + 1]
    /\ Spectating(r, i - 1, j - 1) /\ ~Firing(r, i - 1) => Algebra!Operator(r)[i][j] = IF i = j THEN One ELSE Zero

\* Each entry of the algebra's operator falls under one of the cases.
LEMMA OperatorEntry ==
    ASSUME NEW r, NEW i \in Positions, NEW j \in Positions, r.targets \in Seq(Nat)
    PROVE  OperatorCases(r, i, j)
<1>1. /\ Algebra!Size = Pow2 /\ Algebra!Index = Positions /\ Algebra!Qubit = 0..NumQubits - 1
  BY AlgebraIndices
<1>2. \A q : Algebra!Bit(i, q) = Bit(i - 1, q) /\ Algebra!Bit(j, q) = Bit(j - 1, q)
  BY <1>1 DEF Algebra!Bit, Bit
<1>3. Algebra!Identity[i][j] = IF i = j THEN One ELSE Zero
  BY <1>1 DEF Algebra!Identity
<1> DEFINE Spectators == Algebra!Qubit \ {r.targets[k] : k \in DOMAIN r.targets}
           Fires == \A k \in DOMAIN r.controls : Algebra!Bit(i, r.controls[k]) = 1
           Differs == \E q \in Spectators : Algebra!Bit(i, q) # Algebra!Bit(j, q)
           selected == r.matrix[Algebra!Size[Len(r.targets)] * Algebra!Selected(i, r.targets)
                                + Algebra!Selected(j, r.targets) + 1]
<1>4. Algebra!Operator(r)[i][j] = IF Differs THEN Zero ELSE IF Fires THEN selected ELSE Algebra!Identity[i][j]
  BY <1>1 DEF Algebra!Operator
<1>5. Differs <=> ~Spectating(r, i - 1, j - 1)
  BY <1>1, <1>2 DEF Spectating
<1>6. Fires <=> Firing(r, i - 1)
  BY <1>2 DEF Firing
<1>7. selected = r.matrix[Pow2[Len(r.targets)] * Algebra!Selected(i, r.targets) + Algebra!Selected(j, r.targets) + 1]
  BY <1>1
<1> HIDE DEF Spectators, Fires, Differs, selected
<1> QED BY <1>3, <1>4, <1>5, <1>6, <1>7 DEF OperatorCases

\* Bits below, at and above mid.
LEMMA SplitBits ==
    ASSUME NEW lo \in Nat, NEW mid \in Nat, NEW hi \in Nat, lo <= mid, mid < hi, NEW i, NEW j, NEW controls
    PROVE  /\ Differ(i, j, lo, hi) <=> Differ(i, j, lo, mid) \/ Bit(i, mid) # Bit(j, mid) \/ Differ(i, j, mid + 1, hi)
           /\ mid \notin Range(controls) =>
                 (Fire(controls, i, lo, hi) <=> Fire(controls, i, lo, mid) /\ Fire(controls, i, mid + 1, hi))
<1>1. \A k : k \in lo..hi - 1 <=> k \in lo..mid - 1 \/ k = mid \/ k \in mid + 1..hi - 1
  OBVIOUS
<1> QED BY <1>1 DEF Differ, Fire

\* Positions are the same if all of their bits are.
LEMMA DifferingIndices ==
    ASSUME NEW n \in Nat, NEW i \in Nat, NEW j \in Nat, i < Pow2[n], j < Pow2[n]
    PROVE  Differ(i, j, 0, n) <=> i # j
<1>1. ASSUME ~Differ(i, j, 0, n) PROVE i = j
  <2>1. \A q \in Nat : q < n => Bit(i, q) = Bit(j, q)
    BY <1>1 DEF Differ
  <2> QED BY <2>1, SameIndex
<1>2. ASSUME i = j PROVE ~Differ(i, j, 0, n)
  BY <1>2 DEF Differ
<1> QED BY <1>1, <1>2

\* All controls of a request are 1 if those among all qubits are.
LEMMA FiringQubits ==
    ASSUME NEW r, NEW targets, r.controls \in Seq(Nat), ControlsAccepted(r.controls, targets), NEW i
    PROVE  Firing(r, i) <=> Fire(r.controls, i, 0, NumQubits)
<1>1. \A k \in DOMAIN r.controls : r.controls[k] \in Nat /\ r.controls[k] < NumQubits
  BY DEF ControlsAccepted
<1>2. Range(r.controls) = {r.controls[k] : k \in DOMAIN r.controls}
  BY DEF Range
<1>3. \A k \in DOMAIN r.controls : r.controls[k] \in 0..NumQubits - 1 /\ r.controls[k] \in Range(r.controls)
  BY <1>1, <1>2, QubitsAssumption
<1>4. \A q \in Range(r.controls) : \E k \in DOMAIN r.controls : q = r.controls[k]
  BY <1>2
<1> QED BY <1>3, <1>4 DEF Firing, Fire

\* The entries of a matrix node.
LEMMA ReadMatrixNode ==
    ASSUME strategy \in Strategies, NEW n \in Nat, n < NumQubits, NEW cs \in [1..4 -> Lev(M, n)],
           NEW i \in Nat, NEW j \in Nat
    PROVE  /\ makeMEdge(n, cs) \in Lev(M, n + 1)
           /\ Read(M, makeMEdge(n, cs), i, j, n + 1) = Read(M, cs[Corner(i, j, n)], i, j, n)
<1>1. M \in {V, M} /\ M = 4 /\ M # V
  BY LevFacts
<1>2. \A k \in 1..M : cs[k] \in Lev(M, n)
  BY <1>1
<1>3. /\ makeEdge(M, n, cs) \in Lev(M, n + 1)
      /\ Read(M, makeEdge(M, n, cs), i, j, n + 1) = Read(M, cs[Digit(M, i, j, n)], i, j, n)
  BY <1>1, <1>2, ReadMadeOf
<1>4. Digit(M, i, j, n) = Corner(i, j, n)
  BY <1>1 DEF Digit
<1> QED BY <1>3, <1>4 DEF makeMEdge

\* The corners on the diagonal.
LEMMA DiagonalCorner ==
    ASSUME NEW i \in Nat, NEW j \in Nat, NEW q \in Nat
    PROVE  /\ Corner(i, j, q) \in 1..4
           /\ Corner(i, j, q) \in {1, 4} <=> Bit(i, q) = Bit(j, q)
           /\ Row(Corner(i, j, q)) = Bit(i, q) /\ Col(Corner(i, j, q)) = Bit(j, q)
<1> DEFINE c == Corner(i, j, q)
<1>1. Bit(i, q) \in {0, 1} /\ Bit(j, q) \in {0, 1}
  BY BitType
<1>2. c = 2 * Bit(i, q) + Bit(j, q) + 1
  BY DEF Corner
<1>3. Row(c) = (c - 1) \div 2 /\ Col(c) = (c - 1) % 2
  BY DEF Row, Col
<1> HIDE DEF c
<1>4. CASE Bit(i, q) = 0 /\ Bit(j, q) = 0
  <2>1. c = 1 /\ 0 \div 2 = 0 /\ 0 % 2 = 0
    BY <1>2, <1>4
  <2> QED BY <1>3, <1>4, <2>1 DEF c
<1>5. CASE Bit(i, q) = 0 /\ Bit(j, q) = 1
  <2>1. c = 2 /\ 1 \div 2 = 0 /\ 1 % 2 = 1
    BY <1>2, <1>5
  <2> QED BY <1>3, <1>5, <2>1 DEF c
<1>6. CASE Bit(i, q) = 1 /\ Bit(j, q) = 0
  <2>1. c = 3 /\ 2 \div 2 = 1 /\ 2 % 2 = 0
    BY <1>2, <1>6
  <2> QED BY <1>3, <1>6, <2>1 DEF c
<1>7. CASE Bit(i, q) = 1 /\ Bit(j, q) = 1
  <2>1. c = 4 /\ 3 \div 2 = 1 /\ 3 % 2 = 1
    BY <1>2, <1>7
  <2> QED BY <1>3, <1>7, <2>1 DEF c
<1> QED BY <1>1, <1>4, <1>5, <1>6, <1>7

\* A gate that is wrapped with the controls above its targets.
LEMMA ReadWrappedGate ==
    ASSUME strategy \in Strategies, NEW lo \in Nat, lo <= NumQubits, NEW edge \in Lev(M, lo), NEW controls,
           NEW i \in Nat, NEW j \in Nat
    PROVE  /\ WrappedGate(edge, controls, lo) \in Lev(M, NumQubits)
           /\ Read(M, WrappedGate(edge, controls, lo), i, j, NumQubits)
                 = WrappedEntry(Read(M, edge, i, j, lo), Read(M, identity, i, j, lo), controls, i, j, lo, NumQubits)
<1> DEFINE N == NumQubits
           len == 1
           blocks == <<edge>>
           diagonal == {1}
           gate == WrappedGate(edge, controls, lo)
<1>1. N \in Nat /\ lo <= N /\ N <= NumQubits /\ len \in Nat /\ 1 \in 1..len
  BY LevFacts
<1>2. blocks \in [1..len -> Lev(M, lo)] /\ blocks[1] = edge
  OBVIOUS
<1>3. gate = Wrapped(blocks, diagonal, controls, lo, N)[1]
  BY DEF WrappedGate
<1>4. Otherwise(1, diagonal, i, j, lo) = Read(M, identity, i, j, lo)
  BY DEF Otherwise
<1> HIDE DEF N, blocks, diagonal, gate, len
<1>5. ASSUME NEW b \in 1..len
      PROVE  /\ Wrapped(blocks, diagonal, controls, lo, N)[b] \in Lev(M, N)
             /\ ReadsBlock(blocks, b, diagonal, controls, i, j, lo, N)
  BY <1>1, <1>2, ReadWrapped
<1>6. /\ Wrapped(blocks, diagonal, controls, lo, N)[1] \in Lev(M, N)
      /\ Read(M, Wrapped(blocks, diagonal, controls, lo, N)[1], i, j, N)
            = WrappedEntry(Read(M, blocks[1], i, j, lo), Otherwise(1, diagonal, i, j, lo), controls, i, j, lo, N)
  BY <1>1, <1>5 DEF ReadsBlock
<1> QED BY <1>2, <1>3, <1>4, <1>6 DEF N, gate

\* What a matrix is read of where a control is 0.
OnDiagonal(b, diagonal) == IF b \in diagonal THEN One ELSE Zero

ReadsTerminals(matrix, b, diagonal, controls, i, j, hi) ==
    Read(M, Wrapped(Terminals(matrix), diagonal, controls, 0, hi)[b], i, j, hi)
        = WrappedEntry(matrix[b], OnDiagonal(b, diagonal), controls, i, j, 0, hi)

\* The terminals of a matrix, wrapped with the controls below a target.
LEMMA ReadWrappedTerminals ==
    ASSUME strategy \in Strategies, NEW hi \in Nat, hi <= NumQubits, NEW len \in Nat, NEW matrix \in [1..len -> Weight],
           NEW diagonal, NEW controls, NEW b \in 1..len, NEW i \in Nat, NEW j \in Nat
    PROVE  /\ Wrapped(Terminals(matrix), diagonal, controls, 0, hi)[b] \in Lev(M, hi)
           /\ ReadsTerminals(matrix, b, diagonal, controls, i, j, hi)
<1> DEFINE blocks == Terminals(matrix)
           lo == 0
<1>1. lo \in Nat /\ lo <= hi /\ lo <= NumQubits
  BY LevFacts
<1>2. M \in {V, M} /\ \A w \in Weight : terminal(w) \in Lev(M, lo)
  BY LevFacts
<1>3. blocks \in [1..len -> Lev(M, lo)] /\ blocks[b] = terminal(matrix[b])
  BY <1>2 DEF Terminals
<1>4. Read(M, blocks[b], i, j, lo) = matrix[b]
  <2>1. Read(M, terminal(matrix[b]), i, j, lo) = terminal(matrix[b]).w
    BY <1>1, <1>2, <1>3, ReadType
  <2> QED BY <1>3, <2>1 DEF terminal
<1>5. Read(M, identity, i, j, lo) = One
  <2>1. ~Differ(i, j, 0, 0)
    BY DEF Differ
  <2>2. Read(M, identity, i, j, 0) = IF Differ(i, j, 0, 0) THEN Zero ELSE One
    BY <1>1, ReadIdentity
  <2> QED BY <2>1, <2>2
<1> HIDE DEF blocks, lo
<1>6. /\ Wrapped(blocks, diagonal, controls, lo, hi)[b] \in Lev(M, hi)
      /\ ReadsBlock(blocks, b, diagonal, controls, i, j, lo, hi)
  BY <1>1, <1>3, ReadWrapped
<1> QED BY <1>4, <1>5, <1>6 DEF blocks, lo, Otherwise, OnDiagonal, ReadsTerminals, ReadsBlock

\* A gate on one qubit, read.
LEMMA ReadSingleQubitGate ==
    ASSUME strategy \in Strategies, NEW t \in Nat, t < NumQubits, NEW matrix \in [1..4 -> Weight], NEW controls,
           NEW i \in Nat, NEW j \in Nat, NEW c, c = Corner(i, j, t)
    PROVE  /\ makeControlledSingleQubitGateDD(controls, t, matrix) \in Lev(M, NumQubits)
           /\ Read(M, makeControlledSingleQubitGateDD(controls, t, matrix), i, j, NumQubits)
                 = WrappedEntry(WrappedEntry(matrix[c], OnDiagonal(c, {1, 4}), controls, i, j, 0, t),
                                Read(M, identity, i, j, t + 1), controls, i, j, t + 1, NumQubits)
<1> DEFINE gate == makeControlledSingleQubitGateDD(controls, t, matrix)
           diagonal == {1, 4}
           blocks == Wrapped(Terminals(matrix), diagonal, controls, 0, t)
           edge == makeMEdge(t, blocks)
           len == 4
           l1 == t + 1
<1>1. /\ len \in Nat /\ matrix \in [1..len -> Weight] /\ t <= NumQubits /\ l1 \in Nat /\ l1 <= NumQubits
      /\ c \in 1..len
  <2>1. c \in 1..4
    BY DiagonalCorner
  <2> QED BY <2>1, QubitsAssumption
<1>2. gate = WrappedGate(edge, controls, l1)
  BY DEF makeControlledSingleQubitGateDD
<1>3. \A b \in 1..len : /\ blocks[b] \in Lev(M, t)
                        /\ Read(M, blocks[b], i, j, t)
                              = WrappedEntry(matrix[b], OnDiagonal(b, diagonal), controls, i, j, 0, t)
  <2> SUFFICES ASSUME NEW b \in 1..len
               PROVE  /\ blocks[b] \in Lev(M, t)
                      /\ Read(M, blocks[b], i, j, t)
                            = WrappedEntry(matrix[b], OnDiagonal(b, diagonal), controls, i, j, 0, t)
    OBVIOUS
  <2> HIDE DEF diagonal, len
  <2>1. strategy \in Strategies /\ len \in Nat /\ matrix \in [1..len -> Weight] /\ t <= NumQubits
    BY <1>1
  <2>2. /\ Wrapped(Terminals(matrix), diagonal, controls, 0, t)[b] \in Lev(M, t)
        /\ ReadsTerminals(matrix, b, diagonal, controls, i, j, t)
    BY <2>1, ReadWrappedTerminals
  <2> QED BY <2>2 DEF ReadsTerminals
<1>4. blocks \in [1..4 -> Lev(M, t)]
  <2> DEFINE nodes == Nodes(M, 0)
             ts == Terminals(matrix)
             lo == 0
  <2>1. Family(M, "Any", nodes) /\ Makes("Any") /\ Lev(M, t) = EdgesTo(nodes[t]) /\ lo \in Nat /\ lo <= t
    BY LevFacts DEF Lev
  <2> HIDE DEF nodes
  <2>2. ts \in [1..len -> EdgesTo(nodes[lo])]
    BY <1>1, <2>1, TerminalsEdges
  <2> HIDE DEF ts, lo, len, diagonal
  <2>3. Wrapped(ts, diagonal, controls, lo, t) \in [1..len -> EdgesTo(nodes[t])]
    BY <1>1, <2>1, <2>2, WrappedEdges
  <2> QED BY <2>1, <2>3 DEF ts, lo, len
<1> HIDE DEF blocks, diagonal, l1
<1>5. edge \in Lev(M, l1) /\ Read(M, edge, i, j, l1) = Read(M, blocks[c], i, j, t)
  BY <1>4, ReadMatrixNode DEF l1
<1> HIDE DEF edge
<1>6. /\ WrappedGate(edge, controls, l1) \in Lev(M, NumQubits)
      /\ Read(M, WrappedGate(edge, controls, l1), i, j, NumQubits)
            = WrappedEntry(Read(M, edge, i, j, l1), Read(M, identity, i, j, l1), controls, i, j, l1, NumQubits)
  BY <1>1, <1>5, ReadWrappedGate
<1> HIDE DEF gate
<1>7. Read(M, blocks[c], i, j, t) = WrappedEntry(matrix[c], OnDiagonal(c, {1, 4}), controls, i, j, 0, t)
  BY <1>1, <1>3 DEF diagonal
<1> QED BY <1>2, <1>5, <1>6, <1>7 DEF gate, l1

\* Rows and columns that are the same in all bits but the target's.
LEMMA SingleTarget ==
    ASSUME NEW r, NEW t \in Nat, t < NumQubits, r.targets \in Seq(Nat), Len(r.targets) = 1, r.targets[1] = t,
           NEW i, NEW j
    PROVE  Spectating(r, i, j) <=> ~Differ(i, j, 0, t) /\ ~Differ(i, j, t + 1, NumQubits)
<1>1. DOMAIN r.targets = {1}
  OBVIOUS
<1>2. Spectating(r, i, j) <=> \A q \in 0..NumQubits - 1 : q # t => Bit(i, q) = Bit(j, q)
  BY <1>1 DEF Spectating
<1>3. \A q : q \in 0..NumQubits - 1 /\ q # t <=> q \in 0..t - 1 \/ q \in t + 1..NumQubits - 1
  BY QubitsAssumption
<1> QED BY <1>2, <1>3 DEF Differ

\* What the code builds around a block of a single target, case by case.
LEMMA WrappedAround ==
    ASSUME NEW t \in Nat, t < NumQubits, NEW i \in Nat, NEW j \in Nat, NEW controls, t \notin Range(controls),
           i < Pow2[NumQubits], j < Pow2[NumQubits], NEW f, NEW c, c = Corner(i, j, t), NEW e,
           e = WrappedEntry(WrappedEntry(f, OnDiagonal(c, {1, 4}), controls, i, j, 0, t),
                            Read(M, identity, i, j, t + 1), controls, i, j, t + 1, NumQubits)
    PROVE  e = IF Differ(i, j, 0, t) \/ Differ(i, j, t + 1, NumQubits) THEN Zero
               ELSE IF Fire(controls, i, 0, NumQubits) THEN f
               ELSE IF i = j THEN One ELSE Zero
<1>1. NumQubits \in Nat /\ 0 \in Nat /\ t + 1 \in Nat /\ t + 1 <= NumQubits /\ 0 <= t + 1
  BY QubitsAssumption
<1>2. Differ(i, j, 0, NumQubits) <=> Differ(i, j, 0, t) \/ Bit(i, t) # Bit(j, t) \/ Differ(i, j, t + 1, NumQubits)
  BY <1>1, SplitBits
<1>3. Fire(controls, i, 0, NumQubits) <=> Fire(controls, i, 0, t) /\ Fire(controls, i, t + 1, NumQubits)
  BY <1>1, SplitBits
<1>4. Differ(i, j, 0, NumQubits) <=> i # j
  BY <1>1, DifferingIndices
<1>5. Read(M, identity, i, j, t + 1) = IF Differ(i, j, 0, t + 1) THEN Zero ELSE One
  <2> DEFINE l1 == t + 1
             lo == 0
  <2>1. l1 \in Nat /\ l1 <= NumQubits /\ lo \in Nat /\ lo <= l1
    BY <1>1
  <2> HIDE DEF l1, lo
  <2>2. Read(M, identity, i, j, l1) = IF Differ(i, j, 0, l1) THEN Zero ELSE One
    BY <2>1, ReadIdentity
  <2> QED BY <2>2 DEF l1
<1>6. Differ(i, j, 0, t + 1) <=> Differ(i, j, 0, t) \/ Bit(i, t) # Bit(j, t)
  <2> DEFINE lo == 0
  <2>1. lo \in Nat /\ t \in Nat /\ lo <= t
    OBVIOUS
  <2> HIDE DEF lo
  <2>2. Differ(i, j, lo, t + 1) <=> Differ(i, j, lo, t) \/ Bit(i, t) # Bit(j, t)
    BY <2>1, NextBit
  <2> QED BY <2>2 DEF lo
<1>7. OnDiagonal(c, {1, 4}) = IF Bit(i, t) = Bit(j, t) THEN One ELSE Zero
  <2>1. Corner(i, j, t) \in {1, 4} <=> Bit(i, t) = Bit(j, t)
    BY DiagonalCorner
  <2>2. c = Corner(i, j, t)
    OBVIOUS
  <2>3. c \in {1, 4} <=> Bit(i, t) = Bit(j, t)
    BY <2>1, <2>2
  <2>4. OnDiagonal(c, {1, 4}) = IF c \in {1, 4} THEN One ELSE Zero
    BY DEF OnDiagonal
  <2> QED BY <2>3, <2>4
<1> DEFINE inner == WrappedEntry(f, OnDiagonal(c, {1, 4}), controls, i, j, 0, t)
           ident == Read(M, identity, i, j, t + 1)
<1>8. inner = IF Differ(i, j, 0, t) THEN Zero ELSE IF Fire(controls, i, 0, t) THEN f ELSE OnDiagonal(c, {1, 4})
  BY DEF WrappedEntry
<1>9. e = IF Differ(i, j, t + 1, NumQubits) THEN Zero ELSE IF Fire(controls, i, t + 1, NumQubits) THEN inner ELSE ident
  BY DEF WrappedEntry
<1>10. ident = IF Differ(i, j, 0, t + 1) THEN Zero ELSE One
  BY <1>5
<1> HIDE DEF inner, ident
<1>11. CASE Differ(i, j, t + 1, NumQubits)
  BY <1>9, <1>11
<1>12. CASE ~Differ(i, j, t + 1, NumQubits) /\ Differ(i, j, 0, t)
  <2>1. inner = Zero /\ ident = Zero
    BY <1>6, <1>8, <1>10, <1>12
  <2> QED BY <1>9, <1>12, <2>1
<1>13. CASE ~Differ(i, j, t + 1, NumQubits) /\ ~Differ(i, j, 0, t)
  <2>1. i = j <=> Bit(i, t) = Bit(j, t)
    BY <1>2, <1>4, <1>13
  <2>2. ident = IF i = j THEN One ELSE Zero
    BY <1>6, <1>10, <1>13, <2>1
  <2>3. inner = IF Fire(controls, i, 0, t) THEN f ELSE IF i = j THEN One ELSE Zero
    BY <1>7, <1>8, <1>13, <2>1
  <2>4. e = IF Fire(controls, i, t + 1, NumQubits) THEN inner ELSE ident
    BY <1>9, <1>13
  <2> QED BY <1>3, <1>13, <2>2, <2>3, <2>4
<1> QED BY <1>11, <1>12, <1>13

\* The operator of a gate on one qubit.
LEMMA SingleTargetOperator ==
    ASSUME strategy \in Strategies, NEW r \in Request, Accepted(r), Len(r.targets) = 1,
           NEW i \in Positions, NEW j \in Positions
    PROVE  Algebra!Operator(r)[i][j] = Read(M, Gate(r), i - 1, j - 1, NumQubits)
<1> DEFINE t == r.targets[1]
           k == i - 1
           l == j - 1
           c == Corner(k, l, t)
           n == NumQubits
           cs == r.controls
           differs == Differ(k, l, 0, t) \/ Differ(k, l, t + 1, n)
           f == r.matrix[c]
           e == Read(M, Gate(r), k, l, n)
<1>1. /\ r.targets \in Seq(Nat) /\ cs \in Seq(Nat) /\ r.matrix \in [1..4 -> Weight] /\ Range(r.targets) = {t}
      /\ TargetsAccepted(r.targets) /\ ControlsAccepted(cs, Range(r.targets)) /\ t \in Nat
  <2>1. r.targets \in Seq(Nat) /\ cs \in Seq(Nat) /\ r.matrix \in [1..4 -> Weight]
    BY RequestAssumption
  <2>2. DOMAIN r.targets = {1} /\ t \in Nat
    BY <2>1
  <2>3. Range(r.targets) = {t}
    BY <2>2 DEF Range
  <2> QED BY <2>1, <2>2, <2>3 DEF Accepted
<1>2. t < n
  <2>1. 1 \in DOMAIN r.targets
    BY <1>1
  <2> QED BY <1>1, <2>1 DEF TargetsAccepted
<1>3. t \notin Range(cs)
  <2>1. \A q \in DOMAIN cs : cs[q] \notin {t}
    BY <1>1 DEF ControlsAccepted
  <2> QED BY <2>1 DEF Range
<1>4. k \in Nat /\ l \in Nat /\ k < Pow2[n] /\ l < Pow2[n] /\ i = k + 1 /\ j = l + 1 /\ (k = l <=> i = j)
  <2>1. i - 1 \in Nat /\ i - 1 < Pow2[n] /\ i = (i - 1) + 1 /\ j - 1 \in Nat /\ j - 1 < Pow2[n] /\ j = (j - 1) + 1
    BY AlgebraIndices
  <2>2. (i - 1 = j - 1) <=> (i = j)
    BY <2>1
  <2> QED BY <2>1, <2>2
<1>5. Gate(r) = makeControlledSingleQubitGateDD(cs, t, r.matrix)
  BY DEF Gate
<1>6. Spectating(r, k, l) <=> ~differs
  <2> HIDE DEF k, l
  <2>1. r.targets[1] = t /\ Len(r.targets) = 1 /\ r.targets \in Seq(Nat)
    BY <1>1
  <2> HIDE DEF t
  <2>2. Spectating(r, k, l) <=> ~Differ(k, l, 0, t) /\ ~Differ(k, l, t + 1, NumQubits)
    BY <1>1, <1>2, <2>1, SingleTarget
  <2> QED BY <2>2
<1>7. Firing(r, k) <=> Fire(cs, k, 0, n)
  <2> HIDE DEF k
  <2> QED BY <1>1, FiringQubits
<1>8. r.matrix[Pow2[Len(r.targets)] * Algebra!Selected(i, r.targets) + Algebra!Selected(j, r.targets) + 1] = f
  <2>1. Algebra!Selected(i, r.targets) = 2 * 0 + Algebra!Bit(i, t) /\ Algebra!Selected(j, r.targets) = 2 * 0 + Algebra!Bit(j, t)
    BY <1>1, SelectedBits
  <2>2. Algebra!Bit(i, t) = Bit(k, t) /\ Algebra!Bit(j, t) = Bit(l, t)
    BY AlgebraIndices DEF Algebra!Bit, Bit
  <2>3. Bit(k, t) \in {0, 1} /\ Bit(l, t) \in {0, 1}
    BY <1>1, <1>4, BitType
  <2>4. Pow2[Len(r.targets)] = 2
    BY Pow2Def
  <2>5. c = 2 * Bit(k, t) + Bit(l, t) + 1
    BY DEF Corner
  <2> HIDE DEF k, l, t, c
  <2>6. 2 * (2 * 0 + Bit(k, t)) + (2 * 0 + Bit(l, t)) + 1 = c
    BY <2>3, <2>5
  <2> QED BY <2>1, <2>2, <2>4, <2>6
<1>9. e = IF differs THEN Zero ELSE IF Fire(cs, k, 0, n) THEN f ELSE IF k = l THEN One ELSE Zero
  <2> DEFINE matrix == r.matrix
             inner == WrappedEntry(f, OnDiagonal(c, {1, 4}), cs, k, l, 0, t)
  <2>1. matrix \in [1..4 -> Weight] /\ t \in Nat /\ t < NumQubits /\ strategy \in Strategies
    BY <1>1, <1>2
  <2>2. c = Corner(k, l, t) /\ f = matrix[c]
    OBVIOUS
  <2> HIDE DEF matrix, t, k, l, c, cs
  <2>3. Read(M, makeControlledSingleQubitGateDD(cs, t, matrix), k, l, NumQubits)
            = WrappedEntry(WrappedEntry(matrix[c], OnDiagonal(c, {1, 4}), cs, k, l, 0, t),
                           Read(M, identity, k, l, t + 1), cs, k, l, t + 1, NumQubits)
    BY <1>4, <2>1, <2>2, ReadSingleQubitGate
  <2>4. e = WrappedEntry(inner, Read(M, identity, k, l, t + 1), cs, k, l, t + 1, NumQubits)
    BY <1>5, <2>2, <2>3 DEF matrix, cs
  <2> HIDE DEF e, f, inner, n
  <2>5. e = IF Differ(k, l, 0, t) \/ Differ(k, l, t + 1, NumQubits) THEN Zero
            ELSE IF Fire(cs, k, 0, NumQubits) THEN f ELSE IF k = l THEN One ELSE Zero
    BY <1>3, <1>4, <2>1, <2>2, <2>4, WrappedAround DEF n, inner
  <2> QED BY <2>5 DEF n
<1>10. /\ differs => Algebra!Operator(r)[i][j] = Zero
       /\ ~differs /\ Fire(cs, k, 0, n) => Algebra!Operator(r)[i][j] = f
       /\ ~differs /\ ~Fire(cs, k, 0, n) => Algebra!Operator(r)[i][j] = IF i = j THEN One ELSE Zero
  <2>1. r.targets \in Seq(Nat)
    BY <1>1
  <2>2. OperatorCases(r, i, j)
    BY <2>1, OperatorEntry
  <2> HIDE DEF differs, cs, f, n
  <2> QED BY <1>6, <1>7, <1>8, <2>2 DEF OperatorCases
<1> HIDE DEF differs, k, l, f, e, cs, n
<1>11. e = Algebra!Operator(r)[i][j]
  <2>1. CASE differs
    BY <1>9, <1>10, <2>1
  <2>2. CASE ~differs /\ Fire(cs, k, 0, n)
    BY <1>9, <1>10, <2>2
  <2>3. CASE ~differs /\ ~Fire(cs, k, 0, n)
    BY <1>4, <1>9, <1>10, <2>3
  <2> QED BY <2>1, <2>2, <2>3
<1> QED BY <1>11 DEF e, k, l, n

\* An index into a matrix for two qubits: the bit of the higher target is the
\* more significant one, or that of the lower.
Ordered(highFirst, h, l) == IF highFirst THEN 2 * h + l ELSE 2 * l + h
Square(highFirst, i, j, high, low) ==
    4 * Ordered(highFirst, Bit(i, high), Bit(i, low)) + Ordered(highFirst, Bit(j, high), Bit(j, low)) + 1

\* The square of an entry is one of sixteen, on the diagonal where both bits of the
\* row are those of the column.
LEMMA SquareFacts ==
    ASSUME NEW highFirst \in BOOLEAN, NEW i \in Nat, NEW j \in Nat, NEW high \in Nat, NEW low \in Nat
    PROVE  /\ Square(highFirst, i, j, high, low) \in 1..16
           /\ Square(highFirst, i, j, high, low) \in {1, 6, 11, 16}
                 <=> Bit(i, high) = Bit(j, high) /\ Bit(i, low) = Bit(j, low)
<1> DEFINE p == Ordered(highFirst, Bit(i, high), Bit(i, low))
           q == Ordered(highFirst, Bit(j, high), Bit(j, low))
           s == Square(highFirst, i, j, high, low)
<1>1. Bit(i, high) \in {0, 1} /\ Bit(i, low) \in {0, 1} /\ Bit(j, high) \in {0, 1} /\ Bit(j, low) \in {0, 1}
  BY BitType
<1>2. p \in 0..3 /\ q \in 0..3
  BY <1>1 DEF Ordered
<1>3. p = q <=> Bit(i, high) = Bit(j, high) /\ Bit(i, low) = Bit(j, low)
  BY <1>1 DEF Ordered
<1>4. s = 4 * p + q + 1
  BY DEF Square
<1> HIDE DEF p, q, s
<1>5. s \in 1..16
  BY <1>2, <1>4
<1>6. s \in {1, 6, 11, 16} <=> p = q
  BY <1>2, <1>4
<1> QED BY <1>3, <1>5, <1>6 DEF s

\* What is read of a node of the lower target.
LEMMA ReadLowerBlock ==
    ASSUME strategy \in Strategies, NEW low \in Nat, low < NumQubits, NEW em \in [1..16 -> Lev(M, low)],
           NEW highFirst \in BOOLEAN, NEW high \in Nat, NEW i \in Nat, NEW j \in Nat,
           NEW c, c = Corner(i, j, high), NEW s, s = Square(highFirst, i, j, high, low)
    PROVE  Read(M, CollapsedBy(em, low, highFirst)[c], i, j, low + 1) = Read(M, em[s], i, j, low)
<1> DEFINE b == Corner(i, j, low)
           At(k, l) == 4 * Ordered(highFirst, Row(k), Row(l)) + Ordered(highFirst, Col(k), Col(l)) + 1
           cs == [l \in 1..4 |-> em[At(c, l)]]
<1>1. M = 4 /\ c \in 1..4 /\ b \in 1..4
  BY LevFacts, DiagonalCorner
<1>2. /\ Row(c) = Bit(i, high) /\ Col(c) = Bit(j, high)
      /\ Row(b) = Bit(i, low) /\ Col(b) = Bit(j, low)
  BY DiagonalCorner
<1>3. At(c, b) = s
  BY <1>2 DEF Square
<1>4. CollapsedBy(em, low, highFirst)[c] = makeMEdge(low, cs)
  BY <1>1 DEF CollapsedBy, Ordered
<1>5. cs \in [1..4 -> Lev(M, low)]
  <2>1. ASSUME NEW l \in 1..4 PROVE At(c, l) \in 1..16
    <3>1. /\ Row(c) \in {0, 1} /\ Col(c) \in {0, 1} /\ Row(l) \in {0, 1} /\ Col(l) \in {0, 1}
      BY <1>1, RowCol
    <3>2. Ordered(highFirst, Row(c), Row(l)) \in 0..3 /\ Ordered(highFirst, Col(c), Col(l)) \in 0..3
      BY <3>1 DEF Ordered
    <3> QED BY <3>2
  <2> HIDE DEF At
  <2> QED BY <2>1
<1>6. cs[b] = em[s]
  <2> HIDE DEF At, b
  <2> QED BY <1>1, <1>3
<1> HIDE DEF cs, b, At
<1>7. Read(M, makeMEdge(low, cs), i, j, low + 1) = Read(M, cs[Corner(i, j, low)], i, j, low)
  BY <1>5, ReadMatrixNode
<1> QED BY <1>4, <1>6, <1>7 DEF b

\* A gate on two qubits, read.
TwoQubitEntry(f, s, c, controls, i, j, low, high) ==
    WrappedEntry(
        WrappedEntry(WrappedEntry(f, OnDiagonal(s, {1, 6, 11, 16}), controls, i, j, 0, low),
                     Otherwise(c, {1, 4}, i, j, low + 1), controls, i, j, low + 1, high),
        Read(M, identity, i, j, high + 1), controls, i, j, high + 1, NumQubits)

\* makeControlledTwoQubitGateDD, entry by entry: three loops, each wrapped around
\* what the one before it made.
LEMMA ReadTwoQubitGate ==
    ASSUME strategy \in Strategies, NEW t0 \in Nat, t0 < NumQubits, NEW t1 \in Nat, t1 < NumQubits, t0 # t1,
           NEW matrix \in [1..16 -> Weight], NEW controls, NEW i \in Nat, NEW j \in Nat,
           NEW low, low = Lower(t0, t1), NEW high, high = Higher(t0, t1),
           NEW c, c = Corner(i, j, high), NEW s, s = Square(t1 < t0, i, j, high, low)
    PROVE  Read(M, makeControlledTwoQubitGateDD(controls, t0, t1, matrix), i, j, NumQubits)
                 = TwoQubitEntry(matrix[s], s, c, controls, i, j, low, high)
<1> DEFINE gate == makeControlledTwoQubitGateDD(controls, t0, t1, matrix)
           squares == {1, 6, 11, 16}
           corners == {1, 4}
           first == t1 < t0
           len == 16
           grid == Wrapped(Terminals(matrix), squares, controls, 0, low)
           collapsed == CollapsedBy(grid, low, first)
           blocks == Wrapped(collapsed, corners, controls, low + 1, high)
           edge == makeMEdge(high, blocks)
           l1 == low + 1
           h1 == high + 1
           nodes == Nodes(M, 0)
<1>1. low \in Nat /\ high \in Nat /\ low < high /\ high < NumQubits
  BY DEF Lower, Higher
<1>2. /\ low < NumQubits /\ low <= NumQubits /\ l1 \in Nat /\ l1 <= high /\ high <= NumQubits
      /\ h1 \in Nat /\ h1 <= NumQubits /\ len \in Nat /\ 0 \in Nat /\ 0 <= low /\ 4 \in Nat
  BY <1>1, QubitsAssumption
<1>3. gate = WrappedGate(edge, controls, h1)
  BY DEF makeControlledTwoQubitGateDD, LowerBlocks
<1>4. first \in BOOLEAN
  OBVIOUS
<1>5. /\ Family(M, "Any", nodes) /\ Makes("Any")
      /\ Lev(M, low) = EdgesTo(nodes[low]) /\ Lev(M, l1) = EdgesTo(nodes[low + 1]) /\ Lev(M, high) = EdgesTo(nodes[high])
  BY LevFacts DEF Lev
<1>6. strategy \in Strategies /\ matrix \in [1..len -> Weight]
  OBVIOUS
<1>7. s \in 1..len
  <2> HIDE DEF first
  <2> QED BY <1>1, <1>4, SquareFacts DEF first
<1>8. c \in 1..4
  BY <1>1, DiagonalCorner
<1>9. grid \in [1..16 -> Lev(M, low)]
  <2> DEFINE ts == Terminals(matrix)
             lo == 0
  <2>1. lo \in Nat /\ lo <= low
    BY <1>1
  <2> HIDE DEF nodes
  <2>2. ts \in [1..len -> EdgesTo(nodes[lo])]
    BY <1>5, <1>6, TerminalsEdges
  <2> HIDE DEF ts, lo, len, squares
  <2>3. Wrapped(ts, squares, controls, lo, low) \in [1..len -> EdgesTo(nodes[low])]
    BY <1>1, <1>2, <1>5, <1>6, <2>1, <2>2, WrappedEdges
  <2> QED BY <1>5, <2>3 DEF ts, lo, len
<1>10. Read(M, grid[s], i, j, low) = WrappedEntry(matrix[s], OnDiagonal(s, squares), controls, i, j, 0, low)
  <2> HIDE DEF squares, len
  <2>1. ReadsTerminals(matrix, s, squares, controls, i, j, low)
    BY <1>1, <1>2, <1>6, <1>7, ReadWrappedTerminals
  <2> QED BY <2>1 DEF ReadsTerminals
<1> HIDE DEF grid, squares, first, nodes
<1>11. collapsed \in [1..4 -> Lev(M, l1)]
  BY <1>1, <1>4, <1>5, <1>6, <1>9, LowerBlocksEdges
<1>12. Read(M, collapsed[c], i, j, l1) = Read(M, grid[s], i, j, low)
  <2>1. s = Square(first, i, j, high, low) /\ c = Corner(i, j, high) /\ i \in Nat /\ j \in Nat
    BY DEF first
  <2>2. strategy \in Strategies /\ low \in Nat /\ low < NumQubits /\ high \in Nat
    BY <1>1, <1>2, <1>6
  <2> HIDE DEF l1, collapsed, corners, len
  <2>3. Read(M, CollapsedBy(grid, low, first)[c], i, j, low + 1) = Read(M, grid[s], i, j, low)
    BY <1>4, <1>9, <2>1, <2>2, ReadLowerBlock
  <2> QED BY <2>3 DEF collapsed, l1
<1> HIDE DEF collapsed, corners, l1, len
<1>13. blocks \in [1..4 -> Lev(M, high)]
  <2>1. Wrapped(collapsed, corners, controls, l1, high) \in [1..4 -> EdgesTo(nodes[high])]
    <3>1. collapsed \in [1..4 -> EdgesTo(nodes[l1])]
      BY <1>5, <1>11 DEF l1
    <3> QED BY <1>1, <1>2, <1>5, <1>6, <3>1, WrappedEdges
  <2> QED BY <1>5, <2>1 DEF l1
<1>14. Read(M, Wrapped(collapsed, corners, controls, l1, high)[c], i, j, high)
          = WrappedEntry(Read(M, collapsed[c], i, j, l1), Otherwise(c, corners, i, j, l1), controls, i, j, l1, high)
  <2> DEFINE four == 4
  <2>1. four \in Nat /\ collapsed \in [1..four -> Lev(M, l1)] /\ c \in 1..four
    BY <1>8, <1>11
  <2>2. strategy \in Strategies /\ l1 \in Nat /\ high \in Nat /\ l1 <= high /\ high <= NumQubits
    BY <1>1, <1>2
  <2> HIDE DEF four
  <2>3. ReadsBlock(collapsed, c, corners, controls, i, j, l1, high)
    BY <2>1, <2>2, ReadWrapped
  <2> QED BY <2>3 DEF ReadsBlock
<1> HIDE DEF blocks
<1>15. edge \in Lev(M, h1) /\ Read(M, edge, i, j, h1) = Read(M, blocks[c], i, j, high)
  <2>1. strategy \in Strategies /\ high \in Nat /\ high < NumQubits
    BY <1>1
  <2>2. /\ makeMEdge(high, blocks) \in Lev(M, high + 1)
        /\ Read(M, makeMEdge(high, blocks), i, j, high + 1) = Read(M, blocks[Corner(i, j, high)], i, j, high)
    BY <1>13, <2>1, ReadMatrixNode
  <2> QED BY <2>2
<1> HIDE DEF edge, h1, gate
<1>16. Read(M, WrappedGate(edge, controls, h1), i, j, NumQubits)
          = WrappedEntry(Read(M, edge, i, j, h1), Read(M, identity, i, j, h1), controls, i, j, h1, NumQubits)
  <2>1. strategy \in Strategies /\ edge \in Lev(M, h1) /\ h1 \in Nat /\ h1 <= NumQubits
    BY <1>2, <1>6, <1>15
  <2> QED BY <2>1, ReadWrappedGate
<1>17. blocks[c] = Wrapped(collapsed, corners, controls, l1, high)[c]
  BY DEF blocks, l1
<1>18. Read(M, gate, i, j, NumQubits) =
          WrappedEntry(
              WrappedEntry(WrappedEntry(matrix[s], OnDiagonal(s, squares), controls, i, j, 0, low),
                           Otherwise(c, corners, i, j, l1), controls, i, j, l1, high),
              Read(M, identity, i, j, h1), controls, i, j, h1, NumQubits)
  BY <1>3, <1>10, <1>12, <1>14, <1>15, <1>16, <1>17
<1> QED BY <1>18 DEF gate, l1, h1, corners, squares, TwoQubitEntry

\* What the identity is read to be.
Same(i, j, l) == IF Differ(i, j, 0, l) THEN Zero ELSE One

\* What the identity is read to be, for all of the qubits below l.
LEMMA ReadSame0 ==
    ASSUME NEW l \in Nat, l <= NumQubits, NEW i \in Nat, NEW j \in Nat
    PROVE  Read(M, identity, i, j, l) = Same(i, j, l)
<1> DEFINE lo == 0
<1>1. lo \in Nat /\ lo <= l
  OBVIOUS
<1> HIDE DEF lo
<1>2. Read(M, identity, i, j, l) = IF Differ(i, j, 0, l) THEN Zero ELSE One
  BY <1>1, ReadIdentity
<1> QED BY <1>2 DEF Same

\* The bits below l, and l.
LEMMA NextSame ==
    ASSUME NEW l \in Nat, NEW i, NEW j
    PROVE  Differ(i, j, 0, l + 1) <=> Differ(i, j, 0, l) \/ Bit(i, l) # Bit(j, l)
<1>1. \A k : k \in 0..(l + 1) - 1 <=> k \in 0..l - 1 \/ k = l
  OBVIOUS
<1> QED BY <1>1 DEF Differ

\* The bits below two targets, between and above them.
LEMMA SplitTwice ==
    ASSUME NEW low \in Nat, NEW high \in Nat, low < high, high < NumQubits, NEW i, NEW j, NEW controls,
           low \notin Range(controls), high \notin Range(controls)
    PROVE  /\ Differ(i, j, 0, high) <=> \/ Differ(i, j, 0, low) \/ Bit(i, low) # Bit(j, low)
                                        \/ Differ(i, j, low + 1, high)
           /\ Differ(i, j, 0, NumQubits) <=> \/ Differ(i, j, 0, high) \/ Bit(i, high) # Bit(j, high)
                                             \/ Differ(i, j, high + 1, NumQubits)
           /\ Fire(controls, i, 0, NumQubits) <=> /\ Fire(controls, i, 0, low) /\ Fire(controls, i, low + 1, high)
                                                  /\ Fire(controls, i, high + 1, NumQubits)
<1> DEFINE lo == 0
<1>1. lo \in Nat /\ lo <= low /\ lo <= high /\ NumQubits \in Nat
  BY QubitsAssumption
<1> HIDE DEF lo
<1>2. /\ Differ(i, j, lo, high) <=> Differ(i, j, lo, low) \/ Bit(i, low) # Bit(j, low) \/ Differ(i, j, low + 1, high)
      /\ Fire(controls, i, lo, high) <=> Fire(controls, i, lo, low) /\ Fire(controls, i, low + 1, high)
  BY <1>1, SplitBits
<1>3. /\ Differ(i, j, lo, NumQubits) <=>
            Differ(i, j, lo, high) \/ Bit(i, high) # Bit(j, high) \/ Differ(i, j, high + 1, NumQubits)
      /\ Fire(controls, i, lo, NumQubits) <=> Fire(controls, i, lo, high) /\ Fire(controls, i, high + 1, NumQubits)
  BY <1>1, SplitBits
<1> QED BY <1>2, <1>3 DEF lo

\* What the code builds around a block of two targets, case by case.
LEMMA WrappedTwice ==
    ASSUME NEW low \in Nat, NEW high \in Nat, low < high, high < NumQubits, NEW i \in Nat, NEW j \in Nat,
           NEW controls, low \notin Range(controls), high \notin Range(controls),
           i < Pow2[NumQubits], j < Pow2[NumQubits], NEW f, NEW c, c = Corner(i, j, high), NEW s,
           s \in {1, 6, 11, 16} <=> Bit(i, high) = Bit(j, high) /\ Bit(i, low) = Bit(j, low)
    PROVE  TwoQubitEntry(f, s, c, controls, i, j, low, high) =
              IF \/ Differ(i, j, 0, low) \/ Differ(i, j, low + 1, high) \/ Differ(i, j, high + 1, NumQubits) THEN Zero
              ELSE IF Fire(controls, i, 0, NumQubits) THEN f
              ELSE IF i = j THEN One ELSE Zero
<1> DEFINE inner == WrappedEntry(f, OnDiagonal(s, {1, 6, 11, 16}), controls, i, j, 0, low)
           other == Otherwise(c, {1, 4}, i, j, low + 1)
           middle == WrappedEntry(inner, other, controls, i, j, low + 1, high)
           ident == Read(M, identity, i, j, high + 1)
           e == TwoQubitEntry(f, s, c, controls, i, j, low, high)
           F0 == Fire(controls, i, 0, low)
           F1 == Fire(controls, i, low + 1, high)
           F2 == Fire(controls, i, high + 1, NumQubits)
           D0 == Differ(i, j, 0, low)
           D1 == Differ(i, j, low + 1, high)
           D2 == Differ(i, j, high + 1, NumQubits)
           BH == Bit(i, high) = Bit(j, high)
           BL == Bit(i, low) = Bit(j, low)
<1>1. low + 1 \in Nat /\ low + 1 <= NumQubits /\ high + 1 \in Nat /\ high + 1 <= NumQubits /\ NumQubits \in Nat
  BY QubitsAssumption
<1>2. (i = j <=> ~D0 /\ BL /\ ~D1 /\ BH /\ ~D2) /\ (Fire(controls, i, 0, NumQubits) <=> F0 /\ F1 /\ F2)
  <2>1. Differ(i, j, 0, NumQubits) <=> i # j
    BY <1>1, DifferingIndices
  <2>2. /\ Differ(i, j, 0, high) <=> D0 \/ ~BL \/ D1
        /\ Differ(i, j, 0, NumQubits) <=> Differ(i, j, 0, high) \/ ~BH \/ D2
        /\ Fire(controls, i, 0, NumQubits) <=> F0 /\ F1 /\ F2
    BY SplitTwice
  <2> QED BY <2>1, <2>2
<1>3. ident = IF D0 \/ ~BL \/ D1 \/ ~BH THEN Zero ELSE One
  <2>1. ident = Same(i, j, high + 1)
    BY <1>1, ReadSame0
  <2>2. Differ(i, j, 0, high + 1) <=> Differ(i, j, 0, high) \/ ~BH
    BY NextSame
  <2>3. Differ(i, j, 0, high) <=> D0 \/ ~BL \/ D1
    BY SplitTwice
  <2> QED BY <2>1, <2>2, <2>3 DEF Same
<1>4. other = IF BH /\ BL /\ ~D0 THEN One ELSE Zero
  <2>1. Read(M, identity, i, j, low + 1) = Same(i, j, low + 1)
    BY <1>1, ReadSame0
  <2>2. Differ(i, j, 0, low + 1) <=> D0 \/ ~BL
    BY NextSame
  <2>3. Corner(i, j, high) \in {1, 4} <=> BH
    BY DiagonalCorner
  <2>4. c \in {1, 4} <=> BH
    BY <2>3
  <2>5. other = IF c \in {1, 4} THEN Read(M, identity, i, j, low + 1) ELSE Zero
    BY DEF Otherwise
  <2> QED BY <2>1, <2>2, <2>4, <2>5 DEF Same
<1>5. OnDiagonal(s, {1, 6, 11, 16}) = IF BH /\ BL THEN One ELSE Zero
  <2>1. OnDiagonal(s, {1, 6, 11, 16}) = IF s \in {1, 6, 11, 16} THEN One ELSE Zero
    BY DEF OnDiagonal
  <2> QED BY <2>1
<1>6. inner = IF D0 THEN Zero ELSE IF F0 THEN f ELSE OnDiagonal(s, {1, 6, 11, 16})
  BY DEF WrappedEntry
<1>7. middle = IF D1 THEN Zero ELSE IF F1 THEN inner ELSE other
  BY DEF WrappedEntry
<1>8. e = IF D2 THEN Zero ELSE IF F2 THEN middle ELSE ident
  BY DEF WrappedEntry, TwoQubitEntry
<1> HIDE DEF inner, other, middle, ident, e, F0, F1, F2, D0, D1, D2, BH, BL
<1>9. CASE D2
  BY <1>8, <1>9 DEF e, D2
<1>10. CASE ~D2 /\ D1
  <2>1. middle = Zero /\ ident = Zero
    BY <1>3, <1>7, <1>10
  <2> QED BY <1>8, <1>10, <2>1 DEF e, D1
<1>11. CASE ~D2 /\ ~D1 /\ D0
  <2>1. inner = Zero /\ other = Zero /\ ident = Zero
    BY <1>3, <1>4, <1>6, <1>11
  <2> QED BY <1>7, <1>8, <1>11, <2>1 DEF e, D0
<1>12. CASE ~D2 /\ ~D1 /\ ~D0
  <2>1. i = j <=> BH /\ BL
    BY <1>2, <1>12
  <2>2. ident = IF i = j THEN One ELSE Zero
    BY <1>3, <1>12, <2>1
  <2>3. other = IF i = j THEN One ELSE Zero
    BY <1>4, <1>12, <2>1
  <2>4. inner = IF F0 THEN f ELSE IF i = j THEN One ELSE Zero
    BY <1>5, <1>6, <1>12, <2>1
  <2>5. middle = IF F1 THEN inner ELSE other
    BY <1>7, <1>12
  <2>6. e = IF F2 THEN middle ELSE ident
    BY <1>8, <1>12
  <2>7. e = IF Fire(controls, i, 0, NumQubits) THEN f ELSE IF i = j THEN One ELSE Zero
    BY <1>2, <2>2, <2>3, <2>4, <2>5, <2>6
  <2> QED BY <1>12, <2>7 DEF e, D0, D1, D2
<1> QED BY <1>9, <1>10, <1>11, <1>12

\* Both members of a list of two targets are numbers.
LEMMA PairOfTargets ==
    ASSUME NEW ts \in Seq(Nat), Len(ts) = 2
    PROVE  DOMAIN ts = {1, 2} /\ ts[1] \in Nat /\ ts[2] \in Nat
<1>1. DOMAIN ts = {1, 2}
  OBVIOUS
<1>2. \A k \in 1..Len(ts) : ts[k] \in Nat
  <2>1. ts \in [1..Len(ts) -> Nat]
    BY SMTT(30)
  <2> QED BY <2>1
<1>3. 1 \in 1..Len(ts) /\ 2 \in 1..Len(ts)
  OBVIOUS
<1> QED BY <1>1, <1>2, <1>3

\* Rows and columns that are the same in all bits but those of two targets.
LEMMA TwoTargets ==
    ASSUME NEW r, NEW low \in Nat, NEW high \in Nat, low < high, high < NumQubits,
           r.targets \in Seq(Nat), Len(r.targets) = 2, {r.targets[1], r.targets[2]} = {low, high}, NEW i, NEW j
    PROVE  Spectating(r, i, j) <=>
              ~Differ(i, j, 0, low) /\ ~Differ(i, j, low + 1, high) /\ ~Differ(i, j, high + 1, NumQubits)
<1>1. DOMAIN r.targets = {1, 2}
  OBVIOUS
<1>2. \A q : (\A k \in DOMAIN r.targets : q # r.targets[k]) <=> q # low /\ q # high
  BY <1>1
<1>3. Spectating(r, i, j) <=> \A q \in 0..NumQubits - 1 : q # low /\ q # high => Bit(i, q) = Bit(j, q)
  BY <1>2 DEF Spectating
<1>4. \A q : q \in 0..NumQubits - 1 /\ q # low /\ q # high
                <=> q \in 0..low - 1 \/ q \in low + 1..high - 1 \/ q \in high + 1..NumQubits - 1
  BY QubitsAssumption
<1> QED BY <1>3, <1>4 DEF Differ

\* The entry of a matrix for two qubits that the targets select.
LEMMA SelectedSquare ==
    ASSUME NEW t0 \in Nat, NEW t1 \in Nat, t0 # t1, NEW low, low = Lower(t0, t1), NEW high, high = Higher(t0, t1),
           NEW i \in Nat, NEW j \in Nat
    PROVE  4 * (2 * (2 * 0 + Bit(i, t0)) + Bit(i, t1)) + (2 * (2 * 0 + Bit(j, t0)) + Bit(j, t1)) + 1
              = Square(t1 < t0, i, j, high, low)
<1>1. Bit(i, t0) \in {0, 1} /\ Bit(i, t1) \in {0, 1} /\ Bit(j, t0) \in {0, 1} /\ Bit(j, t1) \in {0, 1}
  BY BitType
<1> DEFINE p0 == Bit(i, t0)
           p1 == Bit(i, t1)
           q0 == Bit(j, t0)
           q1 == Bit(j, t1)
<1>4. 4 * (2 * (2 * 0 + p0) + p1) + (2 * (2 * 0 + q0) + q1) + 1 = 4 * (2 * p0 + p1) + (2 * q0 + q1) + 1
  <2> HIDE DEF p0, p1, q0, q1
  <2> QED BY <1>1 DEF p0, p1, q0, q1
<1>2. CASE t1 < t0
  <2>1. low = t1 /\ high = t0
    BY <1>2 DEF Lower, Higher
  <2>2. Square(TRUE, i, j, high, low) = 4 * (2 * Bit(i, t0) + Bit(i, t1)) + (2 * Bit(j, t0) + Bit(j, t1)) + 1
    BY <2>1 DEF Square, Ordered
  <2>3. Square(t1 < t0, i, j, high, low) = Square(TRUE, i, j, high, low)
    BY <1>2 DEF Square, Ordered
  <2> QED BY <1>4, <2>2, <2>3
<1>3. CASE ~(t1 < t0)
  <2>1. low = t0 /\ high = t1
    BY <1>3 DEF Lower, Higher
  <2>2. Square(FALSE, i, j, high, low) = 4 * (2 * Bit(i, t0) + Bit(i, t1)) + (2 * Bit(j, t0) + Bit(j, t1)) + 1
    BY <2>1 DEF Square, Ordered
  <2>3. Square(t1 < t0, i, j, high, low) = Square(FALSE, i, j, high, low)
    BY <1>3 DEF Square, Ordered
  <2> QED BY <1>4, <2>2, <2>3
<1> QED BY <1>2, <1>3

\* The operator of a gate on two qubits.
LEMMA TwoTargetOperator ==
    ASSUME strategy \in Strategies, NEW r \in Request, Accepted(r), Len(r.targets) = 2,
           NEW i \in Positions, NEW j \in Positions
    PROVE  Algebra!Operator(r)[i][j] = Read(M, Gate(r), i - 1, j - 1, NumQubits)
<1> DEFINE t0 == r.targets[1]
           t1 == r.targets[2]
           low == Lower(t0, t1)
           high == Higher(t0, t1)
           k == i - 1
           l == j - 1
           c == Corner(k, l, high)
           s == Square(t1 < t0, k, l, high, low)
           n == NumQubits
           cs == r.controls
           differs == Differ(k, l, 0, low) \/ Differ(k, l, low + 1, high) \/ Differ(k, l, high + 1, n)
           f == r.matrix[s]
           e == Read(M, Gate(r), k, l, n)
<1>1. /\ r.targets \in Seq(Nat) /\ cs \in Seq(Nat) /\ r.matrix \in [1..16 -> Weight] /\ Range(r.targets) = {t0, t1}
      /\ TargetsAccepted(r.targets) /\ ControlsAccepted(cs, Range(r.targets)) /\ t0 \in Nat /\ t1 \in Nat
      /\ DOMAIN r.targets = {1, 2}
  <2>1. r.targets \in Seq(Nat) /\ cs \in Seq(Nat) /\ r.matrix \in [1..16 -> Weight]
    BY RequestAssumption
  <2>2. DOMAIN r.targets = {1, 2} /\ t0 \in Nat /\ t1 \in Nat
    BY <2>1, PairOfTargets
  <2>3. Range(r.targets) = {t0, t1}
    BY <2>2 DEF Range
  <2> QED BY <2>1, <2>2, <2>3 DEF Accepted
<1>2. t0 < n /\ t1 < n /\ t0 # t1
  <2>1. 1 \in DOMAIN r.targets /\ 2 \in DOMAIN r.targets /\ 1 # 2
    BY <1>1
  <2> QED BY <1>1, <2>1 DEF TargetsAccepted
<1>3. low \in Nat /\ high \in Nat /\ low < high /\ high < n /\ {t0, t1} = {low, high}
  <2>1. t0 \in Nat /\ t1 \in Nat /\ t0 < n /\ t1 < n /\ t0 # t1 /\ n \in Nat
    BY <1>1, <1>2, QubitsAssumption
  <2> HIDE DEF t0, t1, n
  <2>2. CASE t0 < t1
    BY <2>1, <2>2 DEF Lower, Higher
  <2>3. CASE t1 < t0
    BY <2>1, <2>3 DEF Lower, Higher
  <2> QED BY <2>1, <2>2, <2>3
<1>4. low \notin Range(cs) /\ high \notin Range(cs)
  <2>1. \A q \in DOMAIN cs : cs[q] \notin {low, high}
    BY <1>1, <1>3 DEF ControlsAccepted
  <2> HIDE DEF low, high, cs
  <2> QED BY <2>1 DEF Range
<1>5. k \in Nat /\ l \in Nat /\ k < Pow2[n] /\ l < Pow2[n] /\ i = k + 1 /\ j = l + 1 /\ (k = l <=> i = j)
  <2>1. i - 1 \in Nat /\ i - 1 < Pow2[n] /\ i = (i - 1) + 1 /\ j - 1 \in Nat /\ j - 1 < Pow2[n] /\ j = (j - 1) + 1
    BY AlgebraIndices
  <2>2. (i - 1 = j - 1) <=> (i = j)
    BY <2>1
  <2> QED BY <2>1, <2>2
<1>6. Gate(r) = makeControlledTwoQubitGateDD(cs, t0, t1, r.matrix)
  BY DEF Gate
<1>7. Spectating(r, k, l) <=> ~differs
  <2> HIDE DEF k, l
  <2>1. {r.targets[1], r.targets[2]} = {low, high} /\ Len(r.targets) = 2 /\ r.targets \in Seq(Nat)
    BY <1>1, <1>3
  <2> HIDE DEF low, high
  <2>2. Spectating(r, k, l) <=>
           ~Differ(k, l, 0, low) /\ ~Differ(k, l, low + 1, high) /\ ~Differ(k, l, high + 1, NumQubits)
    BY <1>3, <2>1, TwoTargets
  <2> QED BY <2>2
<1>8. Firing(r, k) <=> Fire(cs, k, 0, n)
  <2> HIDE DEF k
  <2> QED BY <1>1, FiringQubits
<1>9. r.matrix[Pow2[Len(r.targets)] * Algebra!Selected(i, r.targets) + Algebra!Selected(j, r.targets) + 1] = f
  <2>1. /\ Algebra!Selected(i, r.targets) = 2 * (2 * 0 + Algebra!Bit(i, t0)) + Algebra!Bit(i, t1)
        /\ Algebra!Selected(j, r.targets) = 2 * (2 * 0 + Algebra!Bit(j, t0)) + Algebra!Bit(j, t1)
    BY <1>1, SelectedBits
  <2>2. /\ Algebra!Bit(i, t0) = Bit(k, t0) /\ Algebra!Bit(j, t0) = Bit(l, t0)
        /\ Algebra!Bit(i, t1) = Bit(k, t1) /\ Algebra!Bit(j, t1) = Bit(l, t1)
    BY AlgebraIndices DEF Algebra!Bit, Bit
  <2>3. Pow2[Len(r.targets)] = 4
    <3>1. Pow2[1] = 2 * Pow2[0] /\ Pow2[0] = 1 /\ Pow2[2] = 2 * Pow2[1]
      BY Pow2Def
    <3> QED BY <3>1
  <2> HIDE DEF k, l, t0, t1, low, high, s
  <2>4. 4 * (2 * (2 * 0 + Bit(k, t0)) + Bit(k, t1)) + (2 * (2 * 0 + Bit(l, t0)) + Bit(l, t1)) + 1 = s
    BY <1>1, <1>2, <1>5, SelectedSquare DEF low, high, s
  <2> QED BY <2>1, <2>2, <2>3, <2>4
<1>10. e = IF differs THEN Zero ELSE IF Fire(cs, k, 0, n) THEN f ELSE IF k = l THEN One ELSE Zero
  <2> DEFINE matrix == r.matrix
  <2>1. matrix \in [1..16 -> Weight] /\ t0 \in Nat /\ t1 \in Nat /\ t0 < NumQubits /\ t1 < NumQubits /\ t0 # t1
        /\ strategy \in Strategies
    BY <1>1, <1>2
  <2>2. /\ c = Corner(k, l, high) /\ f = matrix[s] /\ s = Square(t1 < t0, k, l, high, low)
        /\ low = Lower(t0, t1) /\ high = Higher(t0, t1)
    OBVIOUS
  <2>3. s \in {1, 6, 11, 16} <=> Bit(k, high) = Bit(l, high) /\ Bit(k, low) = Bit(l, low)
    <3> DEFINE first == t1 < t0
    <3>1. first \in BOOLEAN /\ s = Square(first, k, l, high, low)
      OBVIOUS
    <3> HIDE DEF first, k, l, high, low, s
    <3>2. Square(first, k, l, high, low) \in {1, 6, 11, 16} <=> Bit(k, high) = Bit(l, high) /\ Bit(k, low) = Bit(l, low)
      BY <1>3, <1>5, <3>1, SquareFacts
    <3> QED BY <3>1, <3>2
  <2> HIDE DEF matrix, t0, t1, k, l, c, cs, s, low, high
  <2>4. Read(M, makeControlledTwoQubitGateDD(cs, t0, t1, matrix), k, l, NumQubits)
            = TwoQubitEntry(matrix[s], s, c, cs, k, l, low, high)
    BY <1>5, <2>1, <2>2, ReadTwoQubitGate
  <2>5. e = TwoQubitEntry(f, s, c, cs, k, l, low, high)
    BY <1>6, <2>2, <2>4 DEF matrix, cs
  <2> HIDE DEF e, f
  <2>6. TwoQubitEntry(f, s, c, cs, k, l, low, high) =
           IF \/ Differ(k, l, 0, low) \/ Differ(k, l, low + 1, high) \/ Differ(k, l, high + 1, NumQubits) THEN Zero
           ELSE IF Fire(cs, k, 0, NumQubits) THEN f
           ELSE IF k = l THEN One ELSE Zero
    BY <1>3, <1>4, <1>5, <2>2, <2>3, WrappedTwice
  <2> QED BY <2>5, <2>6
<1>11. /\ differs => Algebra!Operator(r)[i][j] = Zero
       /\ ~differs /\ Fire(cs, k, 0, n) => Algebra!Operator(r)[i][j] = f
       /\ ~differs /\ ~Fire(cs, k, 0, n) => Algebra!Operator(r)[i][j] = IF i = j THEN One ELSE Zero
  <2>1. r.targets \in Seq(Nat)
    BY <1>1
  <2>2. OperatorCases(r, i, j)
    BY <2>1, OperatorEntry
  <2> HIDE DEF differs, cs, f, n
  <2> QED BY <1>7, <1>8, <1>9, <2>2 DEF OperatorCases
<1> HIDE DEF differs, k, l, f, e, cs, n
<1>12. e = Algebra!Operator(r)[i][j]
  <2>1. CASE differs
    BY <1>10, <1>11, <2>1
  <2>2. CASE ~differs /\ Fire(cs, k, 0, n)
    BY <1>10, <1>11, <2>2
  <2>3. CASE ~differs /\ ~Fire(cs, k, 0, n)
    BY <1>5, <1>10, <1>11, <2>3
  <2> QED BY <2>1, <2>2, <2>3
<1> QED BY <1>12 DEF e, k, l, n

(***************************************************************************)
(* makeControlledSingleQubitGateDD and makeControlledTwoQubitGateDD build  *)
(* the operator that applies the matrix to the targets, the first being    *)
(* the more significant, where all controls are 1: for every order of the  *)
(* targets and all controls below, between and above them.                 *)
(***************************************************************************)
THEOREM GateIsOperator ==
    ASSUME strategy \in Strategies, NEW r \in Request, Accepted(r)
    PROVE  Matrix(Gate(r)) = Algebra!Operator(r)
<1> DEFINE f == Algebra!Operator(r)
           edge == Gate(r)
<1>1. edge \in Edge(M)
  <2> DEFINE nodes == Nodes(M, 0)
  <2>1. M \in {V, M} /\ NumQubits \in Nat
    BY QubitsAssumption
  <2>2. Family(M, "Any", nodes) /\ Makes("Any") /\ Edge(M) = EdgesTo(nodes[NumQubits])
    BY <2>1, LevFacts DEF Edge
  <2> HIDE DEF nodes
  <2> QED BY <2>2, GateEdges
<1>2. Len(r.targets) = 1 \/ Len(r.targets) = 2
  BY RequestAssumption
<1>3. \A i \in Positions, j \in Positions : f[i][j] = Read(M, edge, i - 1, j - 1, NumQubits)
  <2>1. CASE Len(r.targets) = 1
    BY <2>1, SingleTargetOperator
  <2>2. CASE Len(r.targets) = 2
    BY <2>2, TwoTargetOperator
  <2> QED BY <1>2, <2>1, <2>2
<1>4. f = [i \in Positions |-> [j \in Positions |-> f[i][j]]]
  BY AlgebraIndices DEF Algebra!Operator
<1> HIDE DEF f, edge
<1>5. Matrix(edge) = f
  BY <1>1, <1>3, <1>4, MatrixEquals
<1> QED BY <1>5 DEF edge, f

\* The entries of a projector.
LEMMA ProjectorEntry ==
    ASSUME NEW outcome \in BOOLEAN, NEW i \in Nat, NEW j \in Nat, NEW t \in Nat,
           NEW bit, bit = IF outcome THEN 1 ELSE 0, NEW c, c = Corner(i, j, t)
    PROVE  /\ Projector(outcome) \in [1..4 -> Weight]
           /\ Projector(outcome)[c] = IF Bit(i, t) = bit /\ Bit(j, t) = bit THEN One ELSE Zero
<1>1. Zero \in Weight /\ One \in Weight
  BY ConstantWeights
<1> DEFINE p == Projector(outcome)
           BI == Bit(i, t)
           BJ == Bit(j, t)
<1>2. BI \in {0, 1} /\ BJ \in {0, 1} /\ c = 2 * BI + BJ + 1
  BY BitType DEF Corner
<1>3. p[1] = (IF outcome THEN Zero ELSE One) /\ p[2] = Zero /\ p[3] = Zero /\ p[4] = (IF outcome THEN One ELSE Zero)
      /\ p \in [1..4 -> Weight]
  <2>1. CASE outcome = TRUE
    <3>1. p = <<Zero, Zero, Zero, One>>
      BY <2>1 DEF Projector
    <3> HIDE DEF p
    <3> QED BY <1>1, <2>1, <3>1
  <2>2. CASE outcome = FALSE
    <3>1. p = <<One, Zero, Zero, Zero>>
      BY <2>2 DEF Projector
    <3> HIDE DEF p
    <3> QED BY <1>1, <2>2, <3>1
  <2> QED BY <2>1, <2>2
<1> HIDE DEF p, BI, BJ
<1>4. p[c] = IF BI = bit /\ BJ = bit THEN One ELSE Zero
  <2>1. CASE BI = 0 /\ BJ = 0
    <3>1. c = 1
      BY <1>2, <2>1
    <3> QED BY <1>3, <2>1, <3>1
  <2>2. CASE BI = 1 /\ BJ = 1
    <3>1. c = 4
      BY <1>2, <2>2
    <3> QED BY <1>3, <2>2, <3>1
  <2>3. CASE BI # BJ
    <3>1. c = 2 \/ c = 3
      BY <1>2, <2>3
    <3>2. p[c] = Zero
      BY <1>3, <3>1
    <3> QED BY <2>3, <3>2
  <2> QED BY <1>2, <2>1, <2>2, <2>3
<1> QED BY <1>3, <1>4 DEF p, BI, BJ

\* What is read of the gate that projects.
LEMMA ReadProjector ==
    ASSUME strategy \in Strategies, NEW t \in Nat, t < NumQubits, NEW outcome \in BOOLEAN,
           NEW bit, bit = IF outcome THEN 1 ELSE 0,
           NEW i \in Nat, i < Pow2[NumQubits], NEW j \in Nat, j < Pow2[NumQubits]
    PROVE  /\ makeSingleQubitGateDD(t, Projector(outcome)) \in Lev(M, NumQubits)
           /\ Read(M, makeSingleQubitGateDD(t, Projector(outcome)), i, j, NumQubits)
                 = IF i = j /\ Bit(i, t) = bit THEN One ELSE Zero
<1> DEFINE matrix == Projector(outcome)
           cs == <<>>
           c == Corner(i, j, t)
           f == matrix[c]
           gate == makeControlledSingleQubitGateDD(cs, t, matrix)
           e == Read(M, gate, i, j, NumQubits)
           inner == WrappedEntry(f, OnDiagonal(c, {1, 4}), cs, i, j, 0, t)
<1>1. matrix \in [1..4 -> Weight] /\ f = IF Bit(i, t) = bit /\ Bit(j, t) = bit THEN One ELSE Zero
  <2>1. c = Corner(i, j, t)
    OBVIOUS
  <2> HIDE DEF c
  <2> QED BY <2>1, ProjectorEntry
<1>2. makeSingleQubitGateDD(t, Projector(outcome)) = gate
  BY DEF makeSingleQubitGateDD
<1>3. Range(cs) = {}
  BY DEF Range
<1>4. c = Corner(i, j, t) /\ f = matrix[c]
  OBVIOUS
<1> HIDE DEF matrix, cs, c, f
<1>5. gate \in Lev(M, NumQubits)
  BY <1>1, <1>4, ReadSingleQubitGate
<1>6. e = WrappedEntry(inner, Read(M, identity, i, j, t + 1), cs, i, j, t + 1, NumQubits)
  <2>1. e = WrappedEntry(WrappedEntry(matrix[c], OnDiagonal(c, {1, 4}), cs, i, j, 0, t),
                         Read(M, identity, i, j, t + 1), cs, i, j, t + 1, NumQubits)
    BY <1>1, <1>4, ReadSingleQubitGate
  <2> QED BY <1>4, <2>1
<1>7. t \notin Range(cs)
  BY <1>3
<1> HIDE DEF e, inner
<1>8. e = IF Differ(i, j, 0, t) \/ Differ(i, j, t + 1, NumQubits) THEN Zero
          ELSE IF Fire(cs, i, 0, NumQubits) THEN f ELSE IF i = j THEN One ELSE Zero
  BY <1>4, <1>6, <1>7, WrappedAround DEF inner
<1>9. Fire(cs, i, 0, NumQubits)
  BY <1>3 DEF Fire
<1>10. i = j <=> ~Differ(i, j, 0, t) /\ Bit(i, t) = Bit(j, t) /\ ~Differ(i, j, t + 1, NumQubits)
  <2> DEFINE lo == 0
  <2>1. lo \in Nat /\ lo <= t /\ NumQubits \in Nat
    BY QubitsAssumption
  <2>2. Differ(i, j, 0, NumQubits) <=> i # j
    BY <2>1, DifferingIndices
  <2> HIDE DEF lo
  <2>3. Differ(i, j, lo, NumQubits) <=> Differ(i, j, lo, t) \/ Bit(i, t) # Bit(j, t) \/ Differ(i, j, t + 1, NumQubits)
    BY <2>1, SplitBits
  <2> QED BY <2>2, <2>3 DEF lo
<1>11. e = IF i = j /\ Bit(i, t) = bit THEN One ELSE Zero
  <2>1. CASE Differ(i, j, 0, t) \/ Differ(i, j, t + 1, NumQubits)
    BY <1>8, <1>10, <2>1
  <2>2. CASE ~(Differ(i, j, 0, t) \/ Differ(i, j, t + 1, NumQubits))
    <3>1. e = f
      BY <1>8, <1>9, <2>2
    <3>2. i = j <=> Bit(i, t) = Bit(j, t)
      BY <1>10, <2>2
    <3> QED BY <1>1, <3>1, <3>2
  <2> QED BY <2>1, <2>2
<1> QED BY <1>2, <1>5, <1>11 DEF e

(***************************************************************************)
(* measureOneQubit leaves the amplitudes of the outcome as they are, and 0 *)
(* elsewhere.                                                              *)
(***************************************************************************)
THEOREM MeasureIsProjection ==
    ASSUME strategy \in Strategies, NEW e \in Edge(V), NEW qubit \in 0..NumQubits - 1, NEW outcome \in BOOLEAN
    PROVE  Vector(measureOneQubit(e, qubit, outcome).state)
              = Algebra!Projection(Vector(e), qubit, IF outcome THEN 1 ELSE 0)
<1> DEFINE bit == IF outcome THEN 1 ELSE 0
           g == makeSingleQubitGateDD(qubit, Projector(outcome))
           s == multiply(V, g, e)
           p == Algebra!Projection(Vector(e), qubit, bit)
           n == NumQubits
<1>1. measureOneQubit(e, qubit, outcome).state = s
  BY DEF measureOneQubit, Measured
<1>2. /\ V \in {V, M} /\ M \in {V, M} /\ n \in Nat /\ n <= n /\ 0 \in Nat
      /\ Edge(V) = Lev(V, n)
  BY EdgeLev
<1>3. qubit \in Nat /\ qubit < n /\ Pow2[n] \in Nat
  BY AlgebraIndices
<1>4. /\ g \in Lev(M, n)
      /\ \A i \in Nat, j \in Nat : i < Pow2[n] /\ j < Pow2[n] =>
            Read(M, g, i, j, n) = IF i = j /\ Bit(i, qubit) = bit THEN One ELSE Zero
  <2>1. \A i \in Nat, j \in Nat : i < Pow2[n] /\ j < Pow2[n] =>
            /\ g \in Lev(M, n)
            /\ Read(M, g, i, j, n) = IF i = j /\ Bit(i, qubit) = bit THEN One ELSE Zero
    <3> SUFFICES ASSUME NEW i \in Nat, NEW j \in Nat, i < Pow2[n], j < Pow2[n]
                 PROVE  /\ g \in Lev(M, n)
                        /\ Read(M, g, i, j, n) = IF i = j /\ Bit(i, qubit) = bit THEN One ELSE Zero
      OBVIOUS
    <3>1. bit = IF outcome THEN 1 ELSE 0
      OBVIOUS
    <3> HIDE DEF bit
    <3> QED BY <1>3, <3>1, ReadProjector
  <2>2. 0 \in Nat /\ 0 < Pow2[n]
    BY AlgebraIndices, <1>2, Pow2Def
  <2> HIDE DEF g, n, bit
  <2> QED BY <2>1, <2>2
<1> HIDE DEF g, bit
<1>5. s \in Edge(V)
  BY <1>2, <1>4, MultiplyLev
<1>6. ASSUME NEW i \in Positions PROVE p[i] = Read(V, s, i - 1, 0, n)
  <2> DEFINE k == i - 1
             f == Terms(V, g, e, k, 0, n)
             w == Read(V, e, k, 0, n)
  <2>1. k \in Nat /\ k < Pow2[n]
    BY AlgebraIndices
  <2>2. p[i] = IF Bit(k, qubit) = bit THEN w ELSE Zero
    <3>1. p[i] = IF Algebra!Bit(i, qubit) = bit THEN Vector(e)[i] ELSE Zero
      BY AlgebraIndices DEF Algebra!Projection
    <3>2. Algebra!Bit(i, qubit) = Bit(k, qubit)
      BY AlgebraIndices DEF Algebra!Bit, Bit
    <3>3. Vector(e)[i] = w
      BY <1>2, VectorEntry
    <3> HIDE DEF p, w, k
    <3> QED BY <3>1, <3>2, <3>3
  <2>3. w \in Weight
    BY <1>2, <2>1, ReadType
  <2> HIDE DEF k
  <2>4. f \in [Nat -> Weight] /\ \A q \in Nat : f[q] = Multiply(Read(M, g, k, q, n), Read(V, e, q, 0, n))
    BY <1>2, <1>4, <2>1, TermsType
  <2> HIDE DEF f
  <2>5. ASSUME NEW q \in Nat, q < Pow2[n], q # k PROVE f[q] = Zero
    <3>1. Read(M, g, k, q, n) = Zero
      BY <1>4, <2>1, <2>5
    <3>2. Read(V, e, q, 0, n) \in Weight
      BY <1>2, ReadType
    <3>3. f[q] = Multiply(Zero, Read(V, e, q, 0, n))
      BY <2>4, <3>1
    <3> QED BY <3>2, <3>3, WeightLaws
  <2>6. f[k] = IF Bit(k, qubit) = bit THEN w ELSE Zero
    <3>1. Read(M, g, k, k, n) = IF Bit(k, qubit) = bit THEN One ELSE Zero
      BY <1>4, <2>1
    <3>2. f[k] = Multiply(Read(M, g, k, k, n), w)
      BY <2>1, <2>4
    <3> HIDE DEF w
    <3>3. Multiply(One, w) = w /\ Multiply(Zero, w) = Zero
      BY <2>3, WeightLaws
    <3> QED BY <3>1, <3>2, <3>3
  <2> DEFINE total == Pow2[n]
  <2>7. Total(f)[total] = f[k]
    <3>1. total \in Nat /\ k < total
      BY <1>3, <2>1
    <3>2. \A q \in Nat : q < total /\ q # k => f[q] = Zero
      BY <2>5
    <3> HIDE DEF total
    <3> QED BY <2>1, <2>4, <3>1, <3>2, TotalSingle
  <2>8. Read(V, s, k, 0, n) = Total(f)[total]
    <3>1. Read(V, s, k, 0, n) = RowTimes(V, g, e, k, 0, n)
      BY <1>2, <1>4, <2>1, ReadMultiply
    <3> QED BY <3>1 DEF RowTimes, f
  <2> HIDE DEF w
  <2> QED BY <2>2, <2>6, <2>7, <2>8 DEF k
<1>7. p = [i \in Positions |-> p[i]]
  BY AlgebraIndices DEF Algebra!Projection
<1> HIDE DEF p, s
<1>8. Vector(s) = p
  BY <1>5, <1>6, <1>7, VectorEquals
<1> QED BY <1>1, <1>8 DEF p, bit

\* The block of 2^l indices that i is in.
Upper(i, l) == i \div Pow2[l]

\* The block of an index lies in the register.
LEMMA UpperBlock ==
    ASSUME NEW i \in Nat, i < Pow2[NumQubits], NEW l \in Nat, l <= NumQubits
    PROVE  Upper(i, l) \in Nat /\ (Upper(i, l) + 1) * Pow2[l] <= Pow2[NumQubits]
<1> DEFINE c == NumQubits - l
           q == Upper(i, l)
           P == Pow2[l]
           Q == Pow2[c]
<1>1. c \in Nat /\ l + c = NumQubits
  BY QubitsAssumption
<1> HIDE DEF c
<1>2. Pow2[NumQubits] = P * Q /\ P \in Nat /\ Q \in Nat
  <2>1. Pow2[l + c] = P * Q
    BY <1>1, Pow2Sum
  <2> QED BY <1>1, <2>1, Pow2Def
<1>3. q \in Nat /\ q < Q
  <2>1. i < Pow2[l + c]
    BY <1>1
  <2>2. q \in Nat /\ \A d \in Nat : i < Pow2[l + d] => q < Pow2[d]
    BY HalvesOf DEF Upper
  <2> QED BY <1>1, <2>1, <2>2
<1> HIDE DEF P, Q, q
<1>4. (q + 1) * P <= P * Q
  <2>1. q + 1 \in Nat /\ q + 1 <= Q
    BY <1>2, <1>3
  <2> DEFINE r == q + 1
  <2> HIDE DEF r
  <2>2. r \in Nat /\ r <= Q
    BY <2>1 DEF r
  <2>3. r * P <= Q * P
    BY <1>2, <2>2
  <2> QED BY <1>2, <2>3 DEF r
<1> QED BY <1>2, <1>3, <1>4 DEF P, q

\* It is the half of a larger block that the bit of i says.
LEMMA UpperStep ==
    ASSUME NEW i \in Nat, NEW l \in Nat, NEW l1 \in Nat, l1 = l + 1
    PROVE  Upper(i, l) = 2 * Upper(i, l1) + Bit(i, l) /\ Upper(i, 0) = i /\ Upper(i, l1) \in Nat
<1> DEFINE P == Pow2[l]
           h == Upper(i, l)
           g == Upper(i, l1)
           b == Bit(i, l)
           r == i % P
<1>1. Pow2[l1] = 2 * P /\ P \in Nat \ {0}
  <2>1. l1 # 0 /\ l1 - 1 = l
    OBVIOUS
  <2> QED BY <2>1, Pow2Def
<1>2. h \in Nat /\ r \in Nat /\ r < P /\ i = h * P + r /\ g \in Nat
  BY HalvesOf DEF Upper
<1>3. b = h % 2 /\ b \in {0, 1}
  BY BitType DEF Bit, Upper
<1>4. g = i \div (2 * P)
  BY <1>1 DEF Upper
<1> DEFINE s == h \div 2
<1>5. s \in Int /\ h = 2 * s + b
  BY <1>2, <1>3
<1> HIDE DEF P, h, g, b, r, s
<1>6. i = (2 * P) * s + (b * P + r) /\ 0 <= b * P + r /\ b * P + r < 2 * P /\ 2 * P \in Nat \ {0} /\ b * P + r \in Int
  <2>1. h * P = (2 * s + b) * P
    BY <1>5
  <2>2. (2 * s + b) * P = (2 * P) * s + b * P
    BY <1>1, <1>3, <1>5
  <2>3. b * P = 0 \/ b * P = P
    BY <1>1, <1>3
  <2>4. (2 * P) * s \in Int
    BY <1>1, <1>5
  <2> QED BY <1>1, <1>2, <2>1, <2>2, <2>3, <2>4
<1>7. i \div (2 * P) = s
  <2> DEFINE W == 2 * P
             t == b * P + r
  <2>1. W \in Nat \ {0} /\ t \in Int /\ 0 <= t /\ t < W /\ i = W * s + t
    BY <1>6
  <2> HIDE DEF W, t
  <2>2. (W * s + t) \div W = s
    BY <1>5, <2>1, DivisionUnique
  <2> QED BY <2>1, <2>2 DEF W
<1>8. Upper(i, 0) = i
  <2>1. i = (i \div Pow2[0]) * Pow2[0] + (i % Pow2[0]) /\ i % Pow2[0] \in Nat /\ i % Pow2[0] < Pow2[0] /\ i \div Pow2[0] \in Nat
    BY HalvesOf
  <2>2. Pow2[0] = 1
    BY Pow2Def
  <2> QED BY <2>1, <2>2 DEF Upper
<1> QED BY <1>2, <1>4, <1>5, <1>7, <1>8 DEF h, g, b

\* What is read of the diagram of a block is the amplitude it was made from.
LEMMA ReadGiven ==
    ASSUME strategy \in Strategies, NEW amps \in [1..Pow2[NumQubits] -> Weight],
           NEW i \in Nat, i < Pow2[NumQubits]
    PROVE  Read(V, makeStateFromVector(amps), i, 0, NumQubits) = amps[i + 1]
<1> DEFINE rec == makeStateFromVectorRec(amps)
           S == {l \in Nat : l <= NumQubits => Read(V, rec[<<Upper(i, l), l>>], i, 0, l) = amps[i + 1]}
           nodes == Nodes(V, 0)
<1>1. V \in {V, M} /\ V = 2 /\ 0 \in Nat /\ NumQubits \in Nat
  BY LevFacts, QubitsAssumption
<1>2. \A l \in 0..NumQubits, j \in Nat : (j + 1) * Pow2[l] <= Pow2[NumQubits] => rec[<<j, l>>] \in Lev(V, l)
  <2>1. Family(V, "Any", nodes) /\ Makes("Any") /\ \A l \in Nat : Lev(V, l) = EdgesTo(nodes[l])
    BY <1>1, LevFacts DEF Lev
  <2> HIDE DEF nodes
  <2>2. \A l \in 0..NumQubits : \A j \in Nat : (j + 1) * Pow2[l] <= Pow2[NumQubits] => rec[<<j, l>>] \in EdgesTo(nodes[l])
    BY <2>1, VectorEdges
  <2> QED BY <2>1, <2>2
<1>3. \A l \in Nat : l <= NumQubits => /\ Upper(i, l) \in Nat /\ (Upper(i, l) + 1) * Pow2[l] <= Pow2[NumQubits]
                                       /\ rec[<<Upper(i, l), l>>] = vectorStep(amps, rec, Upper(i, l), l)
  <2> SUFFICES ASSUME NEW l \in Nat, l <= NumQubits
               PROVE  /\ Upper(i, l) \in Nat /\ (Upper(i, l) + 1) * Pow2[l] <= Pow2[NumQubits]
                      /\ rec[<<Upper(i, l), l>>] = vectorStep(amps, rec, Upper(i, l), l)
    OBVIOUS
  <2> DEFINE j == Upper(i, l)
  <2>1. j \in Nat /\ (j + 1) * Pow2[l] <= Pow2[NumQubits] /\ l \in 0..NumQubits
    BY <1>1, UpperBlock
  <2> HIDE DEF j
  <2>2. rec[<<j, l>>] = vectorStep(amps, rec, j, l)
    BY <2>1, VectorEquation
  <2> QED BY <2>1, <2>2 DEF j
<1> HIDE DEF rec, nodes
<1>4. 0 \in S
  <2>1. Upper(i, 0) = i
    BY UpperStep
  <2>2. rec[<<Upper(i, 0), 0>>] = terminal(amps[i + 1])
    <3>1. rec[<<Upper(i, 0), 0>>] = vectorStep(amps, rec, Upper(i, 0), 0)
      BY <1>1, <1>3
    <3>2. vectorStep(amps, rec, Upper(i, 0), 0) = terminal(amps[Upper(i, 0) + 1])
      BY DEF vectorStep
    <3> QED BY <2>1, <3>1, <3>2
  <2>3. amps[i + 1] \in Weight
    <3>1. i + 1 \in 1..Pow2[NumQubits]
      BY <1>1, Pow2Def
    <3> QED BY <3>1
  <2>4. Read(V, terminal(amps[i + 1]), i, 0, 0) = terminal(amps[i + 1]).w
    <3> DEFINE e == terminal(amps[i + 1])
    <3>1. e \in Lev(V, 0) /\ 0 <= NumQubits
      BY <1>1, <2>3, LevFacts
    <3> HIDE DEF e
    <3>2. Read(V, e, i, 0, 0) = e.w
      BY <1>1, <3>1, ReadType
    <3> QED BY <3>2 DEF e
  <2> QED BY <2>2, <2>4 DEF terminal
<1>5. ASSUME NEW l \in Nat, l \in S PROVE l + 1 \in S
  <2> SUFFICES ASSUME l + 1 <= NumQubits PROVE Read(V, rec[<<Upper(i, l + 1), l + 1>>], i, 0, l + 1) = amps[i + 1]
    OBVIOUS
  <2> DEFINE j == Upper(i, l + 1)
             l1 == l + 1
             cs == <<rec[<<2 * j, l>>], rec[<<2 * j + 1, l>>]>>
             d == Digit(V, i, 0, l)
  <2>1. l1 \in Nat /\ l1 = l + 1 /\ l1 <= NumQubits /\ l < NumQubits /\ l <= NumQubits /\ l1 - 1 = l /\ l1 # 0
    BY <1>1
  <2>2. Upper(i, l) = 2 * j + Bit(i, l) /\ j \in Nat
    BY <2>1, UpperStep
  <2>3. rec[<<j, l1>>] = makeEdge(V, l, cs)
    <3>1. rec[<<j, l1>>] = vectorStep(amps, rec, j, l1)
      BY <1>3, <2>1
    <3> HIDE DEF j
    <3> QED BY <2>1, <3>1 DEF vectorStep, makeVEdge
  <2>4. (j + 1) * Pow2[l1] <= Pow2[NumQubits]
    BY <1>3, <2>1
  <2>5. d = Bit(i, l) + 1 /\ Bit(i, l) \in {0, 1}
    BY <1>1, BitType DEF Digit
  <2> HIDE DEF j, l1
  <2>6. \A b \in {0, 1} : rec[<<2 * j + b, l>>] \in Lev(V, l)
    <3> SUFFICES ASSUME NEW b \in {0, 1} PROVE rec[<<2 * j + b, l>>] \in Lev(V, l)
      OBVIOUS
    <3>1. 2 * j + b \in Nat /\ (2 * j + b + 1) * Pow2[l1 - 1] <= Pow2[NumQubits]
      BY <2>1, <2>2, <2>4, HalfBlocks
    <3>2. l \in 0..NumQubits
      BY <1>1, <2>1
    <3> QED BY <1>2, <2>1, <3>1, <3>2
  <2>7. cs[1] = rec[<<2 * j + 0, l>>] /\ cs[2] = rec[<<2 * j + 1, l>>]
    BY <2>2
  <2> HIDE DEF cs, d
  <2>8. \A q \in 1..V : cs[q] \in Lev(V, l)
    <3>1. \A q \in 1..V : q = 1 \/ q = 2
      BY <1>1
    <3> QED BY <2>6, <2>7, <3>1
  <2>9. Read(V, makeEdge(V, l, cs), i, 0, l + 1) = Read(V, cs[d], i, 0, l)
    BY <1>1, <2>1, <2>8, ReadMadeOf DEF d
  <2>10. cs[d] = rec[<<Upper(i, l), l>>]
    <3>1. CASE Bit(i, l) = 0
      BY <2>2, <2>5, <2>7, <3>1
    <3>2. CASE Bit(i, l) = 1
      BY <2>2, <2>5, <2>7, <3>2
    <3> QED BY <2>5, <3>1, <3>2
  <2>11. Read(V, rec[<<Upper(i, l), l>>], i, 0, l) = amps[i + 1]
    BY <1>5, <2>1
  <2> QED BY <2>1, <2>3, <2>9, <2>10, <2>11 DEF j
<1>6. Nat \subseteq S
  <2> HIDE DEF S
  <2>1. \A n \in Nat : n \in S => n + 1 \in S
    BY <1>5
  <2> QED BY <1>4, <2>1, TotalInduction
<1>7. Read(V, rec[<<Upper(i, NumQubits), NumQubits>>], i, 0, NumQubits) = amps[i + 1]
  BY <1>1, <1>6
<1>8. Upper(i, NumQubits) = 0
  <2>1. NumQubits + 0 = NumQubits /\ Pow2[0] = 1 /\ i < Pow2[NumQubits + 0]
    BY <1>1, Pow2Def
  <2>2. Upper(i, NumQubits) \in Nat /\ \A d \in Nat : i < Pow2[NumQubits + d] => Upper(i, NumQubits) < Pow2[d]
    BY <1>1, HalvesOf DEF Upper
  <2> QED BY <2>1, <2>2
<1> QED BY <1>7, <1>8 DEF makeStateFromVector, rec

\* What is read of the diagram of a block is the entry it was made from.
LEMMA ReadGivenMatrix ==
    ASSUME strategy \in Strategies, NEW matrix \in SquareMatrix,
           NEW i \in Nat, i < Pow2[NumQubits], NEW j \in Nat, j < Pow2[NumQubits]
    PROVE  Read(M, makeDDFromMatrix(matrix), i, j, NumQubits) = matrix[i + 1][j + 1]
<1> DEFINE rec == makeDDFromMatrixRec(matrix)
           At(l) == rec[<<Upper(i, l), Upper(j, l), l>>]
           S == {l \in Nat : l <= NumQubits => Read(M, At(l), i, j, l) = matrix[i + 1][j + 1]}
           nodes == Nodes(M, 0)
<1>1. M \in {V, M} /\ M = 4 /\ M # V /\ 0 \in Nat /\ NumQubits \in Nat
  BY LevFacts, QubitsAssumption
<1>2. \A l \in 0..NumQubits, s \in Nat, t \in Nat :
         (s + 1) * Pow2[l] <= Pow2[NumQubits] /\ (t + 1) * Pow2[l] <= Pow2[NumQubits] => rec[<<s, t, l>>] \in Lev(M, l)
  <2>1. Family(M, "Any", nodes) /\ Makes("Any") /\ \A l \in Nat : Lev(M, l) = EdgesTo(nodes[l])
    BY <1>1, LevFacts DEF Lev
  <2> HIDE DEF nodes
  <2>2. \A l \in 0..NumQubits : \A s \in Nat, t \in Nat :
           (s + 1) * Pow2[l] <= Pow2[NumQubits] /\ (t + 1) * Pow2[l] <= Pow2[NumQubits] =>
               rec[<<s, t, l>>] \in EdgesTo(nodes[l])
    BY <2>1, MatrixEdges
  <2> QED BY <2>1, <2>2
<1>3. \A l \in Nat : l <= NumQubits => /\ Upper(i, l) \in Nat /\ (Upper(i, l) + 1) * Pow2[l] <= Pow2[NumQubits]
                                       /\ Upper(j, l) \in Nat /\ (Upper(j, l) + 1) * Pow2[l] <= Pow2[NumQubits]
                                       /\ At(l) = matrixStep(matrix, rec, Upper(i, l), Upper(j, l), l)
  <2> SUFFICES ASSUME NEW l \in Nat, l <= NumQubits
               PROVE  /\ Upper(i, l) \in Nat /\ (Upper(i, l) + 1) * Pow2[l] <= Pow2[NumQubits]
                      /\ Upper(j, l) \in Nat /\ (Upper(j, l) + 1) * Pow2[l] <= Pow2[NumQubits]
                      /\ At(l) = matrixStep(matrix, rec, Upper(i, l), Upper(j, l), l)
    OBVIOUS
  <2> DEFINE s == Upper(i, l)
             t == Upper(j, l)
  <2>1. /\ s \in Nat /\ (s + 1) * Pow2[l] <= Pow2[NumQubits] /\ l \in 0..NumQubits
        /\ t \in Nat /\ (t + 1) * Pow2[l] <= Pow2[NumQubits]
    BY <1>1, UpperBlock
  <2> HIDE DEF s, t
  <2>2. rec[<<s, t, l>>] = matrixStep(matrix, rec, s, t, l)
    BY <2>1, MatrixEquation
  <2> QED BY <2>1, <2>2 DEF s, t
<1> HIDE DEF rec, nodes
<1>4. 0 \in S
  <2> DEFINE w == matrix[i + 1][j + 1]
             e == terminal(w)
  <2>1. Upper(i, 0) = i /\ Upper(j, 0) = j
    BY UpperStep
  <2>2. At(0) = e
    <3>1. At(0) = matrixStep(matrix, rec, Upper(i, 0), Upper(j, 0), 0)
      BY <1>1, <1>3
    <3>2. matrixStep(matrix, rec, Upper(i, 0), Upper(j, 0), 0) = terminal(matrix[Upper(i, 0) + 1][Upper(j, 0) + 1])
      BY DEF matrixStep
    <3> QED BY <2>1, <3>1, <3>2
  <2>3. w \in Weight
    <3>1. i + 1 \in 1..Pow2[NumQubits] /\ j + 1 \in 1..Pow2[NumQubits]
      BY <1>1, Pow2Def
    <3> QED BY <3>1 DEF SquareMatrix
  <2>4. Read(M, e, i, j, 0) = w
    <3>1. e \in Lev(M, 0) /\ 0 <= NumQubits
      BY <1>1, <2>3, LevFacts
    <3>2. e.w = w
      BY DEF terminal
    <3> HIDE DEF e, w
    <3>3. Read(M, e, i, j, 0) = e.w
      BY <1>1, <3>1, ReadType
    <3> QED BY <3>2, <3>3
  <2> HIDE DEF e, At
  <2> QED BY <2>2, <2>4
<1>5. ASSUME NEW l \in Nat, l \in S PROVE l + 1 \in S
  <2> SUFFICES ASSUME l + 1 <= NumQubits PROVE Read(M, At(l + 1), i, j, l + 1) = matrix[i + 1][j + 1]
    OBVIOUS
  <2> DEFINE s == Upper(i, l + 1)
             t == Upper(j, l + 1)
             l1 == l + 1
             cs == [q \in 1..M |-> rec[<<2 * s + Row(q), 2 * t + Col(q), l1 - 1>>]]
             d == Digit(M, i, j, l)
  <2>1. l1 \in Nat /\ l1 = l + 1 /\ l1 <= NumQubits /\ l < NumQubits /\ l <= NumQubits /\ l1 - 1 = l /\ l1 # 0
        /\ l1 \in Nat \ {0}
    BY <1>1
  <2>2. Upper(i, l) = 2 * s + Bit(i, l) /\ s \in Nat /\ Upper(j, l) = 2 * t + Bit(j, l) /\ t \in Nat
    BY <2>1, UpperStep
  <2>3. At(l1) = makeEdge(M, l, cs)
    <3>1. At(l1) = matrixStep(matrix, rec, s, t, l1)
      BY <1>3, <2>1
    <3> HIDE DEF s, t, At
    <3>2. matrixStep(matrix, rec, s, t, l1) = makeMEdge(l1 - 1, cs)
      BY <2>1 DEF matrixStep
    <3> HIDE DEF cs, l1
    <3> QED BY <2>1, <3>1, <3>2 DEF makeMEdge
  <2>4. (s + 1) * Pow2[l1] <= Pow2[NumQubits] /\ (t + 1) * Pow2[l1] <= Pow2[NumQubits]
    BY <1>3, <2>1
  <2>5. d \in 1..4 /\ Row(d) = Bit(i, l) /\ Col(d) = Bit(j, l)
    <3>1. d = Corner(i, j, l)
      BY <1>1 DEF Digit
    <3> HIDE DEF d
    <3> QED BY <3>1, DiagonalCorner
  <2> HIDE DEF s, t, l1, d, At
  <2>6. \A q \in 1..M : cs[q] = rec[<<2 * s + Row(q), 2 * t + Col(q), l>>]
    BY <2>1
  <2>7. \A q \in 1..M : cs[q] \in Lev(M, l)
    <3> SUFFICES ASSUME NEW q \in 1..M PROVE rec[<<2 * s + Row(q), 2 * t + Col(q), l>>] \in Lev(M, l)
      BY <2>6
    <3>1. /\ 2 * s + Row(q) \in Nat /\ (2 * s + Row(q) + 1) * Pow2[l1 - 1] <= Pow2[NumQubits]
          /\ 2 * t + Col(q) \in Nat /\ (2 * t + Col(q) + 1) * Pow2[l1 - 1] <= Pow2[NumQubits]
      BY <2>1, <2>2, <2>4, QuarterBlocks
    <3>2. l \in 0..NumQubits
      BY <1>1, <2>1
    <3> QED BY <1>2, <2>1, <3>1, <3>2
  <2> HIDE DEF cs
  <2>8. Read(M, makeEdge(M, l, cs), i, j, l + 1) = Read(M, cs[d], i, j, l)
    BY <1>1, <2>1, <2>7, ReadMadeOf DEF d
  <2>9. cs[d] = At(l)
    <3>1. cs[d] = rec[<<2 * s + Bit(i, l), 2 * t + Bit(j, l), l>>]
      BY <1>1, <2>5, <2>6
    <3> QED BY <2>2, <3>1 DEF At
  <2>10. Read(M, At(l), i, j, l) = matrix[i + 1][j + 1]
    BY <1>5, <2>1
  <2> QED BY <2>1, <2>3, <2>8, <2>9, <2>10 DEF l1
<1>6. Nat \subseteq S
  <2> HIDE DEF S
  <2>1. \A n \in Nat : n \in S => n + 1 \in S
    BY <1>5
  <2> QED BY <1>4, <2>1, TotalInduction
<1>7. Read(M, At(NumQubits), i, j, NumQubits) = matrix[i + 1][j + 1]
  BY <1>1, <1>6
<1>8. ASSUME NEW k \in Nat, k < Pow2[NumQubits] PROVE Upper(k, NumQubits) = 0
  <2>1. NumQubits + 0 = NumQubits /\ Pow2[0] = 1 /\ k < Pow2[NumQubits + 0]
    BY <1>1, <1>8, Pow2Def
  <2>2. Upper(k, NumQubits) \in Nat /\ \A d \in Nat : k < Pow2[NumQubits + d] => Upper(k, NumQubits) < Pow2[d]
    BY <1>1, HalvesOf DEF Upper
  <2> QED BY <2>1, <2>2
<1> QED BY <1>7, <1>8 DEF makeDDFromMatrix, rec

(***************************************************************************)
(* makeStateFromVector and makeDDFromMatrix build what they are given.     *)
(***************************************************************************)
THEOREM GivenVector ==
    ASSUME strategy \in Strategies, NEW amps \in [1..Pow2[NumQubits] -> Weight]
    PROVE  makeStateFromVector(amps) \in Edge(V) /\ Vector(makeStateFromVector(amps)) = amps
<1> DEFINE e == makeStateFromVector(amps)
<1>1. e \in Edge(V)
  <2> DEFINE nodes == Nodes(V, 0)
  <2>1. Family(V, "Any", nodes) /\ Makes("Any") /\ Edge(V) = EdgesTo(nodes[NumQubits])
    BY LevFacts, QubitsAssumption DEF Edge
  <2> HIDE DEF nodes
  <2> QED BY <2>1, VectorEdges
<1> HIDE DEF e
<1>2. \A i \in Positions : amps[i] = Read(V, e, i - 1, 0, NumQubits)
  <2> SUFFICES ASSUME NEW i \in Positions PROVE amps[i] = Read(V, e, i - 1, 0, NumQubits)
    OBVIOUS
  <2> DEFINE k == i - 1
  <2>1. k \in Nat /\ k < Pow2[NumQubits] /\ k + 1 = i
    BY AlgebraIndices
  <2> HIDE DEF k
  <2>2. Read(V, makeStateFromVector(amps), k, 0, NumQubits) = amps[k + 1]
    BY <2>1, ReadGiven
  <2> QED BY <2>1, <2>2 DEF k, e
<1>3. amps = [i \in Positions |-> amps[i]]
  BY DEF Positions
<1>4. Vector(e) = amps
  BY <1>1, <1>2, <1>3, VectorEquals
<1> QED BY <1>1, <1>4 DEF e

\* makeDDFromMatrix: the matrix of the edge it returns is the matrix it was given.
THEOREM GivenMatrix ==
    ASSUME strategy \in Strategies, NEW matrix \in SquareMatrix
    PROVE  makeDDFromMatrix(matrix) \in Edge(M) /\ Matrix(makeDDFromMatrix(matrix)) = matrix
<1> DEFINE e == makeDDFromMatrix(matrix)
<1>1. e \in Edge(M)
  <2> DEFINE nodes == Nodes(M, 0)
  <2>1. Family(M, "Any", nodes) /\ Makes("Any") /\ Edge(M) = EdgesTo(nodes[NumQubits])
    BY LevFacts, QubitsAssumption DEF Edge
  <2> HIDE DEF nodes
  <2> QED BY <2>1, MatrixEdges
<1> HIDE DEF e
<1>2. \A i \in Positions, j \in Positions : matrix[i][j] = Read(M, e, i - 1, j - 1, NumQubits)
  <2> SUFFICES ASSUME NEW i \in Positions, NEW j \in Positions PROVE matrix[i][j] = Read(M, e, i - 1, j - 1, NumQubits)
    OBVIOUS
  <2> DEFINE k == i - 1
             l == j - 1
  <2>1. k \in Nat /\ k < Pow2[NumQubits] /\ k + 1 = i /\ l \in Nat /\ l < Pow2[NumQubits] /\ l + 1 = j
    BY AlgebraIndices
  <2> HIDE DEF k, l
  <2>2. Read(M, makeDDFromMatrix(matrix), k, l, NumQubits) = matrix[k + 1][l + 1]
    BY <2>1, ReadGivenMatrix
  <2> QED BY <2>1, <2>2 DEF k, l, e
<1>3. matrix = [i \in Positions |-> [j \in Positions |-> matrix[i][j]]]
  <2>1. matrix \in [Positions -> [Positions -> Weight]]
    BY DEF SquareMatrix, Positions
  <2>2. \A i \in Positions : matrix[i] = [j \in Positions |-> matrix[i][j]]
    BY <2>1
  <2>3. matrix = [i \in Positions |-> matrix[i]]
    BY <2>1
  <2>4. [i \in Positions |-> matrix[i]] = [i \in Positions |-> [j \in Positions |-> matrix[i][j]]]
    BY <2>2
  <2> QED BY <2>3, <2>4
<1>4. Matrix(e) = matrix
  BY <1>1, <1>2, <1>3, MatrixEquals
<1> QED BY <1>1, <1>4 DEF e

\* The amplitudes of |0> and |1> of some qubits.
Factored(f) == \A q \in DOMAIN f : f[q][1] \in Weight /\ f[q][2] \in Weight

\* An amplitude of a product state, multiplied from the lowest qubit up.
TimesFactor(f, k, p, l) == IF l \in DOMAIN f THEN Multiply(p, f[l][Bit(k, l) + 1]) ELSE p
FactorSteps(f, k, p) ==
    /\ p[0] = One
    /\ \A n \in 1..NumQubits : p[n] = TimesFactor(f, k, p[n - 1], n - 1)
    /\ \A n \in 0..NumQubits : p[n] \in Weight
ProductInSteps(f, i) ==
    \E p : FactorSteps(f, i - 1, p) /\ Algebra!ProductState(f)[i] = p[NumQubits]

\* A product of factors is a number.
LEMMA FactorType ==
    ASSUME NEW f, Factored(f), NEW k \in Nat, NEW p \in Weight, NEW l \in Nat
    PROVE  TimesFactor(f, k, p, l) \in Weight
<1>1. CASE l \in DOMAIN f
  <2> DEFINE b == Bit(k, l)
             w == f[l]
  <2>1. w[1] \in Weight /\ w[2] \in Weight
    BY <1>1 DEF Factored
  <2>2. b \in {0, 1}
    BY BitType
  <2>3. TimesFactor(f, k, p, l) = Multiply(p, w[b + 1])
    BY <1>1 DEF TimesFactor
  <2> HIDE DEF b, w
  <2>4. w[b + 1] \in Weight
    BY <2>1, <2>2
  <2> DEFINE c == w[b + 1]
  <2> HIDE DEF c
  <2>5. c \in Weight
    BY <2>4 DEF c
  <2>6. Multiply(p, c) \in Weight
    BY <2>5, WeightLaws
  <2> QED BY <2>3, <2>6 DEF c
<1>2. CASE l \notin DOMAIN f
  BY <1>2 DEF TimesFactor
<1> QED BY <1>1, <1>2

\* The amplitudes of the algebra's product states are made so.
LEMMA ProductSteps ==
    ASSUME NEW f, Factored(f), NEW i \in Positions
    PROVE  ProductInSteps(f, i)
<1> DEFINE hi == NumQubits
           k == i - 1
           Rhs(g) == [n \in 0..hi |-> IF n = 0 THEN One
                                      ELSE IF n - 1 \in DOMAIN f
                                         THEN Multiply(g[n - 1], f[n - 1][Algebra!Bit(i, n - 1) + 1])
                                      ELSE g[n - 1]]
           product == CHOOSE g : g = Rhs(g)
           Good == [n \in 0..hi |-> Weight]
           base == One
           step == [ns \in (0..hi) \X Weight |-> TimesFactor(f, k, ns[2], ns[1] - 1)]
<1>1. hi \in Nat /\ 0 \in Nat /\ 0 <= hi /\ k \in Nat /\ \A q : Algebra!Bit(i, q) = Bit(k, q)
  BY AlgebraIndices DEF Algebra!Bit, Bit
<1>2. Algebra!ProductState(f)[i] = product[hi]
  BY AlgebraIndices DEF Algebra!ProductState
<1>3. \A g : Rhs(g) = [n \in 0..hi |-> IF n = 0 THEN One ELSE TimesFactor(f, k, g[n - 1], n - 1)]
  BY <1>1 DEF TimesFactor
<1>4. \A n \in 0..hi : Good[n] = Weight /\ \A s \in Weight : step[<<n, s>>] = TimesFactor(f, k, s, n - 1)
  OBVIOUS
<1> HIDE DEF hi, k, Rhs, Good, step
<1>5. \A n \in 0..hi : n # 0 => n - 1 \in Nat /\ n - 1 \in 0..hi /\ n \in Nat
  BY <1>1
<1>6. \A n \in 0..hi : n # 0 => \A s \in Weight : TimesFactor(f, k, s, n - 1) \in Weight
  <2> SUFFICES ASSUME NEW n \in 0..hi, n # 0, NEW s \in Weight PROVE TimesFactor(f, k, s, n - 1) \in Weight
    OBVIOUS
  <2> DEFINE l == n - 1
  <2>1. l \in Nat
    BY <1>5
  <2> HIDE DEF l
  <2>2. TimesFactor(f, k, s, l) \in Weight
    BY <1>1, <2>1, FactorType
  <2> QED BY <2>2 DEF l
<1>7. One \in Weight
  BY ConstantWeights
<1>8. CountsUp(0, hi, Good, base, step)
  <2>1. base \in Good[0] /\ \A n \in 0..hi : n # 0 => \A s \in Good[n - 1] : step[<<n, s>>] \in Good[n]
    BY <1>1, <1>4, <1>5, <1>6, <1>7
  <2> QED BY <1>1, <2>1 DEF CountsUp
<1>9. PICK g : /\ g = [n \in 0..hi |-> g[n]]
               /\ \A n \in 0..hi : g[n] \in Good[n] /\ g[n] = IF n = 0 THEN base ELSE step[<<n, g[n - 1]>>]
  BY <1>8, CountUp
<1>10. \A n \in 0..hi : g[n] = IF n = 0 THEN One ELSE TimesFactor(f, k, g[n - 1], n - 1)
  BY <1>4, <1>5, <1>9
<1>11. g = Rhs(g)
  BY <1>3, <1>9, <1>10
<1>12. product = Rhs(product)
  BY <1>11
<1> HIDE DEF product
<1>13. \A n \in 0..hi : product[n] = IF n = 0 THEN One ELSE TimesFactor(f, k, product[n - 1], n - 1)
  BY <1>3, <1>12
<1> DEFINE S == {n \in 0..hi : product[n] \in Weight}
<1>14. 0 \in S /\ \A n \in 0..hi : n # 0 /\ n - 1 \in S => n \in S
  BY <1>1, <1>5, <1>6, <1>7, <1>13
<1>15. 0..hi \subseteq S
  <2> HIDE DEF S
  <2>1. 0 \in Nat /\ hi \in Nat /\ 0 <= hi /\ 0 \in S /\ \A n \in 0..hi : n # 0 /\ n - 1 \in S => n \in S
    BY <1>1, <1>14
  <2> QED BY <2>1, CountInduction
<1>16. FactorSteps(f, k, product)
  BY <1>1, <1>13, <1>15 DEF FactorSteps, hi
<1> QED BY <1>2, <1>16 DEF ProductInSteps, hi, k

\* Only the factors from lo to hi - 1 make a difference.
LEMMA OtherFactors ==
    ASSUME NEW f, NEW k, NEW p, FactorSteps(f, k, p), NEW lo \in Nat, NEW hi \in Nat, lo <= hi, hi <= NumQubits,
           DOMAIN f = lo..hi - 1
    PROVE  p[lo] = One /\ p[NumQubits] = p[hi]
<1> DEFINE S == {n \in 0..lo : p[n] = One}
           T == {n \in hi..NumQubits : p[n] = p[hi]}
<1>1. p[0] = One /\ \A n \in 1..NumQubits : n - 1 \notin lo..hi - 1 => p[n] = p[n - 1]
  BY DEF FactorSteps, TimesFactor
<1>2. NumQubits \in Nat /\ 0 \in Nat /\ 0 <= lo
  BY QubitsAssumption
<1>3. 0..lo \subseteq S
  <2>1. 0 \in S /\ \A n \in 0..lo : n # 0 /\ n - 1 \in S => n \in S
    <3> SUFFICES ASSUME NEW n \in 0..lo, n # 0, n - 1 \in S PROVE n \in S
      BY <1>1, <1>2
    <3>1. n \in 1..NumQubits /\ n - 1 \notin lo..hi - 1
      BY <1>2
    <3> QED BY <1>1, <3>1
  <2> HIDE DEF S
  <2> QED BY <1>2, <2>1, CountInduction
<1>4. hi..NumQubits \subseteq T
  <2>1. hi \in T /\ \A n \in hi..NumQubits : n # hi /\ n - 1 \in T => n \in T
    <3> SUFFICES ASSUME NEW n \in hi..NumQubits, n # hi, n - 1 \in T PROVE n \in T
      BY <1>2
    <3>1. n \in 1..NumQubits /\ n - 1 \notin lo..hi - 1
      BY <1>2
    <3> QED BY <1>1, <3>1
  <2> HIDE DEF T
  <2> QED BY <1>2, <2>1, CountInduction
<1> QED BY <1>2, <1>3, <1>4

\* One qubit more.
LEMMA ReadFactor ==
    ASSUME strategy \in Strategies, NEW l \in Nat, l < NumQubits, NEW e \in Lev(V, l), NEW w,
           w[1] \in Weight, w[2] \in Weight, NEW k \in Nat
    PROVE  /\ makeVEdge(l, Weighted(w, e)) \in Lev(V, l + 1)
           /\ Read(V, makeVEdge(l, Weighted(w, e)), k, 0, l + 1)
                 = Multiply(Read(V, e, k, 0, l), w[Bit(k, l) + 1])
<1> DEFINE cs == Weighted(w, e)
           d == Digit(V, k, 0, l)
<1>1. V \in {V, M} /\ V = 2 /\ l <= NumQubits /\ 0 \in Nat
  BY LevFacts, QubitsAssumption
<1>2. d = Bit(k, l) + 1 /\ d \in {1, 2}
  BY <1>1, BitType DEF Digit
<1>3. cs[1] = Rescaled(w[1], e) /\ cs[2] = Rescaled(w[2], e)
  BY DEF Weighted
<1> HIDE DEF cs, d
<1>4. w[d] \in Weight /\ cs[d] = Rescaled(w[d], e)
  BY <1>2, <1>3
<1>5. \A q \in 1..V : cs[q] \in LooseLev(V, l)
  <2>1. Rescaled(w[1], e) \in LooseLev(V, l)
    BY <1>1, ReadTerminated
  <2>2. Rescaled(w[2], e) \in LooseLev(V, l)
    BY <1>1, ReadTerminated
  <2> QED BY <1>1, <1>3, <2>1, <2>2
<1>6. /\ makeEdge(V, l, cs) \in Lev(V, l + 1)
      /\ Read(V, makeEdge(V, l, cs), k, 0, l + 1) = Read(V, ZeroTerminated(cs[d]), k, 0, l)
  BY <1>1, <1>5, ReadMade DEF d
<1> DEFINE c == w[d]
           r == Read(V, e, k, 0, l)
<1>7. c \in Weight /\ cs[d] = Rescaled(c, e)
  BY <1>4
<1> HIDE DEF c
<1>8. Read(V, ZeroTerminated(Rescaled(c, e)), k, 0, l) = Multiply(c, r)
  BY <1>1, <1>7, ReadTerminated
<1>9. r \in Weight
  BY <1>1, ReadType
<1> HIDE DEF r
<1>10. Multiply(c, r) = Multiply(r, c)
  BY <1>7, <1>9, WeightLaws
<1> QED BY <1>2, <1>6, <1>7, <1>8, <1>10 DEF makeVEdge, cs, c, r

\* The qubits from start on, in the states given.
BasisFactors(state, start) ==
    [q \in start..start + Len(state) - 1 |-> BasisWeights(state[q - start + 1])]

\* A basis state, read.
LEMMA ReadBasis ==
    ASSUME strategy \in Strategies, NEW state \in Seq(BasisState), NEW start \in Nat, NEW top \in Nat,
           top = start + Len(state), top <= NumQubits,
           NEW k \in Nat, NEW p, FactorSteps(BasisFactors(state, start), k, p)
    PROVE  /\ makeBasisState(state, start) \in Lev(V, top)
           /\ Read(V, makeBasisState(state, start), k, 0, top) = p[top]
<1> DEFINE hi == Len(state)
           f == BasisFactors(state, start)
           nodes == Nodes(V, 0)
<1>1. V \in {V, M} /\ V = 2 /\ 0 \in Nat /\ NumQubits \in Nat /\ hi \in Nat /\ \A n \in 1..hi : state[n] \in BasisState
  BY LevFacts, QubitsAssumption
<1>2. Family(V, "Any", nodes) /\ Makes("Any") /\ \A l \in Nat : Lev(V, l) = EdgesTo(nodes[l])
  BY <1>1, LevFacts DEF Lev
<1> HIDE DEF nodes
<1>3. BasisInSteps(nodes, state, start)
  BY <1>2, BasisSteps
<1>4. PICK upTo : /\ \A n \in 0..hi : upTo[n] = basisStep(state, start, upTo, n)
                  /\ \A n \in 0..hi : upTo[n] \in EdgesTo(nodes[start + n])
                  /\ makeBasisState(state, start) = upTo[hi]
  BY <1>3 DEF BasisInSteps
<1>5. \A n \in 0..hi : upTo[n] \in Lev(V, start + n)
  BY <1>1, <1>2, <1>4
<1>6. DOMAIN f = start..top - 1 /\ \A n \in 1..hi : f[start + n - 1] = BasisWeights(state[n])
  <2>1. DOMAIN f = start..top - 1
    BY DEF BasisFactors
  <2>2. ASSUME NEW n \in 1..hi PROVE f[start + n - 1] = BasisWeights(state[n])
    <3>1. start + n - 1 \in start..start + Len(state) - 1 /\ (start + n - 1) - start + 1 = n
      BY <1>1
    <3> QED BY <3>1 DEF BasisFactors
  <2> QED BY <2>1, <2>2
<1> HIDE DEF f
<1>7. p[start] = One
  <2>1. FactorSteps(f, k, p) /\ start <= top
    BY <1>1 DEF f
  <2> QED BY <1>6, <2>1, OtherFactors
<1> DEFINE S == {n \in 0..hi : Read(V, upTo[n], k, 0, start + n) = p[start + n]}
<1>8. 0 \in S
  <2>1. upTo[0] = identity /\ start + 0 = start /\ start <= NumQubits
    BY <1>1, <1>4 DEF basisStep
  <2>2. identity \in Lev(V, 0) /\ 0 <= NumQubits /\ 0 <= start
    BY <1>1, LevFacts
  <2>3. Read(V, identity, k, 0, 0) = identity.w
    BY <1>1, <2>2, ReadType
  <2>4. Read(V, identity, k, 0, start) = IF V = V \/ \A q \in 0..start - 1 : Bit(k, q) = Bit(0, q)
                                         THEN Read(V, identity, k, 0, 0) ELSE Zero
    BY <1>1, <2>1, <2>2, ReadUp
  <2>5. identity.w = One
    BY DEF identity, terminal
  <2> QED BY <1>1, <1>7, <2>1, <2>3, <2>4, <2>5
<1>9. ASSUME NEW n \in 0..hi, n # 0, n - 1 \in S PROVE n \in S
  <2> DEFINE l == start + n - 1
             w == BasisWeights(state[n])
             e == upTo[n - 1]
  <2>1. l \in Nat /\ l < NumQubits /\ l + 1 = start + n /\ l = start + (n - 1) /\ n \in 1..hi /\ n - 1 \in 0..hi
        /\ (start + n) - 1 = l /\ start + n \in 1..NumQubits
    BY <1>1, <1>9
  <2>2. e \in Lev(V, l) /\ Read(V, e, k, 0, l) = p[l]
    BY <1>5, <1>9, <2>1
  <2>3. w[1] \in Weight /\ w[2] \in Weight
    BY <1>1, <2>1, BasisWeightsType
  <2>4. upTo[n] = makeVEdge(l, Weighted(w, e))
    BY <1>4, <1>9 DEF basisStep
  <2>5. l \in DOMAIN f /\ f[l] = w
    BY <1>1, <1>6, <2>1
  <2>6. p[start + n] = TimesFactor(f, k, p[l], l)
    <3>1. \A s \in 1..NumQubits : p[s] = TimesFactor(f, k, p[s - 1], s - 1)
      BY DEF FactorSteps, f
    <3>2. p[start + n] = TimesFactor(f, k, p[start + n - 1], start + n - 1)
      BY <2>1, <3>1
    <3> QED BY <2>1, <3>2
  <2>7. TimesFactor(f, k, p[l], l) = Multiply(p[l], w[Bit(k, l) + 1])
    BY <2>5 DEF TimesFactor
  <2> HIDE DEF l, w, e
  <2>8. Read(V, makeVEdge(l, Weighted(w, e)), k, 0, l + 1) = Multiply(Read(V, e, k, 0, l), w[Bit(k, l) + 1])
    BY <2>1, <2>2, <2>3, ReadFactor
  <2> QED BY <1>9, <2>1, <2>2, <2>4, <2>6, <2>7, <2>8
<1>10. 0..hi \subseteq S
  <2> HIDE DEF S
  <2>1. 0 \in Nat /\ hi \in Nat /\ 0 <= hi /\ 0 \in S /\ \A n \in 0..hi : n # 0 /\ n - 1 \in S => n \in S
    BY <1>1, <1>8, <1>9
  <2> QED BY <2>1, CountInduction
<1>11. Read(V, upTo[hi], k, 0, start + hi) = p[start + hi] /\ upTo[hi] \in Lev(V, start + hi)
  <2>1. hi \in 0..hi
    BY <1>1
  <2> QED BY <1>5, <1>10, <2>1
<1> QED BY <1>4, <1>11


(***************************************************************************)
(* makeBasisState builds the product of the states of its qubits.          *)
(***************************************************************************)
THEOREM BasisIsProduct ==
    ASSUME strategy \in Strategies, NEW state \in Seq(BasisState), NEW start \in Nat,
           start + Len(state) <= NumQubits
    PROVE  /\ makeBasisState(state, start) \in Edge(V)
           /\ Vector(makeBasisState(state, start)) = Algebra!ProductState(BasisFactors(state, start))
<1> DEFINE f == BasisFactors(state, start)
           top == start + Len(state)
           e == makeBasisState(state, start)
           g == Algebra!ProductState(f)
<1>1. V \in {V, M} /\ 0 \in Nat /\ NumQubits \in Nat /\ top \in Nat /\ top <= NumQubits /\ start <= top
      /\ DOMAIN f = start..top - 1
  BY LevFacts, QubitsAssumption DEF BasisFactors
<1>2. Factored(f)
  <2>1. ASSUME NEW q \in DOMAIN f PROVE f[q][1] \in Weight /\ f[q][2] \in Weight
    <3>1. q - start + 1 \in 1..Len(state) /\ f[q] = BasisWeights(state[q - start + 1])
      BY <1>1, <2>1 DEF BasisFactors
    <3>2. state[q - start + 1] \in BasisState
      BY <3>1
    <3> QED BY <3>1, <3>2, BasisWeightsType
  <2> QED BY <2>1 DEF Factored
<1> HIDE DEF f, top
<1>3. ASSUME NEW k \in Nat, NEW p, FactorSteps(f, k, p)
      PROVE  e \in Lev(V, top) /\ Read(V, e, k, 0, NumQubits) = p[NumQubits]
  <2>1. FactorSteps(BasisFactors(state, start), k, p) /\ top = start + Len(state)
    BY <1>3 DEF f, top
  <2>2. e \in Lev(V, top) /\ Read(V, e, k, 0, top) = p[top]
    BY <1>1, <2>1, ReadBasis
  <2>3. p[NumQubits] = p[top]
    BY <1>1, <1>3, OtherFactors
  <2> HIDE DEF e
  <2>4. Read(V, e, k, 0, NumQubits) = IF V = V \/ \A q \in top..NumQubits - 1 : Bit(k, q) = Bit(0, q)
                                      THEN Read(V, e, k, 0, top) ELSE Zero
    BY <1>1, <2>2, ReadUp
  <2> QED BY <2>2, <2>3, <2>4
<1>4. e \in Edge(V)
  <2> DEFINE nodes == Nodes(V, 0)
  <2>1. Family(V, "Any", nodes) /\ Makes("Any") /\ \A l \in Nat : Lev(V, l) = EdgesTo(nodes[l])
    BY <1>1, LevFacts DEF Lev
  <2> HIDE DEF nodes
  <2>2. e \in Lev(V, top)
    BY <1>1, <2>1, BasisEdges DEF top
  <2> QED BY <1>1, <2>2, LevFacts
<1> HIDE DEF e
<1>5. \A i \in Positions : g[i] = Read(V, e, i - 1, 0, NumQubits)
  <2> SUFFICES ASSUME NEW i \in Positions PROVE g[i] = Read(V, e, i - 1, 0, NumQubits)
    OBVIOUS
  <2> DEFINE k == i - 1
  <2>1. k \in Nat
    BY AlgebraIndices
  <2>2. PICK p : FactorSteps(f, k, p) /\ g[i] = p[NumQubits]
    <3>1. ProductInSteps(f, i)
      BY <1>2, ProductSteps
    <3> QED BY <3>1 DEF ProductInSteps
  <2> HIDE DEF k, g
  <2>3. Read(V, e, k, 0, NumQubits) = p[NumQubits]
    BY <1>3, <2>1, <2>2
  <2> QED BY <2>2, <2>3 DEF k
<1>6. g = [i \in Positions |-> g[i]]
  BY AlgebraIndices DEF Algebra!ProductState
<1> HIDE DEF g
<1>7. Vector(e) = g
  BY <1>4, <1>5, <1>6, VectorEquals
<1> QED BY <1>4, <1>7 DEF e, g, f

\* Without controls nothing is wrapped.
LEMMA WrappedFree ==
    ASSUME strategy \in Strategies, NEW lo \in Nat, NEW hi \in Nat, lo <= hi, NEW len \in Nat,
           NEW blocks \in [1..len -> Lev(M, lo)], NEW diagonal, NEW none, none = <<>>
    PROVE  Wrapped(blocks, diagonal, none, lo, hi) = blocks
<1> DEFINE nodes == Nodes(M, 0)
<1>1. Family(M, "Any", nodes) /\ Makes("Any") /\ Lev(M, lo) = EdgesTo(nodes[lo])
  BY LevFacts DEF Lev
<1>2. Range(none) = {}
  BY DEF Range
<1> HIDE DEF nodes
<1>3. blocks \in [1..len -> EdgesTo(nodes[lo])]
  BY <1>1
<1>4. WrapsInSteps(nodes, len, blocks, diagonal, none, lo, hi)
  BY <1>1, <1>3, WrappedSteps
<1>5. PICK upTo : /\ upTo = [q \in lo..hi |-> wrapStep(blocks, diagonal, none, lo, upTo, q)]
                  /\ Wrapped(blocks, diagonal, none, lo, hi) = upTo[hi]
  BY <1>4 DEF WrapsInSteps
<1>6. \A q \in lo..hi : upTo[q] = IF q = lo THEN blocks ELSE upTo[q - 1]
  BY <1>2, <1>5 DEF wrapStep
<1> DEFINE S == {q \in lo..hi : upTo[q] = blocks}
<1>7. lo \in S /\ \A q \in lo..hi : q # lo /\ q - 1 \in S => q \in S
  BY <1>6
<1>8. lo..hi \subseteq S
  <2> HIDE DEF S
  <2> QED BY <1>7, CountInduction
<1> QED BY <1>5, <1>8

\* A gate on qubit 0.
LEMMA LowestGate ==
    ASSUME strategy \in Strategies, NumQubits > 0, NEW matrix \in [1..4 -> Weight], NEW zeroth, zeroth = 0,
           NEW i \in Nat, NEW j \in Nat
    PROVE  /\ makeSingleQubitGateDD(zeroth, matrix) \in Lev(M, 1)
           /\ Read(M, makeSingleQubitGateDD(zeroth, matrix), i, j, 1) = matrix[Corner(i, j, zeroth)]
<1> DEFINE none == <<>>
           diagonal == {1, 4}
           first == {1}
           blocks == Terminals(matrix)
           edge == makeMEdge(zeroth, blocks)
           len == 4
           len1 == 1
           l1 == zeroth + 1
           one == <<edge>>
           c == Corner(i, j, zeroth)
<1>1. len \in Nat /\ matrix \in [1..len -> Weight] /\ zeroth \in Nat /\ zeroth < NumQubits /\ zeroth <= zeroth
      /\ l1 \in Nat /\ l1 = 1 /\ l1 <= NumQubits /\ NumQubits \in Nat /\ len1 \in Nat
  BY QubitsAssumption
<1>2. makeSingleQubitGateDD(zeroth, matrix)
         = Wrapped(<<makeMEdge(zeroth, Wrapped(blocks, diagonal, none, zeroth, zeroth))>>, first, none, l1, NumQubits)[1]
  BY <1>1 DEF makeSingleQubitGateDD, makeControlledSingleQubitGateDD, WrappedGate
<1>3. blocks \in [1..len -> Lev(M, zeroth)] /\ \A b \in 1..4 : blocks[b] = terminal(matrix[b])
  <2>1. \A b \in 1..4 : blocks[b] = terminal(matrix[b]) /\ DOMAIN blocks = 1..4
    BY DEF Terminals
  <2>2. \A w \in Weight : terminal(w) \in Lev(M, zeroth)
    BY <1>1, LevFacts
  <2>3. blocks = [b \in 1..len |-> terminal(matrix[b])]
    BY DEF Terminals
  <2> QED BY <2>1, <2>2, <2>3
<1>4. none = <<>>
  OBVIOUS
<1> HIDE DEF blocks, len, none, diagonal
<1>5. Wrapped(blocks, diagonal, none, zeroth, zeroth) = blocks
  BY <1>1, <1>3, <1>4, WrappedFree
<1>6. blocks \in [1..4 -> Lev(M, zeroth)] /\ c \in 1..4
  BY <1>3, DiagonalCorner, <1>1 DEF len
<1> HIDE DEF c, l1
<1>7. edge \in Lev(M, l1) /\ Read(M, edge, i, j, l1) = Read(M, blocks[c], i, j, zeroth)
  BY <1>1, <1>6, ReadMatrixNode DEF l1, c
<1> HIDE DEF edge, first
<1>8. one \in [1..len1 -> Lev(M, l1)] /\ one[1] = edge
  BY <1>7
<1> HIDE DEF one, len1
<1>9. Wrapped(one, first, none, l1, NumQubits) = one
  BY <1>1, <1>4, <1>8, WrappedFree
<1>10. makeSingleQubitGateDD(zeroth, matrix) = edge
  BY <1>2, <1>5, <1>8, <1>9 DEF one, edge
<1>11. Read(M, blocks[c], i, j, zeroth) = matrix[c]
  <2> DEFINE e == terminal(matrix[c])
  <2>1. blocks[c] = e /\ e.w = matrix[c] /\ zeroth <= NumQubits /\ M \in {V, M}
    BY <1>1, <1>3, <1>6 DEF terminal
  <2>2. e \in Lev(M, zeroth)
    BY <1>6, <2>1
  <2> HIDE DEF e
  <2>3. Read(M, e, i, j, zeroth) \in Weight /\ (zeroth = 0 => Read(M, e, i, j, zeroth) = e.w)
    BY <1>1, <2>1, <2>2, ReadType
  <2>4. Read(M, e, i, j, zeroth) = e.w
    BY <2>3
  <2> QED BY <2>1, <2>4
<1> QED BY <1>1, <1>7, <1>10, <1>11 DEF c

\* The amplitudes of one qubit, one gate after the other.
TurnedInSteps(names) ==
    \E upTo : /\ upTo[0] = <<One, Zero>>
              /\ \A n \in 1..Len(names) : upTo[n] = Turn(upTo[n - 1], byName[names[n]])
              /\ \A n \in 0..Len(names) : upTo[n][1] \in Weight /\ upTo[n][2] \in Weight
              /\ Turned(names) = upTo[Len(names)]

\* A gate makes a pair of numbers of a pair of numbers.
LEMMA TurnType ==
    ASSUME NEW w, w[1] \in Weight, w[2] \in Weight, NEW g \in [1..4 -> Weight]
    PROVE  Turn(w, g) \in Weight \X Weight
<1>1. g[1] \in Weight /\ g[2] \in Weight /\ g[3] \in Weight /\ g[4] \in Weight
  OBVIOUS
<1>2. /\ Multiply(g[1], w[1]) \in Weight /\ Multiply(g[2], w[2]) \in Weight
      /\ Multiply(g[3], w[1]) \in Weight /\ Multiply(g[4], w[2]) \in Weight
  BY <1>1, WeightLaws
<1>3. /\ Add(Multiply(g[1], w[1]), Multiply(g[2], w[2])) \in Weight
      /\ Add(Multiply(g[3], w[1]), Multiply(g[4], w[2])) \in Weight
  BY <1>2, WeightLaws
<1> QED BY <1>3 DEF Turn

\* The loop of makeRandomState over the names of the gates ends with numbers.
LEMMA TurnedSteps ==
    ASSUME NEW names \in Seq(DOMAIN byName)
    PROVE  TurnedInSteps(names)
<1> DEFINE hi == Len(names)
           Rhs(g) == [n \in 0..hi |-> turnStep(names, g, n)]
           upTo == CHOOSE g : g = Rhs(g)
           Pair == Weight \X Weight
           Good == [n \in 0..hi |-> Pair]
           base == <<One, Zero>>
           step == [ns \in (0..hi) \X Pair |-> Turn(ns[2], byName[names[ns[1]]])]
<1>1. hi \in Nat /\ 0 \in Nat /\ 0 <= hi
  OBVIOUS
<1>2. Turned(names) = upTo[hi]
  BY DEF Turned
<1>3. \A g : Rhs(g) = [n \in 0..hi |-> IF n = 0 THEN base ELSE Turn(g[n - 1], byName[names[n]])]
  BY DEF turnStep
<1>4. \A n \in 0..hi : Good[n] = Pair /\ \A s \in Pair : step[<<n, s>>] = Turn(s, byName[names[n]])
  OBVIOUS
<1>5. base \in Pair
  BY ConstantWeights
<1>6. \A n \in 1..hi : byName[names[n]] \in [1..4 -> Weight]
  BY GateMatrix
<1>7. \A s \in Pair : s[1] \in Weight /\ s[2] \in Weight
  OBVIOUS
<1>8. \A n \in 1..hi : \A s \in Pair : Turn(s, byName[names[n]]) \in Pair
  BY <1>6, <1>7, TurnType
<1> HIDE DEF hi, Rhs, Good, step, Pair, base
<1>9. \A n \in 0..hi : n # 0 => n \in 1..hi /\ n - 1 \in 0..hi
  BY <1>1
<1>10. CountsUp(0, hi, Good, base, step)
  <2>1. base \in Good[0] /\ \A n \in 0..hi : n # 0 => \A s \in Good[n - 1] : step[<<n, s>>] \in Good[n]
    BY <1>1, <1>4, <1>5, <1>8, <1>9
  <2> QED BY <1>1, <2>1 DEF CountsUp
<1>11. PICK g : /\ g = [n \in 0..hi |-> g[n]]
                /\ \A n \in 0..hi : g[n] \in Good[n] /\ g[n] = IF n = 0 THEN base ELSE step[<<n, g[n - 1]>>]
  BY <1>10, CountUp
<1>12. \A n \in 0..hi : g[n] = IF n = 0 THEN base ELSE Turn(g[n - 1], byName[names[n]])
  BY <1>4, <1>9, <1>11
<1>13. g = Rhs(g)
  BY <1>3, <1>11, <1>12
<1>14. upTo = Rhs(upTo)
  BY <1>13
<1> HIDE DEF upTo
<1>15. \A n \in 0..hi : upTo[n] = IF n = 0 THEN base ELSE Turn(upTo[n - 1], byName[names[n]])
  BY <1>3, <1>14
<1> DEFINE S == {n \in 0..hi : upTo[n] \in Pair}
<1>16. 0 \in S /\ \A n \in 0..hi : n # 0 /\ n - 1 \in S => n \in S
  BY <1>1, <1>5, <1>8, <1>9, <1>15
<1>17. 0..hi \subseteq S
  <2> HIDE DEF S
  <2> QED BY <1>1, <1>16, CountInduction
<1>18. /\ upTo[0] = base
       /\ \A n \in 1..hi : upTo[n] = Turn(upTo[n - 1], byName[names[n]])
       /\ \A n \in 0..hi : upTo[n][1] \in Weight /\ upTo[n][2] \in Weight
  BY <1>1, <1>7, <1>15, <1>17
<1> QED BY <1>2, <1>18 DEF TurnedInSteps, hi, base

\* An edge for qubit 0 with the amplitudes w.
Holds(e, w) == e \in Lev(V, 1) /\ \A k \in Nat : Read(V, e, k, 0, 1) = w[Bit(k, 0) + 1]

\* |0>.
LEMMA ZeroHolds ==
    ASSUME strategy \in Strategies, NumQubits > 0
    PROVE  Holds(makeBasisState(<<"Zero">>, 0), <<One, Zero>>)
<1> DEFINE state == <<"Zero">>
           start == 0
           top == 1
           f == BasisFactors(state, start)
           e == makeBasisState(state, start)
           p(k) == [n \in Nat |-> IF n = 0 THEN One ELSE BasisWeights("Zero")[Bit(k, 0) + 1]]
<1>1. state \in Seq(BasisState) /\ start \in Nat /\ top \in Nat /\ top = start + Len(state) /\ top <= NumQubits
      /\ state[1] = "Zero" /\ NumQubits \in Nat
  BY QubitsAssumption DEF BasisState
<1>2. BasisWeights("Zero") = <<One, Zero>>
  BY DEF BasisWeights
<1>3. DOMAIN f = {0} /\ f[0] = <<One, Zero>>
  <2>1. DOMAIN f = start..start + Len(state) - 1 /\ Len(state) = 1
    BY DEF BasisFactors
  <2>2. 0 \in start..start + Len(state) - 1 /\ 0 - start + 1 = 1
    BY <2>1
  <2>3. f[0] = BasisWeights(state[0 - start + 1])
    BY <2>2 DEF BasisFactors
  <2> QED BY <1>1, <1>2, <2>1, <2>2, <2>3
<1>4. ASSUME NEW k \in Nat PROVE FactorSteps(f, k, p(k))
  <2> DEFINE b == Bit(k, 0)
             w == <<One, Zero>>[b + 1]
  <2>1. b \in {0, 1}
    BY BitType
  <2>2. One \in Weight /\ Zero \in Weight
    BY ConstantWeights
  <2>3. w \in Weight
    <3> HIDE DEF b
    <3> QED BY <2>1, <2>2
  <2>4. \A n \in Nat : p(k)[n] = IF n = 0 THEN One ELSE w
    BY <1>2
  <2>5. TimesFactor(f, k, One, 0) = w
    <3>1. TimesFactor(f, k, One, 0) = Multiply(One, f[0][b + 1])
      BY <1>3 DEF TimesFactor
    <3>2. Multiply(One, w) = w
      <4> HIDE DEF w
      <4> QED BY <2>3, WeightLaws
    <3> QED BY <1>3, <3>1, <3>2
  <2>6. ASSUME NEW n \in 1..NumQubits PROVE p(k)[n] = TimesFactor(f, k, p(k)[n - 1], n - 1)
    <3> HIDE DEF p, w, f
    <3>1. n \in Nat /\ n - 1 \in Nat /\ n # 0
      OBVIOUS
    <3>2. CASE n = 1
      BY <2>4, <2>5, <3>1, <3>2
    <3>3. CASE n # 1
      <4>1. n - 1 \notin DOMAIN f /\ n - 1 # 0
        BY <1>3, <3>1, <3>3
      <4>2. TimesFactor(f, k, p(k)[n - 1], n - 1) = p(k)[n - 1]
        BY <4>1 DEF TimesFactor
      <4> QED BY <2>4, <3>1, <4>1, <4>2
    <3> QED BY <3>2, <3>3
  <2> HIDE DEF p, w
  <2>7. p(k)[0] = One /\ \A n \in 0..NumQubits : p(k)[n] \in Weight
    BY <2>2, <2>3, <2>4
  <2> QED BY <2>6, <2>7 DEF FactorSteps
<1>5. \A k \in Nat : p(k)[top] = <<One, Zero>>[Bit(k, 0) + 1]
  BY <1>2
<1> HIDE DEF p, f, state, start, top
<1>6. ASSUME NEW k \in Nat PROVE e \in Lev(V, top) /\ Read(V, e, k, 0, top) = p(k)[top]
  <2> DEFINE q == p(k)
  <2>1. FactorSteps(BasisFactors(state, start), k, q)
    BY <1>4 DEF f
  <2> HIDE DEF q
  <2>2. e \in Lev(V, top) /\ Read(V, e, k, 0, top) = q[top]
    BY <1>1, <2>1, ReadBasis
  <2> QED BY <2>2 DEF q
<1>7. e \in Lev(V, top) /\ \A k \in Nat : Read(V, e, k, 0, top) = <<One, Zero>>[Bit(k, 0) + 1]
  <2>1. 0 \in Nat
    OBVIOUS
  <2> HIDE DEF e
  <2> QED BY <1>5, <1>6, <2>1
<1> QED BY <1>7 DEF Holds, e, state, start, top

\* A sum over the two indices of one bit.
LEMMA TotalTwo ==
    ASSUME NEW f \in [Nat -> Weight]
    PROVE  Total(f)[Pow2[1]] = Add(f[0], f[1])
<1>1. Pow2[1] = 2
  <2>1. Pow2[0] = 1 /\ Pow2[1] = 2 * Pow2[1 - 1]
    BY Pow2Def
  <2> QED BY <2>1
<1>2. Total(f)[0] = Zero
  BY TotalDef
<1>3. Total(f)[1] = Add(Total(f)[1 - 1], f[1 - 1])
  BY TotalDef
<1>4. Total(f)[2] = Add(Total(f)[2 - 1], f[2 - 1])
  BY TotalDef
<1>5. Add(Zero, f[0]) = f[0]
  BY SumLaws
<1> QED BY <1>1, <1>2, <1>3, <1>4, <1>5

\* One gate more.
LEMMA TurnHolds ==
    ASSUME strategy \in Strategies, NumQubits > 0, NEW e, NEW w, w[1] \in Weight, w[2] \in Weight, Holds(e, w),
           NEW matrix \in [1..4 -> Weight], NEW zeroth, zeroth = 0
    PROVE  Holds(multiply(V, makeSingleQubitGateDD(zeroth, matrix), e), Turn(w, matrix))
<1> DEFINE g == makeSingleQubitGateDD(zeroth, matrix)
           l == 1
<1>1. V \in {V, M} /\ NumQubits \in Nat /\ l \in Nat /\ l <= NumQubits /\ e \in Lev(V, l) /\ 0 \in Nat /\ 1 \in Nat
  BY QubitsAssumption DEF Holds
<1>2. \A i \in Nat, j \in Nat : g \in Lev(M, l) /\ Read(M, g, i, j, l) = matrix[Corner(i, j, zeroth)]
  BY LowestGate
<1>3. g \in Lev(M, l)
  BY <1>1, <1>2
<1> HIDE DEF g
<1>4. multiply(V, g, e) \in Lev(V, l)
  BY <1>1, <1>3, MultiplyLev
<1>5. ASSUME NEW k \in Nat PROVE Read(V, multiply(V, g, e), k, 0, l) = Turn(w, matrix)[Bit(k, 0) + 1]
  <2> DEFINE f == Terms(V, g, e, k, 0, l)
             b == Bit(k, 0)
  <2>1. Read(V, multiply(V, g, e), k, 0, l) = RowTimes(V, g, e, k, 0, l)
    BY <1>1, <1>3, ReadMultiply
  <2>2. RowTimes(V, g, e, k, 0, l) = Total(f)[Pow2[l]]
    BY DEF RowTimes
  <2>3. f \in [Nat -> Weight] /\ \A t \in Nat : f[t] = Multiply(Read(M, g, k, t, l), Read(V, e, t, 0, l))
    BY <1>1, <1>3, TermsType
  <2>4. Total(f)[Pow2[l]] = Add(f[0], f[1])
    <3> HIDE DEF f
    <3> QED BY <2>3, TotalTwo
  <2>5. Bit(0, 0) = 0 /\ Bit(1, 0) = 1
    BY Pow2Def DEF Bit
  <2>6. b \in {0, 1}
    BY BitType
  <2>7. Corner(k, 0, zeroth) = 2 * b + 0 + 1 /\ Corner(k, 1, zeroth) = 2 * b + 1 + 1
    BY <2>5 DEF Corner
  <2> HIDE DEF b, f
  <2>8. Read(V, e, 0, 0, l) = w[1] /\ Read(V, e, 1, 0, l) = w[2]
    <3>1. Read(V, e, 0, 0, 1) = w[Bit(0, 0) + 1] /\ Read(V, e, 1, 0, 1) = w[Bit(1, 0) + 1]
      BY DEF Holds
    <3> QED BY <2>5, <3>1
  <2>9. f[0] = Multiply(matrix[2 * b + 0 + 1], w[1]) /\ f[1] = Multiply(matrix[2 * b + 1 + 1], w[2])
    BY <1>1, <1>2, <2>3, <2>7, <2>8
  <2>10. Turn(w, matrix)[b + 1] = Add(f[0], f[1])
    <3>1. CASE b = 0
      BY <2>9, <3>1 DEF Turn
    <3>2. CASE b = 1
      BY <2>9, <3>2 DEF Turn
    <3> QED BY <2>6, <3>1, <3>2
  <2> QED BY <2>1, <2>2, <2>4, <2>10 DEF b
<1> QED BY <1>4, <1>5 DEF Holds, g

\* A random state of qubit 0, read.
LEMMA RandomHolds ==
    ASSUME strategy \in Strategies, NumQubits > 0, NEW names \in Seq(DOMAIN byName)
    PROVE  /\ Holds(makeRandomSingleQubitState(0, names), Turned(names))
           /\ Turned(names)[1] \in Weight /\ Turned(names)[2] \in Weight
<1> DEFINE hi == Len(names)
           nodes == Nodes(V, 0)
           base == makeBasisState(<<"Zero">>, 0)
           start == <<One, Zero>>
<1>1. hi \in Nat /\ 0 \in Nat /\ 0 <= hi /\ hi \in 0..hi /\ \A n \in 1..hi : byName[names[n]] \in [1..4 -> Weight]
  BY GateMatrix
<1>2. Family(V, "Any", nodes) /\ Makes("Any")
  <2>1. V \in {V, M}
    OBVIOUS
  <2> QED BY <1>1, <2>1, LevFacts
<1> HIDE DEF nodes
<1>3. RandomInSteps(nodes, names)
  BY <1>2, RandomSteps
<1>4. PICK after : /\ \A n \in 0..hi : after[n] = randomStep(0, names, after, n)
                   /\ makeRandomSingleQubitState(0, names) = after[hi]
  BY <1>3 DEF RandomInSteps
<1>5. TurnedInSteps(names)
  BY TurnedSteps
<1>6. PICK upTo : /\ upTo[0] = start
                  /\ \A n \in 1..hi : upTo[n] = Turn(upTo[n - 1], byName[names[n]])
                  /\ \A n \in 0..hi : upTo[n][1] \in Weight /\ upTo[n][2] \in Weight
                  /\ Turned(names) = upTo[hi]
  BY <1>5 DEF TurnedInSteps
<1> DEFINE S == {n \in 0..hi : Holds(after[n], upTo[n])}
<1>7. 0 \in S
  <2>1. after[0] = base
    BY <1>1, <1>4 DEF randomStep
  <2>2. Holds(base, start)
    BY ZeroHolds
  <2> QED BY <1>1, <1>6, <2>1, <2>2
<1> HIDE DEF hi, start
<1>8. ASSUME NEW n \in 0..hi, n # 0, n - 1 \in S PROVE n \in S
  <2> DEFINE e == after[n - 1]
             w == upTo[n - 1]
             matrix == byName[names[n]]
             zeroth == 0
  <2>1. n \in 1..hi /\ n - 1 \in 0..hi
    BY <1>1, <1>8
  <2>2. Holds(e, w) /\ w[1] \in Weight /\ w[2] \in Weight /\ matrix \in [1..4 -> Weight] /\ zeroth = 0
    BY <1>1, <1>6, <1>8, <2>1
  <2>3. after[n] = multiply(V, makeSingleQubitGateDD(zeroth, matrix), e)
    BY <1>4, <1>8 DEF randomStep
  <2>4. upTo[n] = Turn(w, matrix)
    BY <1>6, <2>1
  <2> HIDE DEF e, w, matrix, zeroth
  <2>5. Holds(multiply(V, makeSingleQubitGateDD(zeroth, matrix), e), Turn(w, matrix))
    BY <2>2, TurnHolds
  <2> QED BY <1>8, <2>3, <2>4, <2>5
<1>9. 0..hi \subseteq S
  <2> HIDE DEF S
  <2> QED BY <1>1, <1>7, <1>8, CountInduction
<1> QED BY <1>1, <1>4, <1>6, <1>9

\* The one qubit of a random state.
RandomFactors(names) == [q \in {0} |-> Turned(names)]

(***************************************************************************)
(* makeRandomSingleQubitState applies the gates drawn to |0>, and leaves   *)
(* all other qubits alone.                                                 *)
(***************************************************************************)
THEOREM RandomIsProduct ==
    ASSUME strategy \in Strategies, NumQubits > 0, NEW names \in Seq(DOMAIN byName)
    PROVE  /\ makeRandomSingleQubitState(0, names) \in Edge(V)
           /\ Vector(makeRandomSingleQubitState(0, names)) = Algebra!ProductState(RandomFactors(names))
<1> DEFINE f == RandomFactors(names)
           w == Turned(names)
           e == makeRandomSingleQubitState(0, names)
           g == Algebra!ProductState(f)
           lo == 0
           hi == 1
<1>1. V \in {V, M} /\ lo \in Nat /\ hi \in Nat /\ NumQubits \in Nat /\ lo <= hi /\ hi <= NumQubits
  BY QubitsAssumption
<1>2. DOMAIN f = lo..hi - 1 /\ 0 \in DOMAIN f /\ f[0] = w
  BY DEF RandomFactors
<1>3. Holds(e, w) /\ w[1] \in Weight /\ w[2] \in Weight
  BY RandomHolds
<1>4. Factored(f)
  <2>1. \A q \in DOMAIN f : f[q] = w
    BY DEF RandomFactors
  <2> HIDE DEF f, w
  <2> QED BY <1>3, <2>1 DEF Factored
<1> HIDE DEF f, w, e
<1>5. e \in Lev(V, hi) /\ \A k \in Nat : Read(V, e, k, 0, hi) = w[Bit(k, 0) + 1]
  BY <1>3 DEF Holds
<1>6. e \in Edge(V)
  <2> HIDE DEF hi
  <2>1. Lev(V, hi) \subseteq Edge(V)
    BY <1>1, LevFacts
  <2> QED BY <1>5, <2>1
<1>7. ASSUME NEW k \in Nat, NEW p, FactorSteps(f, k, p) PROVE Read(V, e, k, 0, NumQubits) = p[NumQubits]
  <2>1. p[0] = One /\ p[1] = TimesFactor(f, k, p[0], 0)
    <3>1. 1 \in 1..NumQubits /\ 1 - 1 = 0
      BY <1>1
    <3>2. p[1] = TimesFactor(f, k, p[1 - 1], 1 - 1) /\ p[0] = One
      BY <1>7, <3>1 DEF FactorSteps
    <3> QED BY <3>1, <3>2
  <2> DEFINE c == w[Bit(k, 0) + 1]
  <2>2. TimesFactor(f, k, One, 0) = Multiply(One, c)
    BY <1>2 DEF TimesFactor
  <2>3. c \in Weight
    <3> DEFINE b == Bit(k, 0)
    <3>1. b \in {0, 1}
      BY BitType
    <3> HIDE DEF b
    <3>2. w[b + 1] \in Weight
      BY <1>3, <3>1
    <3> QED BY <3>2 DEF b
  <2>4. Multiply(One, c) = c
    <3> HIDE DEF c
    <3> QED BY <2>3, WeightLaws
  <2>5. Read(V, e, k, 0, hi) = c
    BY <1>5
  <2>6. p[hi] = c
    BY <2>1, <2>2, <2>4
  <2> HIDE DEF lo, hi, c
  <2>7. p[NumQubits] = p[hi]
    BY <1>1, <1>2, <1>7, OtherFactors
  <2>8. Read(V, e, k, 0, NumQubits) = IF V = V \/ \A q \in hi..NumQubits - 1 : Bit(k, q) = Bit(0, q)
                                      THEN Read(V, e, k, 0, hi) ELSE Zero
    <3>1. 0 \in Nat /\ NumQubits <= NumQubits
      BY <1>1
    <3> QED BY <1>1, <1>5, <3>1, ReadUp
  <2> QED BY <2>5, <2>6, <2>7, <2>8
<1>8. \A i \in Positions : g[i] = Read(V, e, i - 1, 0, NumQubits)
  <2> SUFFICES ASSUME NEW i \in Positions PROVE g[i] = Read(V, e, i - 1, 0, NumQubits)
    OBVIOUS
  <2> DEFINE k == i - 1
  <2>1. k \in Nat
    BY AlgebraIndices
  <2>2. PICK p : FactorSteps(f, k, p) /\ g[i] = p[NumQubits]
    <3>1. ProductInSteps(f, i)
      BY <1>4, ProductSteps
    <3> QED BY <3>1 DEF ProductInSteps
  <2> HIDE DEF k, g
  <2>3. Read(V, e, k, 0, NumQubits) = p[NumQubits]
    BY <1>7, <2>1, <2>2
  <2> QED BY <2>2, <2>3 DEF k
<1>9. g = [i \in Positions |-> g[i]]
  BY AlgebraIndices DEF Algebra!ProductState
<1> HIDE DEF g
<1>10. Vector(e) = g
  BY <1>6, <1>8, <1>9, VectorEquals
<1> QED BY <1>6, <1>10 DEF e, g, f

\* The vectors and the operator to begin with are the algebra's.
LEMMA InitAlgebra == Init => Algebra!Init
<1> SUFFICES ASSUME Init PROVE Algebra!Init
  OBVIOUS
<1>1. strategy \in Strategies
  BY StrategyAssumption DEF Init, Strategies
<1> DEFINE factors == {BasisFactors(b.state, b.start) : b \in BasisInput}
           others == {RandomFactors(names) : names \in RandomInput}
<1>2. /\ u = Vector(x) /\ v = Vector(y) /\ a = Matrix(m) /\ op = <<>>
      /\ x \in {makeBasisState(b.state, b.start) : b \in BasisInput}
                  \cup {makeStateFromVector(amps) : amps \in VectorInput}
      /\ y \in {makeRandomSingleQubitState(0, names) : names \in RandomInput}
      /\ m \in {makeDDFromMatrix(matrix) : matrix \in MatrixInput}
  BY DEF Init
<1>3. ASSUME NEW b \in BasisInput, x = makeBasisState(b.state, b.start)
      PROVE  u \in {Algebra!ProductState(f) : f \in factors}
  <2> DEFINE st == b.state
             start == b.start
  <2>1. st \in Seq(BasisState) /\ start \in Nat /\ start + Len(st) <= NumQubits /\ x = makeBasisState(st, start)
    BY <1>3, BasisAssumption
  <2>2. BasisFactors(st, start) \in factors
    OBVIOUS
  <2> HIDE DEF st, start, factors
  <2>3. Vector(makeBasisState(st, start)) = Algebra!ProductState(BasisFactors(st, start))
    BY <1>1, <2>1, BasisIsProduct
  <2> QED BY <1>2, <2>1, <2>2, <2>3
<1>4. ASSUME NEW amps \in VectorInput, x = makeStateFromVector(amps) PROVE u \in VectorInput
  <2>1. amps \in [1..Pow2[NumQubits] -> Weight]
    BY VectorAssumption
  <2>2. Vector(makeStateFromVector(amps)) = amps
    BY <1>1, <2>1, GivenVector
  <2> QED BY <1>2, <1>4, <2>2
<1>5. u \in {Algebra!ProductState(f) : f \in factors} \cup VectorInput
  <2> HIDE DEF factors
  <2> QED BY <1>2, <1>3, <1>4
<1>6. v \in {Algebra!ProductState(f) : f \in others}
  <2>1. PICK names \in RandomInput : y = makeRandomSingleQubitState(0, names)
    BY <1>2
  <2>2. names \in Seq(DOMAIN byName) /\ NumQubits > 0 /\ RandomFactors(names) \in others
    BY RandomAssumption
  <2> HIDE DEF others
  <2>3. Vector(makeRandomSingleQubitState(0, names)) = Algebra!ProductState(RandomFactors(names))
    BY <1>1, <2>2, RandomIsProduct
  <2> QED BY <1>2, <2>1, <2>2, <2>3
<1>7. a \in MatrixInput
  <2>1. PICK matrix \in MatrixInput : m = makeDDFromMatrix(matrix)
    BY <1>2
  <2>2. matrix \in SquareMatrix
    BY MatrixAssumption DEF SquareMatrix
  <2>3. Matrix(makeDDFromMatrix(matrix)) = matrix
    BY <1>1, <2>2, GivenMatrix
  <2> QED BY <1>2, <2>1, <2>3
<1> QED BY <1>2, <1>5, <1>6, <1>7 DEF Algebra!Init, BasisFactors, RandomFactors

\* A step of the algebra that replaces a vector, or an operator.
LEMMA VectorMapped ==
    ASSUME NEW o, NEW edge, NEW p, VectorBecomes(o, edge), Vector(edge) = p
    PROVE  Algebra!VectorBecomes(o, p)
BY DEF VectorBecomes, Step, Algebra!VectorBecomes

\* A call that leaves the matrix p in the client leaves p in the algebra.
LEMMA MatrixMapped ==
    ASSUME NEW o, NEW edge, NEW p, MatrixBecomes(o, edge), Matrix(edge) = p
    PROVE  Algebra!OperatorBecomes(o, p)
BY DEF MatrixBecomes, Step, Algebra!OperatorBecomes

\* A step of the client is one of the algebra, or changes nothing of it.
LEMMA NextAlgebra == IInv /\ [Next]_vars => [Algebra!Next]_<<u, v, a, op>>
<1> SUFFICES ASSUME IInv, [Next]_vars PROVE [Algebra!Next]_<<u, v, a, op>>
  OBVIOUS
<1>1. /\ strategy \in Strategies /\ x \in Edge(V) /\ y \in Edge(V) /\ m \in Edge(M) /\ NumQubits \in Nat
      /\ u = Vector(x) /\ v = Vector(y) /\ a = Matrix(m)
  BY ReducedFacts DEF IInv
<1>2. Qubit = 0..NumQubits - 1 /\ Algebra!Qubit = 0..NumQubits - 1
  BY DEF Qubit, Algebra!Qubit
<1>3. ASSUME NEW r \in Request, Accepted(r) PROVE Gate(r) \in Edge(M) /\ Matrix(Gate(r)) = Algebra!Operator(r)
  <2>1. Gate(r) \in Edge(M)
    <3> DEFINE nodes == Nodes(M, 0)
    <3>1. M \in {V, M}
      OBVIOUS
    <3>2. Family(M, "Any", nodes) /\ Makes("Any") /\ Edge(M) = EdgesTo(nodes[NumQubits])
      BY <1>1, <3>1, LevFacts DEF Edge
    <3> HIDE DEF nodes
    <3> QED BY <1>1, <1>3, <3>2, GateEdges
  <2> QED BY <1>1, <1>3, <2>1, GateIsOperator
<1>4. CASE addVectors
  <2>1. VectorBecomes(<<"add">>, add(x, y)) /\ Vector(add(x, y)) = Algebra!Sum(u, v)
    BY <1>1, <1>4, AddVectors DEF addVectors
  <2>2. Algebra!VectorBecomes(<<"add">>, Algebra!Sum(u, v))
    BY <2>1, VectorMapped
  <2> QED BY <2>2 DEF Algebra!Next
<1>5. CASE applyMatrix
  <2>1. VectorBecomes(<<"apply">>, multiply(V, m, x)) /\ Vector(multiply(V, m, x)) = Algebra!Apply(a, u)
    BY <1>1, <1>5, MultiplyIsApply DEF applyMatrix
  <2>2. Algebra!VectorBecomes(<<"apply">>, Algebra!Apply(a, u))
    BY <2>1, VectorMapped
  <2> QED BY <2>2 DEF Algebra!Next
<1>6. CASE outer
  <2>1. MatrixBecomes(<<"outer">>, outerProduct(x, y)) /\ Matrix(outerProduct(x, y)) = Algebra!Outer(u, v)
    BY <1>1, <1>6, OuterIsOuter DEF outer
  <2>2. Algebra!OperatorBecomes(<<"outer">>, Algebra!Outer(u, v))
    BY <2>1, MatrixMapped
  <2> QED BY <2>2 DEF Algebra!Next
<1>7. CASE swap
  <2>1. op' = <<"swap">> /\ u' = v /\ v' = u /\ UNCHANGED a
    BY <1>7 DEF swap, Step
  <2> QED BY <2>1 DEF Algebra!Next
<1>8. ASSUME NEW q \in Qubit, NEW outcome \in BOOLEAN, measure(q, outcome) PROVE Algebra!Next
  <2> DEFINE o == <<"measure", q, outcome>>
             edge == measureOneQubit(x, q, outcome).state
             p == Algebra!Projection(u, q, IF outcome THEN 1 ELSE 0)
  <2>1. VectorBecomes(o, edge)
    BY <1>8 DEF measure
  <2>2. Vector(edge) = p
    BY <1>1, <1>2, MeasureIsProjection
  <2>3. Algebra!VectorBecomes(o, p)
    <3> HIDE DEF o, edge, p
    <3> QED BY <2>1, <2>2, VectorMapped
  <2> QED BY <1>2, <2>3 DEF Algebra!Next
<1>9. ASSUME NEW k \in 1..NumQubits - 1, kroneckerVectors(k) PROVE Algebra!Next
  <2> DEFINE o == <<"kronecker", k>>
             edge == kronecker(V, x, y, k, TRUE)
             p == Algebra!Tensor(u, v, k)
  <2>1. VectorBecomes(o, edge) /\ topVar(y.p) < k /\ kroneckerFits(x, k, TRUE)
    BY <1>9 DEF kroneckerVectors
  <2>2. Vector(edge) = p
    BY <1>1, <2>1, KroneckerIsTensor
  <2>3. Algebra!VectorBecomes(o, p)
    <3> HIDE DEF o, edge, p
    <3> QED BY <2>1, <2>2, VectorMapped
  <2> QED BY <2>3 DEF Algebra!Next
<1>10. ASSUME NEW k \in 1..NumQubits - 1, kroneckerInPlace(k) PROVE Algebra!Next
  <2> DEFINE o == <<"kroneckerInPlace">>
             edge == kronecker(V, x, y, k, FALSE)
             p == Algebra!Pointwise(u, v)
  <2>1. VectorBecomes(o, edge) /\ topVar(y.p) < k /\ x.p \in Nodes(V, k)[NumQubits]
    BY <1>10 DEF kroneckerInPlace
  <2>2. Vector(edge) = p
    BY <1>1, <2>1, KroneckerIsPointwise
  <2>3. Algebra!VectorBecomes(o, p)
    <3> HIDE DEF o, edge, p
    <3> QED BY <2>1, <2>2, VectorMapped
  <2> QED BY <2>3 DEF Algebra!Next
<1>11. ASSUME NEW r \in Request, Accepted(r), NEW g \in {Gate(r)}, applyGate(r, g) PROVE Algebra!Next
  <2> DEFINE o == <<"applyGate", r>>
             edge == multiply(V, g, x)
             p == Algebra!Apply(Algebra!Operator(r), u)
  <2>1. g \in Edge(M) /\ Matrix(g) = Algebra!Operator(r)
    BY <1>3, <1>11
  <2>2. VectorBecomes(o, edge)
    BY <1>11 DEF applyGate
  <2>3. Vector(edge) = p
    BY <1>1, <2>1, MultiplyIsApply
  <2>4. Algebra!VectorBecomes(o, p)
    <3> HIDE DEF o, edge, p
    <3> QED BY <2>2, <2>3, VectorMapped
  <2> QED BY <1>11, <2>4 DEF Algebra!Next
<1>12. ASSUME NEW r \in Request, Accepted(r), NEW g \in {Gate(r)}, makeGate(r, g) PROVE Algebra!Next
  <2> DEFINE o == <<"makeGate", r>>
             p == Algebra!Operator(r)
  <2>1. Matrix(g) = p /\ MatrixBecomes(o, g)
    BY <1>3, <1>12 DEF makeGate
  <2>2. Algebra!OperatorBecomes(o, p)
    <3> HIDE DEF o, p
    <3> QED BY <2>1, MatrixMapped
  <2> QED BY <1>12, <2>2 DEF Algebra!Next
<1>13. ASSUME NEW r \in Request, Accepted(r), NEW g \in {Gate(r)}, multiplyMatrices(r, g) PROVE Algebra!Next
  <2> DEFINE o == <<"multiply", r>>
             edge == multiply(M, g, m)
             p == Algebra!Product(Algebra!Operator(r), a)
  <2>1. g \in Edge(M) /\ Matrix(g) = Algebra!Operator(r)
    BY <1>3, <1>13
  <2>2. MatrixBecomes(o, edge)
    BY <1>13 DEF multiplyMatrices
  <2>3. Matrix(edge) = p
    BY <1>1, <2>1, MultiplyIsProduct
  <2>4. Algebra!OperatorBecomes(o, p)
    <3> HIDE DEF o, edge, p
    <3> QED BY <2>2, <2>3, MatrixMapped
  <2> QED BY <1>13, <2>4 DEF Algebra!Next
<1>14. ASSUME NEW r \in Request, Accepted(r), NEW g \in {Gate(r)}, NEW k \in 1..NumQubits - 1,
              kroneckerMatrices(r, g, k)
       PROVE  Algebra!Next
  <2> DEFINE o == <<"kroneckerMatrices", r, k>>
             edge == kronecker(M, m, g, k, TRUE)
             p == Algebra!TensorOperator(a, Algebra!Operator(r), k)
  <2>1. g \in Edge(M) /\ Matrix(g) = Algebra!Operator(r)
    BY <1>3, <1>14
  <2>2. MatrixBecomes(o, edge) /\ topVar(g.p) < k /\ kroneckerFits(m, k, TRUE)
    BY <1>14 DEF kroneckerMatrices
  <2>3. Matrix(edge) = p
    BY <1>1, <2>1, <2>2, KroneckerIsTensorOperator
  <2>4. Algebra!OperatorBecomes(o, p)
    <3> HIDE DEF o, edge, p
    <3> QED BY <2>2, <2>3, MatrixMapped
  <2> QED BY <1>14, <2>4 DEF Algebra!Next
<1>15. CASE UNCHANGED vars
  BY <1>15 DEF vars
<1> QED
  BY <1>4, <1>5, <1>6, <1>7, <1>8, <1>9, <1>10, <1>11, <1>12, <1>13, <1>14, <1>15 DEF Next, finished

(***************************************************************************)
(* The package implements the algebra of vectors and matrices: whatever    *)
(* edges are shared, skipped or normalized, and under each strategy, every *)
(* sequence of operations on the diagrams is one on what they represent.   *)
(***************************************************************************)
THEOREM DiagramsImplementAlgebra == Spec => ImplementsAlgebra
<1>1. Algebra!Init /\ [][Algebra!Next]_<<u, v, a, op>> => Algebra!Spec
  BY DEF Algebra!Spec
<1>2. Init => IInv /\ Algebra!Init
  BY InitReduced, InitAlgebra
<1>3. IInv /\ [Next]_vars => IInv' /\ [Algebra!Next]_<<u, v, a, op>>
  BY NextReduced, NextAlgebra
<1> QED BY <1>1, <1>2, <1>3, PTL DEF Spec, ImplementsAlgebra

(***************************************************************************)
(* The inner product.                                                      *)
(***************************************************************************)
\* The terms of an inner product: the amplitudes of d, conjugated, times those
\* of e.
InnerTerms(d, e, n) == [k \in Nat |-> Multiply(conjugate(Read(V, d, k, 0, n)), Read(V, e, k, 0, n))]

Inner(d, e, n) == Total(InnerTerms(d, e, n))[Pow2[n]]

\* They are numbers, and so is their sum.
LEMMA InnerTermsType ==
    ASSUME NEW n \in Nat, n <= NumQubits, NEW d \in Lev(V, n), NEW e \in Lev(V, n)
    PROVE  /\ InnerTerms(d, e, n) \in [Nat -> Weight]
           /\ \A k \in Nat : InnerTerms(d, e, n)[k] = Multiply(conjugate(Read(V, d, k, 0, n)), Read(V, e, k, 0, n))
           /\ Inner(d, e, n) \in Weight
<1> DEFINE f == InnerTerms(d, e, n)
           P == Pow2[n]
<1>1. V \in {V, M} /\ 0 \in Nat
  OBVIOUS
<1>2. \A k \in Nat : Read(V, d, k, 0, n) \in Weight /\ Read(V, e, k, 0, n) \in Weight
  BY <1>1, ReadType
<1>3. \A k \in Nat : conjugate(Read(V, d, k, 0, n)) \in Weight
  BY <1>2, SumLaws
<1>4. \A k \in Nat : Multiply(conjugate(Read(V, d, k, 0, n)), Read(V, e, k, 0, n)) \in Weight
  BY <1>2, <1>3, WeightLaws
<1>5. f \in [Nat -> Weight]
      /\ \A k \in Nat : f[k] = Multiply(conjugate(Read(V, d, k, 0, n)), Read(V, e, k, 0, n))
  BY <1>4 DEF InnerTerms
<1>6. P \in Nat
  BY Pow2Def
<1> HIDE DEF f, P
<1>7. Total(f)[P] \in Weight
  BY <1>5, <1>6, TotalDef
<1> QED BY <1>5, <1>7 DEF f, P, Inner

\* An inner product is the sum of those of the halves, times the weights.
LEMMA InnerKids ==
    ASSUME NEW k \in Nat, k < NumQubits, NEW d \in Lev(V, k + 1), NEW e \in Lev(V, k + 1)
    PROVE  Inner(d, e, k + 1) =
              Multiply(Multiply(conjugate(d.w), e.w),
                       Add(Inner(Kid(V, d, 0, 0, k), Kid(V, e, 0, 0, k), k),
                           Inner(Kid(V, d, Pow2[k], 0, k), Kid(V, e, Pow2[k], 0, k), k)))
<1> DEFINE n == k + 1
           P == Pow2[k]
           d0 == Kid(V, d, 0, 0, k)
           d1 == Kid(V, d, P, 0, k)
           e0 == Kid(V, e, 0, 0, k)
           e1 == Kid(V, e, P, 0, k)
           f == InnerTerms(d, e, n)
           g == InnerTerms(d0, e0, k)
           h == InnerTerms(d1, e1, k)
           dw == conjugate(d.w)
           c == Multiply(dw, e.w)
<1>1. n \in Nat /\ n <= NumQubits /\ k <= NumQubits /\ V \in {V, M} /\ NumQubits \in Nat
  BY LevFacts
<1>2. P \in Nat /\ 0 < P /\ 0 \in Nat
  BY Pow2Def
<1>3. d0 \in Lev(V, k) /\ d1 \in Lev(V, k) /\ d.w \in Weight
  BY <1>1, <1>2, PartType
<1>4. e0 \in Lev(V, k) /\ e1 \in Lev(V, k) /\ e.w \in Weight
  BY <1>1, <1>2, PartType
<1>5. Bit(0, k) = 0 /\ Bit(P, k) = 1
  BY <1>2, HalfBits
<1>6. /\ f \in [Nat -> Weight]
      /\ \A t \in Nat : f[t] = Multiply(conjugate(Read(V, d, t, 0, n)), Read(V, e, t, 0, n))
  <2> HIDE DEF n
  <2> QED BY <1>1, InnerTermsType DEF n
<1> HIDE DEF d0, d1, e0, e1
<1>7. /\ g \in [Nat -> Weight] /\ h \in [Nat -> Weight]
      /\ \A t \in Nat : g[t] = Multiply(conjugate(Read(V, d0, t, 0, k)), Read(V, e0, t, 0, k))
      /\ \A t \in Nat : h[t] = Multiply(conjugate(Read(V, d1, t, 0, k)), Read(V, e1, t, 0, k))
  <2> HIDE DEF n, P, c, f
  <2>1. g \in [Nat -> Weight] /\ \A t \in Nat : g[t] = Multiply(conjugate(Read(V, d0, t, 0, k)), Read(V, e0, t, 0, k))
    <3>1. k \in Nat /\ k <= NumQubits /\ d0 \in Lev(V, k) /\ e0 \in Lev(V, k)
      BY <1>1, <1>3, <1>4
    <3> QED BY <3>1, InnerTermsType DEF g
  <2>2. h \in [Nat -> Weight] /\ \A t \in Nat : h[t] = Multiply(conjugate(Read(V, d1, t, 0, k)), Read(V, e1, t, 0, k))
    <3>1. k \in Nat /\ k <= NumQubits /\ d1 \in Lev(V, k) /\ e1 \in Lev(V, k)
      BY <1>1, <1>3, <1>4
    <3> QED BY <3>1, InnerTermsType DEF h
  <2> QED BY <2>1, <2>2
<1>8. dw \in Weight
  BY <1>3, SumLaws
<1> HIDE DEF f, g, h
<1>9. ASSUME NEW t \in Nat, NEW s \in Nat, NEW r \in Nat, Bit(t, k) = Bit(r, k),
             \A q \in Nat : q < k => Bit(t, q) = Bit(s, q)
      PROVE  f[t] = Multiply(c, Multiply(conjugate(Read(V, Kid(V, d, r, 0, k), s, 0, k)),
                                         Read(V, Kid(V, e, r, 0, k), s, 0, k)))
  <2> DEFINE b == Kid(V, d, r, 0, k)
             z == Kid(V, e, r, 0, k)
             rb == Read(V, b, s, 0, k)
             rz == Read(V, z, s, 0, k)
             cb == conjugate(rb)
  <2>1. Kid(V, d, t, 0, k) = b /\ Kid(V, e, t, 0, k) = z
    BY <1>9 DEF Kid, Digit
  <2>2. b \in Lev(V, k) /\ z \in Lev(V, k)
    BY <1>1, <1>2, PartType
  <2>3. Read(V, d, t, 0, n) = Multiply(d.w, Read(V, Kid(V, d, t, 0, k), t, 0, k))
    BY <1>1, <1>2, ReadKid
  <2>4. Read(V, e, t, 0, n) = Multiply(e.w, Read(V, Kid(V, e, t, 0, k), t, 0, k))
    BY <1>1, <1>2, ReadKid
  <2> HIDE DEF b, z
  <2>5. Read(V, b, t, 0, k) = rb
    BY <1>1, <1>2, <1>9, <2>2, ReadBits
  <2>6. Read(V, z, t, 0, k) = rz
    BY <1>1, <1>2, <1>9, <2>2, ReadBits
  <2>7. rb \in Weight /\ rz \in Weight
    BY <1>1, <1>2, <2>2, ReadType
  <2> HIDE DEF rb, rz
  <2>8. conjugate(Multiply(d.w, rb)) = Multiply(dw, cb) /\ cb \in Weight
    BY <1>3, <2>7, SumLaws
  <2>9. f[t] = Multiply(Multiply(dw, cb), Multiply(e.w, rz))
    BY <1>6, <2>1, <2>3, <2>4, <2>5, <2>6, <2>8
  <2> HIDE DEF dw, cb
  <2>10. f[t] = Multiply(c, Multiply(cb, rz))
    BY <1>4, <1>8, <2>7, <2>8, <2>9, FourFactors
  <2> QED BY <2>10 DEF b, z, rb, rz, cb
<1>10. \A t \in Nat : t < P => f[t] = Multiply(c, g[t]) /\ f[P + t] = Multiply(c, h[t])
  <2> SUFFICES ASSUME NEW t \in Nat, t < P
               PROVE  f[t] = Multiply(c, g[t]) /\ f[P + t] = Multiply(c, h[t])
    OBVIOUS
  <2>1. /\ Bit(t, k) = 0 /\ Bit(P + t, k) = 1 /\ P + t \in Nat
        /\ \A q \in Nat : q < k => Bit(P + t, q) = Bit(t, q)
    BY HalfBits
  <2> HIDE DEF P, c
  <2>2. f[t] = Multiply(c, Multiply(conjugate(Read(V, d0, t, 0, k)), Read(V, e0, t, 0, k)))
    BY <1>2, <1>5, <1>9, <2>1 DEF d0, e0
  <2> DEFINE r == P + t
  <2>3. r \in Nat /\ Bit(r, k) = Bit(P, k) /\ \A q \in Nat : q < k => Bit(r, q) = Bit(t, q)
    BY <1>5, <2>1
  <2> HIDE DEF r
  <2>4. f[r] = Multiply(c, Multiply(conjugate(Read(V, d1, t, 0, k)), Read(V, e1, t, 0, k)))
    BY <1>2, <1>5, <1>9, <2>3 DEF d1, e1
  <2> QED BY <1>7, <2>2, <2>4 DEF r
<1> HIDE DEF dw
<1>11. c \in Weight
  BY <1>4, <1>8, WeightLaws
<1> DEFINE G == Total(g)[P]
           H == Total(h)[P]
<1>12. G \in Weight /\ H \in Weight
  <2> HIDE DEF P
  <2> QED BY <1>2, <1>7, TotalDef
<1>13. Total(f)[Pow2[k + 1]] = Add(Multiply(c, G), Multiply(c, H))
  <2>1. HalvesAre(f, k, c, g, c, h)
    BY <1>6, <1>7, <1>10, <1>11 DEF HalvesAre
  <2> HIDE DEF c
  <2> QED BY <2>1, TotalHalves DEF P
<1> HIDE DEF G, H, c
<1>14. Multiply(c, Add(G, H)) = Add(Multiply(c, G), Multiply(c, H))
  BY <1>11, <1>12, ThreeWeights
<1> QED BY <1>13, <1>14 DEF Inner, G, H, P, c, dw, f, g, h, d0, d1, e0, e1

\* One call of innerProduct.
LEMMA InnerStepAt ==
    ASSUME NEW joint, NEW d, NEW e, NEW k \in Nat
    PROVE  /\ innerStep(joint, d, e, 0) =
                 IF isZero(d.w) \/ isZero(e.w) THEN Zero ELSE Multiply(conjugate(d.w), e.w)
           /\ innerStep(joint, d, e, k + 1) =
                 IF isZero(d.w) \/ isZero(e.w) THEN Zero
                 ELSE Multiply(Multiply(conjugate(d.w), e.w),
                               Add(joint[<<Kid(V, d, 0, 0, k), Kid(V, e, 0, 0, k), k>>],
                                   joint[<<Kid(V, d, Pow2[k], 0, k), Kid(V, e, Pow2[k], 0, k), k>>]))
<1>1. Bit(0, k) = 0 /\ Bit(Pow2[k], k) = 1
  <2>1. Pow2[k] \in Nat /\ 0 < Pow2[k] /\ 0 \in Nat
    BY Pow2Def
  <2> QED BY <2>1, HalfBits
<1>2. k + 1 - 1 = k /\ k + 1 # 0
  OBVIOUS
<1>3. /\ Kid(V, d, 0, 0, k) = vChildrenAt(d.p, k)[1] /\ Kid(V, d, Pow2[k], 0, k) = vChildrenAt(d.p, k)[2]
      /\ Kid(V, e, 0, 0, k) = vChildrenAt(e.p, k)[1] /\ Kid(V, e, Pow2[k], 0, k) = vChildrenAt(e.p, k)[2]
  BY <1>1 DEF Kid, childrenAt, Digit
<1> QED BY <1>2, <1>3 DEF innerStep, BottomReached

\* What the calls at one level return, if those below return numbers.
LEMMA InnerStepType ==
    ASSUME NEW g, NEW d \in Edge(V), NEW e \in Edge(V), NEW l \in 0..NumQubits,
           l > 0 => \A r \in {1, 2} : g[<<vChildrenAt(d.p, l - 1)[r], vChildrenAt(e.p, l - 1)[r], l - 1>>] \in Weight
    PROVE  innerStep(g, d, e, l) \in Weight
<1> DEFINE w == conjugate(d.w)
           c == Multiply(w, e.w)
           s == g[<<vChildrenAt(d.p, l - 1)[1], vChildrenAt(e.p, l - 1)[1], l - 1>>]
           t == g[<<vChildrenAt(d.p, l - 1)[2], vChildrenAt(e.p, l - 1)[2], l - 1>>]
<1>1. d.w \in Weight /\ e.w \in Weight
  BY EdgeFields DEF Edge
<1>2. w \in Weight
  BY <1>1, SumLaws
<1> HIDE DEF w
<1>3. c \in Weight /\ Zero \in Weight
  BY <1>1, <1>2, WeightLaws
<1> HIDE DEF c
<1>4. l # 0 => s \in Weight /\ t \in Weight
  BY QubitsAssumption
<1>5. innerStep(g, d, e, l) = IF isZero(d.w) \/ isZero(e.w) THEN Zero ELSE IF l = 0 THEN c ELSE Multiply(c, Add(s, t))
  BY DEF innerStep, BottomReached, c, w
<1> HIDE DEF s, t
<1>6. l # 0 => Multiply(c, Add(s, t)) \in Weight
  BY <1>3, <1>4, WeightLaws
<1> QED BY <1>3, <1>5, <1>6

\* The recursive function of innerProduct satisfies its equation.
LEMMA InnerEquation ==
    ASSUME NEW d \in Edge(V), NEW e \in Edge(V), NEW l \in 0..NumQubits
    PROVE  innerProductRec[<<d, e, l>>] = innerStep(innerProductRec, d, e, l)
<1> DEFINE D == PairAtLevel
           mu == [de \in D |-> de[3]]
           Good == [de \in D |-> Weight]
           G == Selections(D, Good)
           comb == [dg \in D \X G |-> innerStep(dg[2], dg[1][1], dg[1][2], dg[1][3])]
           Call(de, r) == <<vChildrenAt(de[1].p, de[3] - 1)[r], vChildrenAt(de[2].p, de[3] - 1)[r], de[3] - 1>>
<1>1. NumQubits \in Nat /\ Zero \in Weight
  BY QubitsAssumption, WeightLaws
<1>2. D = Edge(V) \X Edge(V) \X (0..NumQubits)
  BY DEF PairAtLevel
<1>3. \A g \in G : \A de \in D : comb[<<de, g>>] = innerStep(g, de[1], de[2], de[3])
  <2> HIDE DEF D, G
  <2> QED OBVIOUS
<1>4. \A de \in D : mu[de] = de[3] /\ Good[de] = Weight
  OBVIOUS
<1>5. mu = [de \in D |-> mu[de]]
  OBVIOUS
<1>6. \A g \in G : g = [de \in D |-> g[de]] /\ \A de \in D : g[de] \in Good[de]
  <2> HIDE DEF D, Good
  <2> QED BY DEF Selections
<1>7. D = PairAtLevel
  OBVIOUS
<1> HIDE DEF D, mu, Good, G, comb
<1>8. ASSUME NEW de \in D
      PROVE  /\ de = <<de[1], de[2], de[3]>> /\ de[1] \in Edge(V) /\ de[2] \in Edge(V) /\ de[3] \in 0..NumQubits
             /\ de[3] \in Nat
  BY <1>1, <1>2
<1>9. mu \in [D -> Nat]
  BY <1>4, <1>5, <1>8
<1>10. ASSUME NEW de \in D, de[3] > 0, NEW r \in {1, 2}
       PROVE  Call(de, r) \in D /\ Call(de, r)[3] = de[3] - 1
  <2> DEFINE k == de[3] - 1
  <2>1. k \in Nat /\ k \in 0..NumQubits
    BY <1>1, <1>8, <1>10
  <2> HIDE DEF k
  <2>2. vChildrenAt(de[1].p, k) \in [1..V -> Edge(V)] /\ vChildrenAt(de[2].p, k) \in [1..V -> Edge(V)]
    BY <1>8, <2>1, AnyChildren
  <2>3. r \in 1..V
    BY DEF V
  <2>4. vChildrenAt(de[1].p, k)[r] \in Edge(V) /\ vChildrenAt(de[2].p, k)[r] \in Edge(V)
    BY <2>2, <2>3
  <2>5. Call(de, r) = <<vChildrenAt(de[1].p, k)[r], vChildrenAt(de[2].p, k)[r], k>>
    BY DEF k
  <2> HIDE DEF Call
  <2> QED BY <1>2, <2>1, <2>4, <2>5 DEF k
<1>11. ASSUME NEW de \in D, NEW g \in G PROVE innerStep(g, de[1], de[2], de[3]) \in Weight
  <2>1. ASSUME de[3] > 0, NEW r \in {1, 2} PROVE g[Call(de, r)] \in Weight
    <3> HIDE DEF Call
    <3> QED BY <1>4, <1>6, <1>10, <2>1
  <2> QED BY <1>8, <2>1, InnerStepType
<1>12. WellFounded(D, mu, Good, comb)
  <2>1. \A de \in D : Good[de] # {}
    BY <1>1, <1>4
  <2>2. \A de \in D : \A g \in G : comb[<<de, g>>] \in Good[de]
    BY <1>3, <1>4, <1>11
  <2>3. ASSUME NEW de \in D, NEW g \in G, NEW h \in G, \A c \in D : mu[c] < mu[de] => g[c] = h[c]
        PROVE  comb[<<de, g>>] = comb[<<de, h>>]
    <3>1. de[3] > 0 => g[Call(de, 1)] = h[Call(de, 1)] /\ g[Call(de, 2)] = h[Call(de, 2)]
      <4> HIDE DEF Call
      <4>1. ASSUME de[3] > 0, NEW r \in {1, 2} PROVE g[Call(de, r)] = h[Call(de, r)]
        BY <1>4, <1>8, <1>10, <2>3, <4>1
      <4> QED BY <4>1
    <3>2. de[3] # 0 => g[Call(de, 1)] = h[Call(de, 1)] /\ g[Call(de, 2)] = h[Call(de, 2)]
      BY <1>8, <3>1
    <3>3. innerStep(g, de[1], de[2], de[3]) = innerStep(h, de[1], de[2], de[3])
      BY <3>2 DEF innerStep, BottomReached
    <3> QED BY <1>3, <3>3
  <2> QED BY <1>9, <2>1, <2>2, <2>3 DEF WellFounded, G
<1>13. PICK f \in G : \A de \in D : f[de] = comb[<<de, f>>]
  BY <1>12, RecursionExists DEF G
<1>14. f = [de \in D |-> innerStep(f, de[1], de[2], de[3])]
  BY <1>3, <1>6, <1>13
<1>15. innerProductRec = [de \in PairAtLevel |-> innerStep(innerProductRec, de[1], de[2], de[3])]
  BY <1>7, <1>14 DEF innerProductRec
<1> QED BY <1>2, <1>7, <1>15

\* What innerProductRec returns at level k.
SumsInner(k) == \A d \in Lev(V, k), e \in Lev(V, k) : innerProductRec[<<d, e, k>>] = Inner(d, e, k)

\* ... of terminals: one product.
LEMMA InnerTerminals == SumsInner(0)
<1> SUFFICES ASSUME NEW d \in Lev(V, 0), NEW e \in Lev(V, 0)
             PROVE  innerProductRec[<<d, e, 0>>] = Inner(d, e, 0)
  BY DEF SumsInner
<1> DEFINE f == InnerTerms(d, e, 0)
           dw == conjugate(d.w)
<1>1. V \in {V, M} /\ 0 \in Nat /\ 0 <= NumQubits /\ NumQubits \in Nat /\ 0 \in 0..NumQubits
  BY QubitsAssumption
<1>2. d \in Edge(V) /\ e \in Edge(V) /\ d.w \in Weight /\ e.w \in Weight
  BY <1>1, LevFacts
<1>3. innerProductRec[<<d, e, 0>>] = innerStep(innerProductRec, d, e, 0)
  BY <1>1, <1>2, InnerEquation
<1>4. innerStep(innerProductRec, d, e, 0) = IF isZero(d.w) \/ isZero(e.w) THEN Zero ELSE Multiply(dw, e.w)
  <2>1. 0 \in Nat
    OBVIOUS
  <2> QED BY <2>1, InnerStepAt
<1>5. f \in [Nat -> Weight] /\ f[0] = Multiply(conjugate(Read(V, d, 0, 0, 0)), Read(V, e, 0, 0, 0))
  BY <1>1, InnerTermsType
<1>6. Read(V, d, 0, 0, 0) = d.w /\ Read(V, e, 0, 0, 0) = e.w
  BY <1>1, ReadType
<1>7. f[0] = Multiply(dw, e.w)
  BY <1>5, <1>6
<1> HIDE DEF f
<1>8. Total(f)[1] = f[0]
  <2>1. Total(f)[0] = Zero
    BY <1>1, <1>5, TotalDef
  <2> DEFINE one == 1
  <2>2. one \in Nat /\ one # 0 /\ one - 1 = 0
    OBVIOUS
  <2> HIDE DEF one
  <2>3. Total(f)[one] = Add(Total(f)[one - 1], f[one - 1])
    BY <1>5, <2>2, TotalDef
  <2>4. Total(f)[one] = Add(Zero, f[0])
    BY <2>1, <2>2, <2>3
  <2>5. f[0] \in Weight
    BY <1>5
  <2>6. Add(Zero, f[0]) = f[0]
    BY <2>5, SumLaws
  <2> QED BY <2>4, <2>6 DEF one
<1>9. Pow2[0] = 1
  BY Pow2Def
<1>10. dw \in Weight /\ conjugate(Zero) = Zero
  BY <1>2, SumLaws
<1>11. isZero(d.w) \/ isZero(e.w) => Multiply(dw, e.w) = Zero
  BY <1>2, <1>10, ZeroFactor
<1> QED BY <1>3, <1>4, <1>7, <1>8, <1>9, <1>11 DEF Inner, f

\* ... of edges of one level, if it returns the sums for those below.
LEMMA InnerStep ==
    ASSUME NEW k \in Nat, k < NumQubits, SumsInner(k), NEW d \in Lev(V, k + 1), NEW e \in Lev(V, k + 1)
    PROVE  innerProductRec[<<d, e, k + 1>>] = Inner(d, e, k + 1)
<1> DEFINE n == k + 1
           P == Pow2[k]
           d0 == Kid(V, d, 0, 0, k)
           d1 == Kid(V, d, P, 0, k)
           e0 == Kid(V, e, 0, 0, k)
           e1 == Kid(V, e, P, 0, k)
           dw == conjugate(d.w)
           c == Multiply(dw, e.w)
           s == Inner(d0, e0, k)
           t == Inner(d1, e1, k)
<1>1. n \in Nat /\ n <= NumQubits /\ k <= NumQubits /\ n \in 0..NumQubits /\ V \in {V, M} /\ NumQubits \in Nat
  BY QubitsAssumption
<1>2. P \in Nat /\ 0 \in Nat
  BY Pow2Def
<1>3. d0 \in Lev(V, k) /\ d1 \in Lev(V, k) /\ d.w \in Weight
  BY <1>1, <1>2, PartType
<1>4. e0 \in Lev(V, k) /\ e1 \in Lev(V, k) /\ e.w \in Weight
  BY <1>1, <1>2, PartType
<1>5. d \in Edge(V) /\ e \in Edge(V)
  BY <1>1, LevFacts
<1>6. innerProductRec[<<d, e, n>>] = innerStep(innerProductRec, d, e, n)
  BY <1>1, <1>5, InnerEquation
<1>7. innerStep(innerProductRec, d, e, n) =
         IF isZero(d.w) \/ isZero(e.w) THEN Zero
         ELSE Multiply(c, Add(innerProductRec[<<d0, e0, k>>], innerProductRec[<<d1, e1, k>>]))
  BY InnerStepAt
<1>8. Inner(d, e, n) = Multiply(c, Add(s, t))
  BY InnerKids
<1> HIDE DEF d0, d1, e0, e1, n
<1>9. innerProductRec[<<d0, e0, k>>] = s /\ innerProductRec[<<d1, e1, k>>] = t
  BY <1>3, <1>4 DEF SumsInner
<1>10. s \in Weight /\ t \in Weight
  BY <1>1, <1>3, <1>4, InnerTermsType
<1> HIDE DEF s, t
<1>11. dw \in Weight /\ conjugate(Zero) = Zero
  BY <1>3, SumLaws
<1>12. Add(s, t) \in Weight
  BY <1>10, WeightLaws
<1>13. isZero(d.w) \/ isZero(e.w) => c = Zero
  BY <1>3, <1>4, ZeroFactor
<1> HIDE DEF c
<1>14. c = Zero => Multiply(c, Add(s, t)) = Zero
  BY <1>12, WeightLaws
<1> QED BY <1>6, <1>7, <1>8, <1>9, <1>13, <1>14 DEF n

\* ... of all edges of a level.
LEMMA InnerIsSum ==
    ASSUME NEW n \in Nat, n <= NumQubits, NEW d \in Lev(V, n), NEW e \in Lev(V, n)
    PROVE  innerProductRec[<<d, e, n>>] = Inner(d, e, n)
<1> DEFINE S == {k \in 0..NumQubits : SumsInner(k)}
<1>1. NumQubits \in Nat /\ 0 <= NumQubits /\ 0 \in Nat
  BY QubitsAssumption
<1>2. 0 \in S
  BY <1>1, InnerTerminals
<1>3. \A k \in 0..NumQubits : k # 0 /\ k - 1 \in S => k \in S
  <2> SUFFICES ASSUME NEW k \in 0..NumQubits, k # 0, k - 1 \in S PROVE SumsInner(k)
    OBVIOUS
  <2> DEFINE l == k - 1
  <2>1. l \in Nat /\ l < NumQubits /\ k = l + 1 /\ l \in S
    BY <1>1
  <2>2. SumsInner(l)
    BY <2>1
  <2> HIDE DEF l
  <2>3. ASSUME NEW b \in Lev(V, l + 1), NEW c \in Lev(V, l + 1)
        PROVE innerProductRec[<<b, c, l + 1>>] = Inner(b, c, l + 1)
    BY <2>1, <2>2, InnerStep
  <2> QED BY <2>1, <2>3 DEF SumsInner
<1> HIDE DEF S
<1>4. 0..NumQubits \subseteq S
  BY <1>1, <1>2, <1>3, CountInduction
<1>5. n \in S
  BY <1>1, <1>4
<1> QED BY <1>5 DEF S, SumsInner

(***************************************************************************)
(* innerProduct(d, e) is the sum over all basis states of the amplitudes   *)
(* of e times the conjugates of those of d, also where both skip a level.  *)
(***************************************************************************)
THEOREM InnerIsDot ==
    ASSUME NEW d \in Edge(V), NEW e \in Edge(V)
    PROVE  innerProduct(d, e) = Algebra!Dot(Conjugates(Vector(d)), Vector(e))
<1> DEFINE n == NumQubits
           P == Pow2[n]
           f == InnerTerms(d, e, n)
           p == Conjugates(Vector(d))
           q == Vector(e)
<1>1. V \in {V, M} /\ n \in Nat /\ n <= NumQubits /\ P \in Nat /\ Positions = 1..P /\ 0 \in Nat
  BY AlgebraIndices DEF Positions
<1>2. d \in Lev(V, n) /\ e \in Lev(V, n)
  BY EdgeLev
<1>3. /\ f \in [Nat -> Weight]
      /\ \A k \in Nat : f[k] = Multiply(conjugate(Read(V, d, k, 0, n)), Read(V, e, k, 0, n))
  BY <1>1, <1>2, InnerTermsType
<1>4. /\ Vector(d) \in [Positions -> Weight] /\ \A i \in Positions : Vector(d)[i] = Read(V, d, i - 1, 0, n)
      /\ Vector(e) \in [Positions -> Weight] /\ \A i \in Positions : Vector(e)[i] = Read(V, e, i - 1, 0, n)
  BY <1>1, VectorEntry
<1>5. p \in [1..P -> Weight] /\ \A i \in Positions : p[i] = conjugate(Vector(d)[i])
  <2>1. \A i \in Positions : conjugate(Vector(d)[i]) \in Weight
    BY <1>4, SumLaws
  <2> QED BY <1>1, <1>4, <2>1 DEF Conjugates
<1> HIDE DEF f, p, n, P
<1>6. \A k \in Nat : k < P => f[k] = Multiply(p[k + 1], q[k + 1])
  <2> SUFFICES ASSUME NEW k \in Nat, k < P PROVE f[k] = Multiply(p[k + 1], q[k + 1])
    OBVIOUS
  <2> DEFINE l == k + 1
  <2>1. l \in Positions /\ l - 1 = k
    BY <1>1
  <2> HIDE DEF l
  <2>2. p[l] = conjugate(Read(V, d, k, 0, n)) /\ q[l] = Read(V, e, k, 0, n)
    BY <1>4, <1>5, <2>1
  <2> QED BY <1>3, <2>2 DEF l
<1>7. Algebra!Dot(p, q) = Total(f)[P]
  <2> HIDE DEF q
  <2> QED BY <1>1, <1>3, <1>5, <1>6, DotIsTotal
<1>8. innerProduct(d, e) = Inner(d, e, n)
  BY <1>1, <1>2, InnerIsSum DEF innerProduct, n
<1> QED BY <1>7, <1>8 DEF Inner, f, P, p

\* The sum of four weights.
LEMMA FourTerms ==
    ASSUME NEW c \in Weight, NEW d \in Weight, NEW s \in Weight, NEW t \in Weight
    PROVE  Add(Add(c, d), Add(s, t)) = Add(Add(c, s), Add(d, t))
<1> DEFINE ds == Add(d, s)
           st == Add(s, t)
           dt == Add(d, t)
<1>1. ds \in Weight /\ st \in Weight /\ dt \in Weight /\ ds = Add(s, d)
  BY SumLaws, WeightLaws
<1>2. Add(Add(c, d), st) = Add(c, Add(d, st))
  BY <1>1, SumLaws
<1>3. Add(d, st) = Add(ds, t)
  BY <1>1, SumLaws
<1>4. Add(ds, t) = Add(s, dt)
  BY <1>1, SumLaws
<1>5. Add(c, Add(s, dt)) = Add(Add(c, s), dt)
  <2> HIDE DEF dt
  <2> QED BY <1>1, SumLaws
<1> QED BY <1>2, <1>3, <1>4, <1>5

\* A sum of sums.
LEMMA TotalSum ==
    ASSUME NEW f \in [Nat -> Weight], NEW g \in [Nat -> Weight], NEW h \in [Nat -> Weight], NEW n \in Nat,
           \A k \in Nat : k < n => h[k] = Add(f[k], g[k])
    PROVE  Total(h)[n] = Add(Total(f)[n], Total(g)[n])
<1> DEFINE S == {k \in Nat : k <= n => Total(h)[k] = Add(Total(f)[k], Total(g)[k])}
<1>1. 0 \in S
  <2>1. 0 \in Nat
    OBVIOUS
  <2>2. Total(h)[0] = Zero /\ Total(g)[0] = Zero /\ Total(f)[0] = Zero
    BY <2>1, TotalDef
  <2>3. Zero \in Weight
    BY WeightLaws
  <2>4. Add(Zero, Zero) = Zero
    BY <2>3, SumLaws
  <2> QED BY <2>2, <2>4
<1>2. ASSUME NEW k \in Nat, k \in S PROVE k + 1 \in S
  <2> SUFFICES ASSUME k + 1 <= n PROVE Total(h)[k + 1] = Add(Total(f)[k + 1], Total(g)[k + 1])
    OBVIOUS
  <2> DEFINE l == k + 1
             F0 == Total(f)[k]
             G0 == Total(g)[k]
  <2>1. l \in Nat /\ l # 0 /\ l - 1 = k /\ k < n
    OBVIOUS
  <2>2. Total(h)[k] = Add(F0, G0)
    BY <1>2
  <2> HIDE DEF l
  <2>3. /\ Total(h)[l] = Add(Total(h)[l - 1], h[l - 1]) /\ Total(f)[l] = Add(Total(f)[l - 1], f[l - 1])
        /\ Total(g)[l] = Add(Total(g)[l - 1], g[l - 1])
    BY <2>1, TotalDef
  <2>4. F0 \in Weight /\ G0 \in Weight /\ f[k] \in Weight /\ g[k] \in Weight
    BY TotalDef
  <2>5. h[k] = Add(f[k], g[k])
    BY <2>1
  <2>6. /\ Total(h)[l] = Add(Add(F0, G0), Add(f[k], g[k]))
        /\ Total(f)[l] = Add(F0, f[k]) /\ Total(g)[l] = Add(G0, g[k])
    BY <2>1, <2>2, <2>3, <2>5
  <2> HIDE DEF F0, G0
  <2>7. Add(Add(F0, G0), Add(f[k], g[k])) = Add(Add(F0, f[k]), Add(G0, g[k]))
    BY <2>4, FourTerms
  <2> QED BY <2>6, <2>7 DEF l
<1>3. n \in S
  <2> HIDE DEF S
  <2>1. Nat \subseteq S
    BY <1>1, <1>2, TotalInduction
  <2> QED BY <2>1
<1> QED BY <1>3

\* What the state after a measurement is read to be.
LEMMA ReadMeasured ==
    ASSUME strategy \in Strategies, NEW e \in Edge(V), NEW qubit \in 0..NumQubits - 1, NEW outcome \in BOOLEAN
    PROVE  /\ measureOneQubit(e, qubit, outcome).state \in Edge(V)
           /\ \A k \in Nat : k < Pow2[NumQubits] =>
                 Read(V, measureOneQubit(e, qubit, outcome).state, k, 0, NumQubits)
                    = IF Bit(k, qubit) = IF outcome THEN 1 ELSE 0 THEN Read(V, e, k, 0, NumQubits) ELSE Zero
<1> DEFINE s == measureOneQubit(e, qubit, outcome).state
           bit == IF outcome THEN 1 ELSE 0
           n == NumQubits
           nodes == Nodes(V, 0)
<1>1. V \in {V, M} /\ n \in Nat /\ 0 \in Nat /\ qubit \in Qubit
  BY AlgebraIndices DEF Qubit
<1>2. s \in Edge(V)
  <2>1. Family(V, "Any", nodes) /\ Makes("Any") /\ Edge(V) = EdgesTo(nodes[n])
    BY <1>1, LevFacts DEF Edge
  <2> HIDE DEF nodes
  <2> QED BY <1>1, <2>1, MeasuredEdges
<1>3. Vector(s) = Algebra!Projection(Vector(e), qubit, bit)
  BY MeasureIsProjection
<1> HIDE DEF s, bit
<1>4. ASSUME NEW k \in Nat, k < Pow2[n]
      PROVE  Read(V, s, k, 0, n) = IF Bit(k, qubit) = bit THEN Read(V, e, k, 0, n) ELSE Zero
  <2> DEFINE i == k + 1
  <2>1. i \in Positions /\ i - 1 = k
    BY <1>4, AlgebraIndices
  <2> HIDE DEF i
  <2>2. Vector(s)[i] = Read(V, s, k, 0, n)
    BY <1>1, <1>2, <2>1, VectorEntry
  <2>3. Vector(e)[i] = Read(V, e, k, 0, n)
    BY <1>1, <2>1, VectorEntry
  <2>4. Algebra!Bit(i, qubit) = Bit(k, qubit)
    BY <2>1, AlgebraIndices DEF Algebra!Bit, Bit
  <2>5. Vector(s)[i] = IF Algebra!Bit(i, qubit) = bit THEN Vector(e)[i] ELSE Zero
    BY <1>3, <2>1, AlgebraIndices DEF Algebra!Projection
  <2> QED BY <2>2, <2>3, <2>4, <2>5
<1> QED BY <1>2, <1>4 DEF s, bit

\* The norm of an edge is a sum over its amplitudes.
LEMMA NormIsTotal ==
    ASSUME NEW e \in Edge(V)
    PROVE  /\ innerProduct(e, e) = Total(InnerTerms(e, e, NumQubits))[Pow2[NumQubits]]
           /\ InnerTerms(e, e, NumQubits) \in [Nat -> Weight]
           /\ \A k \in Nat : /\ Read(V, e, k, 0, NumQubits) \in Weight
                             /\ InnerTerms(e, e, NumQubits)[k]
                                   = Multiply(conjugate(Read(V, e, k, 0, NumQubits)), Read(V, e, k, 0, NumQubits))
           /\ innerProduct(e, e) \in Weight
<1> DEFINE n == NumQubits
<1>1. V \in {V, M} /\ n \in Nat /\ n <= n /\ 0 \in Nat
  BY AlgebraIndices
<1>2. e \in Lev(V, n)
  BY EdgeLev
<1> HIDE DEF n
<1>3. n <= NumQubits
  BY <1>1 DEF n
<1>4. \A k \in Nat : Read(V, e, k, 0, n) \in Weight
  BY <1>1, <1>2, <1>3, ReadType
<1>5. /\ InnerTerms(e, e, n) \in [Nat -> Weight]
      /\ \A k \in Nat : InnerTerms(e, e, n)[k] = Multiply(conjugate(Read(V, e, k, 0, n)), Read(V, e, k, 0, n))
      /\ Inner(e, e, n) \in Weight
  BY <1>1, <1>2, <1>3, InnerTermsType
<1>6. innerProduct(e, e) = Inner(e, e, n)
  BY <1>1, <1>2, <1>3, InnerIsSum DEF innerProduct, n
<1> QED BY <1>4, <1>5, <1>6 DEF Inner, n

\* The two outcomes of a measurement share the norm between them.
LEMMA OutcomesAddUp ==
    ASSUME strategy \in Strategies, NEW e \in Edge(V), NEW qubit \in 0..NumQubits - 1
    PROVE  Add(measureOneQubit(e, qubit, FALSE).probability, measureOneQubit(e, qubit, TRUE).probability)
              = innerProduct(e, e)
<1> DEFINE n == NumQubits
           P == Pow2[n]
           s == measureOneQubit(e, qubit, FALSE).state
           t == measureOneQubit(e, qubit, TRUE).state
           f == InnerTerms(s, s, n)
           g == InnerTerms(t, t, n)
           h == InnerTerms(e, e, n)
<1>1. /\ measureOneQubit(e, qubit, FALSE).probability = innerProduct(s, s)
      /\ measureOneQubit(e, qubit, TRUE).probability = innerProduct(t, t)
  BY DEF measureOneQubit, Measured
<1>2. /\ s \in Edge(V)
      /\ \A k \in Nat : k < P => Read(V, s, k, 0, n) = IF Bit(k, qubit) = 0 THEN Read(V, e, k, 0, n) ELSE Zero
  BY ReadMeasured
<1>3. /\ t \in Edge(V)
      /\ \A k \in Nat : k < P => Read(V, t, k, 0, n) = IF Bit(k, qubit) = 1 THEN Read(V, e, k, 0, n) ELSE Zero
  BY ReadMeasured
<1> HIDE DEF s, t
<1>4. P \in Nat /\ qubit \in Nat
  BY AlgebraIndices
<1>5. /\ innerProduct(s, s) = Total(f)[P] /\ f \in [Nat -> Weight]
      /\ \A k \in Nat : f[k] = Multiply(conjugate(Read(V, s, k, 0, n)), Read(V, s, k, 0, n))
  BY <1>2, NormIsTotal
<1>6. /\ innerProduct(t, t) = Total(g)[P] /\ g \in [Nat -> Weight]
      /\ \A k \in Nat : g[k] = Multiply(conjugate(Read(V, t, k, 0, n)), Read(V, t, k, 0, n))
  BY <1>3, NormIsTotal
<1>7. /\ innerProduct(e, e) = Total(h)[P] /\ h \in [Nat -> Weight]
      /\ \A k \in Nat : h[k] = Multiply(conjugate(Read(V, e, k, 0, n)), Read(V, e, k, 0, n))
  BY NormIsTotal
<1> HIDE DEF f, g, h, P
<1>8. ASSUME NEW k \in Nat, k < P PROVE h[k] = Add(f[k], g[k])
  <2> DEFINE w == Read(V, e, k, 0, n)
             z == Multiply(conjugate(w), w)
  <2>1. Bit(k, qubit) \in {0, 1}
    BY <1>4, BitType
  <2>2. h[k] = z /\ h[k] \in Weight
    BY <1>7
  <2>3. Zero \in Weight
    BY WeightLaws
  <2>4. isZero(Zero)
    BY <2>3, WeightLaws
  <2>5. Multiply(conjugate(Zero), Zero) = Zero
    BY <2>3, <2>4, ZeroFactor
  <2>6. CASE Bit(k, qubit) = 0
    <3>1. Read(V, s, k, 0, n) = w /\ Read(V, t, k, 0, n) = Zero
      BY <1>2, <1>3, <1>8, <2>6
    <3>2. f[k] = z /\ g[k] = Zero
      BY <1>5, <1>6, <2>5, <3>1
    <3> HIDE DEF z
    <3> QED BY <2>2, <3>2, SumLaws
  <2>7. CASE Bit(k, qubit) = 1
    <3>1. Read(V, t, k, 0, n) = w /\ Read(V, s, k, 0, n) = Zero
      BY <1>2, <1>3, <1>8, <2>7
    <3>2. g[k] = z /\ f[k] = Zero
      BY <1>5, <1>6, <2>5, <3>1
    <3> HIDE DEF z
    <3> QED BY <2>2, <3>2, SumLaws
  <2> QED BY <2>1, <2>6, <2>7
<1>9. Total(h)[P] = Add(Total(f)[P], Total(g)[P])
  BY <1>4, <1>5, <1>6, <1>7, <1>8, TotalSum
<1> QED BY <1>1, <1>5, <1>6, <1>7, <1>9 DEF s, t

\* A sum of zeros.
LEMMA TotalZero ==
    ASSUME NEW f \in [Nat -> Weight], NEW n \in Nat, \A k \in Nat : k < n => f[k] = Zero
    PROVE  Total(f)[n] = Zero
<1>1. Zero \in Weight
  BY WeightLaws
<1>2. \A k \in Nat : k < n => f[k] = Multiply(Zero, f[k])
  BY WeightLaws
<1>3. Total(f)[n] = Multiply(Zero, Total(f)[n])
  BY <1>1, <1>2, TotalScaled
<1>4. Total(f)[n] \in Weight
  BY TotalDef
<1> QED BY <1>3, <1>4, WeightLaws

(***************************************************************************)
(* After a measurement the amplitudes of the other outcome are 0.          *)
(***************************************************************************)
OutcomeBit(outcome) == IF outcome THEN 1 ELSE 0

Collapsed ==
    op # <<>> /\ op[1] = "measure" =>
        /\ op[2] \in Qubit /\ op[3] \in BOOLEAN
        /\ \A i \in Positions : Bit(i - 1, op[2]) # OutcomeBit(op[3]) => u[i] = Zero

\* Measuring again gives the other outcome with probability 0.
LEMMA OtherOutcome ==
    ASSUME IInv, Collapsed, op # <<>>, op[1] = "measure"
    PROVE  measureOneQubit(x, op[2], ~op[3]).probability = Zero
<1> DEFINE n == NumQubits
           P == Pow2[n]
           qubit == op[2]
           other == ~op[3]
           t == measureOneQubit(x, qubit, other).state
           g == InnerTerms(t, t, n)
<1>1. strategy \in Strategies /\ x \in Edge(V) /\ u = Vector(x)
  BY ReducedFacts DEF IInv
<1>2. qubit \in 0..n - 1 /\ op[3] \in BOOLEAN /\ other \in BOOLEAN
      /\ \A i \in Positions : Bit(i - 1, qubit) # OutcomeBit(op[3]) => u[i] = Zero
  BY DEF Collapsed, Qubit
<1>3. measureOneQubit(x, qubit, other).probability = innerProduct(t, t)
  BY DEF measureOneQubit, Measured
<1>4. OutcomeBit(other) # OutcomeBit(op[3])
  BY <1>2 DEF OutcomeBit
<1> HIDE DEF other, qubit
<1>5. /\ t \in Edge(V)
      /\ \A k \in Nat : k < P =>
            Read(V, t, k, 0, n) = IF Bit(k, qubit) = OutcomeBit(other) THEN Read(V, x, k, 0, n) ELSE Zero
  BY <1>1, <1>2, ReadMeasured DEF OutcomeBit
<1> HIDE DEF t
<1>6. /\ innerProduct(t, t) = Total(g)[P] /\ g \in [Nat -> Weight]
      /\ \A k \in Nat : g[k] = Multiply(conjugate(Read(V, t, k, 0, n)), Read(V, t, k, 0, n))
  BY <1>5, NormIsTotal
<1> HIDE DEF g
<1>7. ASSUME NEW k \in Nat, k < P PROVE g[k] = Zero
  <2> DEFINE i == k + 1
  <2>1. i \in Positions /\ i - 1 = k /\ 0 \in Nat
    BY <1>7, AlgebraIndices
  <2> HIDE DEF i
  <2>2. u[i] = Read(V, x, k, 0, n)
    BY <1>1, <2>1, VectorEntry
  <2>3. Bit(k, qubit) = OutcomeBit(other) => Read(V, x, k, 0, n) = Zero
    BY <1>2, <1>4, <2>1, <2>2
  <2>4. Read(V, t, k, 0, n) = Zero
    BY <1>5, <1>7, <2>3
  <2>5. Zero \in Weight /\ isZero(Zero)
    BY WeightLaws
  <2>6. Multiply(conjugate(Zero), Zero) = Zero
    BY <2>5, ZeroFactor
  <2> QED BY <1>6, <2>4, <2>6
<1>8. P \in Nat
  BY AlgebraIndices
<1> HIDE DEF P
<1>9. Total(g)[P] = Zero
  BY <1>6, <1>7, <1>8, TotalZero
<1> QED BY <1>3, <1>6, <1>9 DEF t, other, qubit

\* What MeasurementsComplete says of one state.
LEMMA CompleteNow == IInv /\ Collapsed => MeasurementsComplete
<1> SUFFICES ASSUME IInv, Collapsed PROVE MeasurementsComplete
  OBVIOUS
<1> SUFFICES ASSUME NEW qubit \in Qubit
             PROVE  LET p == Probabilities(x, qubit)
                    IN  /\ Add(p[FALSE], p[TRUE]) = innerProduct(x, x)
                        /\ op # <<>> /\ op[1] = "measure" /\ op[2] = qubit => isZero(p[~op[3]])
  BY DEF MeasurementsComplete
<1> DEFINE p == Probabilities(x, qubit)
<1>1. strategy \in Strategies /\ x \in Edge(V) /\ qubit \in 0..NumQubits - 1
  BY ReducedFacts DEF Qubit
<1>2. \A outcome \in BOOLEAN : p[outcome] = measureOneQubit(x, qubit, outcome).probability
  BY DEF Probabilities
<1>3. Add(p[FALSE], p[TRUE]) = innerProduct(x, x)
  <2>1. p[FALSE] = measureOneQubit(x, qubit, FALSE).probability /\ p[TRUE] = measureOneQubit(x, qubit, TRUE).probability
    BY <1>2
  <2> HIDE DEF p
  <2> QED BY <1>1, <2>1, OutcomesAddUp
<1> HIDE DEF p
<1>4. ASSUME op # <<>>, op[1] = "measure", op[2] = qubit PROVE isZero(p[~op[3]])
  <2>1. op[3] \in BOOLEAN
    BY <1>4 DEF Collapsed
  <2> DEFINE other == ~op[3]
  <2>2. other \in BOOLEAN
    BY <2>1
  <2>3. measureOneQubit(x, op[2], other).probability = Zero
    BY <1>4, OtherOutcome
  <2> HIDE DEF other
  <2>4. p[other] = Zero
    BY <1>2, <1>4, <2>2, <2>3
  <2>5. isZero(Zero)
    BY WeightLaws
  <2> QED BY <2>4, <2>5 DEF other
<1> QED BY <1>3, <1>4 DEF p

\* A measurement leaves nothing of the other outcome.
LEMMA MeasureCollapses ==
    ASSUME IInv, NEW qubit \in Qubit, NEW outcome \in BOOLEAN, measure(qubit, outcome)
    PROVE  Collapsed'
<1> DEFINE s == measureOneQubit(x, qubit, outcome).state
<1>1. op' = <<"measure", qubit, outcome>> /\ u' = Vector(s)
  BY DEF measure, VectorBecomes, Step
<1>2. strategy \in Strategies /\ x \in Edge(V) /\ qubit \in 0..NumQubits - 1
  BY ReducedFacts DEF Qubit
<1>3. Vector(s) = Algebra!Projection(Vector(x), qubit, OutcomeBit(outcome))
  BY <1>2, MeasureIsProjection DEF OutcomeBit
<1> HIDE DEF s
<1>4. ASSUME NEW i \in Positions, Bit(i - 1, qubit) # OutcomeBit(outcome) PROVE u'[i] = Zero
  <2>1. Algebra!Bit(i, qubit) = Bit(i - 1, qubit)
    BY AlgebraIndices DEF Algebra!Bit, Bit
  <2>2. Algebra!Projection(Vector(x), qubit, OutcomeBit(outcome))[i]
           = IF Algebra!Bit(i, qubit) = OutcomeBit(outcome) THEN Vector(x)[i] ELSE Zero
    BY AlgebraIndices DEF Algebra!Projection
  <2> QED BY <1>1, <1>3, <1>4, <2>1, <2>2
<1>5. op'[2] = qubit /\ op'[3] = outcome
  BY <1>1
<1>6. op'[2] \in Qubit /\ op'[3] \in BOOLEAN
  BY <1>5
<1>7. \A i \in Positions : Bit(i - 1, op'[2]) # OutcomeBit(op'[3]) => u'[i] = Zero
  BY <1>4, <1>5
<1> HIDE DEF s
<1> QED BY <1>6, <1>7 DEF Collapsed

\* No other operation claims to be a measurement.
LEMMA OtherSteps ==
    ASSUME Next
    PROVE  \/ \E qubit \in Qubit, outcome \in BOOLEAN : measure(qubit, outcome)
           \/ op'[1] # "measure"
           \/ UNCHANGED vars
<1> USE DEF VectorBecomes, MatrixBecomes, Step
<1>1. CASE addVectors
  BY <1>1 DEF addVectors
<1>2. CASE applyMatrix
  BY <1>2 DEF applyMatrix
<1>3. CASE outer
  BY <1>3 DEF outer
<1>4. CASE swap
  BY <1>4 DEF swap
<1>5. ASSUME NEW k, kroneckerVectors(k) \/ kroneckerInPlace(k) PROVE op'[1] # "measure"
  <2>1. CASE kroneckerVectors(k)
    <3>1. op' = <<"kronecker", k>>
      BY <2>1 DEF kroneckerVectors
    <3> QED BY <3>1
  <2>2. CASE kroneckerInPlace(k)
    <3>1. op' = <<"kroneckerInPlace">>
      BY <2>2 DEF kroneckerInPlace
    <3> QED BY <3>1
  <2> QED BY <1>5, <2>1, <2>2
<1>6. ASSUME NEW r, NEW g, applyGate(r, g) \/ makeGate(r, g) \/ multiplyMatrices(r, g) PROVE op'[1] # "measure"
  BY <1>6 DEF applyGate, makeGate, multiplyMatrices
<1>7. ASSUME NEW r, NEW g, NEW k, kroneckerMatrices(r, g, k) PROVE op'[1] # "measure"
  BY <1>7 DEF kroneckerMatrices
<1>8. CASE finished
  BY <1>8 DEF finished
<1> QED BY <1>1, <1>2, <1>3, <1>4, <1>5, <1>6, <1>7, <1>8 DEF Next

(***************************************************************************)
(* The outcomes of a measurement exhaust the norm, whatever the state and  *)
(* the qubit; right after it the other outcome has probability 0, however  *)
(* the state was computed.                                                 *)
(***************************************************************************)
THEOREM MeasurementsAlwaysComplete == Spec => []MeasurementsComplete
<1>1. Init => IInv /\ Collapsed
  <2>1. Init => Collapsed
    BY DEF Init, Collapsed
  <2> QED BY <2>1, InitReduced
<1>2. IInv /\ Collapsed /\ [Next]_vars => IInv' /\ Collapsed'
  <2> SUFFICES ASSUME IInv, Collapsed, [Next]_vars PROVE IInv' /\ Collapsed'
    OBVIOUS
  <2>1. IInv'
    BY NextReduced
  <2>2. CASE UNCHANGED vars
    BY <2>1, <2>2 DEF vars, Collapsed, Positions, Bit, OutcomeBit, Qubit
  <2>3. CASE op'[1] # "measure"
    BY <2>1, <2>3 DEF Collapsed
  <2>4. CASE \E qubit \in Qubit, outcome \in BOOLEAN : measure(qubit, outcome)
    BY <2>1, <2>4, MeasureCollapses
  <2> QED BY <2>2, <2>3, <2>4, OtherSteps
<1> QED BY <1>1, <1>2, CompleteNow, PTL DEF Spec

(***************************************************************************)
(* The inner product of two sequences of amplitudes.                       *)
(***************************************************************************)
Products(p, q) == [k \in Nat |-> Multiply(conjugate(p[k]), q[k])]
Pairing(p, q, n) == Total(Products(p, q))[n]

\* It is a number.
LEMMA PairingType ==
    ASSUME NEW p \in [Nat -> Weight], NEW q \in [Nat -> Weight], NEW n \in Nat
    PROVE  /\ Products(p, q) \in [Nat -> Weight] /\ Pairing(p, q, n) \in Weight
           /\ \A k \in Nat : Products(p, q)[k] = Multiply(conjugate(p[k]), q[k])
<1>1. \A k \in Nat : Multiply(conjugate(p[k]), q[k]) \in Weight
  <2> SUFFICES ASSUME NEW k \in Nat PROVE Multiply(conjugate(p[k]), q[k]) \in Weight
    OBVIOUS
  <2>1. p[k] \in Weight /\ q[k] \in Weight
    OBVIOUS
  <2>2. conjugate(p[k]) \in Weight
    BY <2>1, SumLaws
  <2> QED BY <2>1, <2>2, WeightLaws
<1>2. /\ Products(p, q) \in [Nat -> Weight]
      /\ \A k \in Nat : Products(p, q)[k] = Multiply(conjugate(p[k]), q[k])
  BY <1>1 DEF Products
<1> QED BY <1>2, TotalDef DEF Pairing

\* The sum of conjugates is the conjugate of the sum.
LEMMA TotalConjugate ==
    ASSUME NEW f \in [Nat -> Weight], NEW g \in [Nat -> Weight], NEW n \in Nat,
           \A k \in Nat : k < n => g[k] = conjugate(f[k])
    PROVE  Total(g)[n] = conjugate(Total(f)[n])
<1> DEFINE S == {k \in Nat : k <= n => Total(g)[k] = conjugate(Total(f)[k])}
<1>1. 0 \in S
  <2>1. 0 \in Nat
    OBVIOUS
  <2>2. Total(f)[0] = Zero /\ Total(g)[0] = Zero
    BY <2>1, TotalDef
  <2>3. Zero \in Weight
    BY WeightLaws
  <2>4. conjugate(Zero) = Zero
    BY <2>3, SumLaws
  <2> QED BY <2>2, <2>4
<1>2. ASSUME NEW k \in Nat, k \in S PROVE k + 1 \in S
  <2> SUFFICES ASSUME k + 1 <= n PROVE Total(g)[k + 1] = conjugate(Total(f)[k + 1])
    OBVIOUS
  <2> DEFINE l == k + 1
             F0 == Total(f)[k]
  <2>1. l \in Nat /\ l # 0 /\ l - 1 = k /\ k < n
    OBVIOUS
  <2>2. Total(g)[k] = conjugate(F0)
    BY <1>2
  <2> HIDE DEF l
  <2>3. /\ Total(f)[l] = Add(Total(f)[l - 1], f[l - 1])
        /\ Total(g)[l] = Add(Total(g)[l - 1], g[l - 1])
    BY <2>1, TotalDef
  <2>4. F0 \in Weight /\ f[k] \in Weight
    BY TotalDef
  <2>5. g[k] = conjugate(f[k])
    BY <2>1
  <2>6. Total(f)[l] = Add(F0, f[k]) /\ Total(g)[l] = Add(conjugate(F0), conjugate(f[k]))
    BY <2>1, <2>2, <2>3, <2>5
  <2> HIDE DEF F0
  <2>7. conjugate(Add(F0, f[k])) = Add(conjugate(F0), conjugate(f[k]))
    BY <2>4, ConjugateSums
  <2> QED BY <2>6, <2>7 DEF l
<1>3. n \in S
  <2> HIDE DEF S
  <2>1. Nat \subseteq S
    BY <1>1, <1>2, TotalInduction
  <2> QED BY <2>1
<1> QED BY <1>3

\* Exchanging the sequences conjugates it.
LEMMA PairingConjugate ==
    ASSUME NEW p \in [Nat -> Weight], NEW q \in [Nat -> Weight], NEW n \in Nat
    PROVE  Pairing(q, p, n) = conjugate(Pairing(p, q, n))
<1> DEFINE f == Products(p, q)
           g == Products(q, p)
<1>1. f \in [Nat -> Weight] /\ \A k \in Nat : f[k] = Multiply(conjugate(p[k]), q[k])
  BY PairingType
<1>2. g \in [Nat -> Weight] /\ \A k \in Nat : g[k] = Multiply(conjugate(q[k]), p[k])
  BY PairingType
<1> HIDE DEF f, g
<1>3. ASSUME NEW k \in Nat PROVE g[k] = conjugate(f[k])
  <2> DEFINE w == p[k]
             z == q[k]
             cw == conjugate(w)
             cz == conjugate(z)
  <2>1. w \in Weight /\ z \in Weight
    OBVIOUS
  <2> HIDE DEF w, z
  <2>2. cw \in Weight /\ cz \in Weight
    BY <2>1, SumLaws
  <2>3. conjugate(cw) = w
    BY <2>1, ConjugateSums
  <2> HIDE DEF cw
  <2>4. conjugate(Multiply(cw, z)) = Multiply(conjugate(cw), conjugate(z))
    BY <2>1, <2>2, SumLaws
  <2>5. conjugate(Multiply(cw, z)) = Multiply(w, cz)
    BY <2>3, <2>4
  <2> HIDE DEF cz
  <2>6. Multiply(w, cz) = Multiply(cz, w)
    BY <2>1, <2>2, WeightLaws
  <2> QED BY <1>1, <1>2, <2>5, <2>6 DEF w, z, cw, cz
<1>4. Total(g)[n] = conjugate(Total(f)[n])
  BY <1>1, <1>2, <1>3, TotalConjugate
<1> QED BY <1>4 DEF Pairing, f, g

\* A sum of norms is not negative, and it is 0 only if each of them is.
LEMMA NormTotal ==
    ASSUME NEW f \in [Nat -> Weight], NEW n \in Nat, \A k \in Nat : NormLike(f[k])
    PROVE  NormLike(Total(f)[n]) /\ (Total(f)[n] = Zero => \A k \in Nat : k < n => f[k] = Zero)
<1> DEFINE S == {l \in Nat : /\ NormLike(Total(f)[l])
                             /\ Total(f)[l] = Zero => \A k \in Nat : k < l => f[k] = Zero}
<1>1. 0 \in S
  <2>1. 0 \in Nat /\ \A k \in Nat : ~(k < 0)
    OBVIOUS
  <2>2. Total(f)[0] = Zero
    BY <2>1, TotalDef
  <2> QED BY <2>1, <2>2, NormLikeClosure
<1>2. ASSUME NEW l \in Nat, l \in S PROVE l + 1 \in S
  <2> DEFINE i == l + 1
             F0 == Total(f)[l]
  <2>1. i \in Nat /\ i # 0 /\ i - 1 = l /\ \A k \in Nat : k < i => k < l \/ k = l
    OBVIOUS
  <2>2. NormLike(F0) /\ NormLike(f[l]) /\ (F0 = Zero => \A k \in Nat : k < l => f[k] = Zero)
    BY <1>2
  <2> HIDE DEF i
  <2>3. Total(f)[i] = Add(Total(f)[i - 1], f[i - 1])
    BY <2>1, TotalDef
  <2>4. Total(f)[i] = Add(F0, f[l])
    BY <2>1, <2>3
  <2> HIDE DEF F0
  <2>5. NormLike(Add(F0, f[l])) /\ (Add(F0, f[l]) = Zero => F0 = Zero /\ f[l] = Zero)
    BY <2>2, NormLikeClosure, NormLikeFacts
  <2>6. Total(f)[i] = Zero => \A k \in Nat : k < i => f[k] = Zero
    BY <2>1, <2>2, <2>4, <2>5
  <2>7. i \in S
    BY <2>1, <2>4, <2>5, <2>6
  <2> QED BY <2>7 DEF i
<1>3. n \in S
  <2> HIDE DEF S
  <2>1. Nat \subseteq S
    BY <1>1, <1>2, TotalInduction
  <2> QED BY <2>1
<1> QED BY <1>3

\* A product of two sums.
LEMMA SumTimesSum ==
    ASSUME NEW c \in Weight, NEW d \in Weight, NEW s \in Weight, NEW t \in Weight
    PROVE  Multiply(Add(c, d), Add(s, t))
              = Add(Add(Multiply(c, s), Multiply(c, t)), Add(Multiply(d, s), Multiply(d, t)))
<1> DEFINE cd == Add(c, d)
           st == Add(s, t)
<1>1. cd \in Weight /\ st \in Weight
  BY WeightLaws
<1>2. Multiply(c, st) = Add(Multiply(c, s), Multiply(c, t)) /\ Multiply(d, st) = Add(Multiply(d, s), Multiply(d, t))
  BY SumLaws
<1>3. Multiply(st, cd) = Add(Multiply(st, c), Multiply(st, d))
  BY <1>1, SumLaws
<1> HIDE DEF cd, st
<1>4. Multiply(cd, st) = Multiply(st, cd) /\ Multiply(st, c) = Multiply(c, st) /\ Multiply(st, d) = Multiply(d, st)
  BY <1>1, WeightLaws
<1> QED BY <1>2, <1>3, <1>4 DEF cd, st

\* The norm of s w + c z, for an s that is its own conjugate.
LEMMA NormOfCombination ==
    ASSUME NEW s \in Weight, NEW c \in Weight, NEW w \in Weight, NEW z \in Weight, conjugate(s) = s,
           NEW e, e = Add(Multiply(s, w), Multiply(c, z))
    PROVE  /\ e \in Weight
           /\ Multiply(conjugate(e), e)
                 = Add(Add(Multiply(Multiply(s, s), Multiply(conjugate(w), w)),
                           Multiply(Multiply(s, c), Multiply(conjugate(w), z))),
                       Add(Multiply(Multiply(conjugate(c), s), Multiply(conjugate(z), w)),
                           Multiply(Multiply(conjugate(c), c), Multiply(conjugate(z), z))))
<1> DEFINE sw == Multiply(s, w)
           cz == Multiply(c, z)
           C == conjugate(c)
           W == conjugate(w)
           Z == conjugate(z)
           sW == Multiply(s, W)
           CZ == Multiply(C, Z)
<1>1. C \in Weight /\ W \in Weight /\ Z \in Weight
  BY SumLaws
<1>2. conjugate(sw) = sW /\ conjugate(cz) = CZ
  BY SumLaws
<1> HIDE DEF C, W, Z
<1>3. sw \in Weight /\ cz \in Weight /\ sW \in Weight /\ CZ \in Weight
  BY <1>1, WeightLaws
<1>4. /\ Multiply(sW, sw) = Multiply(Multiply(s, s), Multiply(W, w))
      /\ Multiply(sW, cz) = Multiply(Multiply(s, c), Multiply(W, z))
      /\ Multiply(CZ, sw) = Multiply(Multiply(C, s), Multiply(Z, w))
      /\ Multiply(CZ, cz) = Multiply(Multiply(C, c), Multiply(Z, z))
  BY <1>1, FourFactors
<1>5. e = Add(sw, cz)
  OBVIOUS
<1> HIDE DEF sw, cz, sW, CZ
<1>6. conjugate(Add(sw, cz)) = Add(conjugate(sw), conjugate(cz))
  BY <1>3, ConjugateSums
<1>7. conjugate(e) = Add(sW, CZ)
  BY <1>2, <1>5, <1>6
<1>8. Multiply(Add(sW, CZ), Add(sw, cz))
         = Add(Add(Multiply(sW, sw), Multiply(sW, cz)), Add(Multiply(CZ, sw), Multiply(CZ, cz)))
  BY <1>3, SumTimesSum
<1>9. e \in Weight
  BY <1>3, <1>5, WeightLaws
<1>10. Multiply(conjugate(e), e)
         = Add(Add(Multiply(Multiply(s, s), Multiply(W, w)), Multiply(Multiply(s, c), Multiply(W, z))),
               Add(Multiply(Multiply(C, s), Multiply(Z, w)), Multiply(Multiply(C, c), Multiply(Z, z))))
  BY <1>4, <1>5, <1>7, <1>8
<1> QED BY <1>9, <1>10 DEF C, W, Z

ScaledBy(c, f) == [k \in Nat |-> Multiply(c, f[k])]
SumOf(f, g) == [k \in Nat |-> Add(f[k], g[k])]

\* A sequence times a number.
LEMMA ScaledSequence ==
    ASSUME NEW f \in [Nat -> Weight], NEW c \in Weight, NEW n \in Nat
    PROVE  /\ ScaledBy(c, f) \in [Nat -> Weight] /\ Total(ScaledBy(c, f))[n] = Multiply(c, Total(f)[n])
           /\ \A k \in Nat : ScaledBy(c, f)[k] = Multiply(c, f[k])
<1> DEFINE g == ScaledBy(c, f)
<1>1. ASSUME NEW k \in Nat PROVE Multiply(c, f[k]) \in Weight
  <2>1. f[k] \in Weight
    OBVIOUS
  <2> QED BY <2>1, WeightLaws
<1>2. g \in [Nat -> Weight] /\ \A k \in Nat : g[k] = Multiply(c, f[k])
  BY <1>1 DEF ScaledBy
<1> HIDE DEF g
<1>3. \A k \in Nat : k < n => g[k] = Multiply(c, f[k])
  BY <1>2
<1>4. Total(g)[n] = Multiply(c, Total(f)[n])
  BY <1>2, <1>3, TotalScaled
<1> QED BY <1>2, <1>4 DEF g

\* The sum of two sequences.
LEMMA SumSequence ==
    ASSUME NEW f \in [Nat -> Weight], NEW g \in [Nat -> Weight], NEW n \in Nat
    PROVE  /\ SumOf(f, g) \in [Nat -> Weight] /\ Total(SumOf(f, g))[n] = Add(Total(f)[n], Total(g)[n])
           /\ \A k \in Nat : SumOf(f, g)[k] = Add(f[k], g[k])
<1> DEFINE h == SumOf(f, g)
<1>1. ASSUME NEW k \in Nat PROVE Add(f[k], g[k]) \in Weight
  <2>1. f[k] \in Weight /\ g[k] \in Weight
    OBVIOUS
  <2> QED BY <2>1, WeightLaws
<1>2. h \in [Nat -> Weight] /\ \A k \in Nat : h[k] = Add(f[k], g[k])
  BY <1>1 DEF SumOf
<1> HIDE DEF h
<1>3. \A k \in Nat : k < n => h[k] = Add(f[k], g[k])
  BY <1>2
<1>4. Total(h)[n] = Add(Total(f)[n], Total(g)[n])
  BY <1>2, <1>3, TotalSum
<1> QED BY <1>2, <1>4 DEF h

\* The sequence s p + c q.
Combination(s, p, c, q) == [k \in Nat |-> Add(Multiply(s, p[k]), Multiply(c, q[k]))]

\* Its norm.
LEMMA PairingCombination ==
    ASSUME NEW p \in [Nat -> Weight], NEW q \in [Nat -> Weight], NEW n \in Nat,
           NEW s \in Weight, NEW c \in Weight, conjugate(s) = s,
           NEW r, r = Combination(s, p, c, q)
    PROVE  /\ r \in [Nat -> Weight]
           /\ Pairing(r, r, n)
                 = Add(Add(Multiply(Multiply(s, s), Pairing(p, p, n)),
                           Multiply(Multiply(s, c), Pairing(p, q, n))),
                       Add(Multiply(Multiply(conjugate(c), s), Pairing(q, p, n)),
                           Multiply(Multiply(conjugate(c), c), Pairing(q, q, n))))
<1> DEFINE ss == Multiply(s, s)
           sc == Multiply(s, c)
           cs == Multiply(conjugate(c), s)
           cc == Multiply(conjugate(c), c)
           pp == Products(p, p)
           pq == Products(p, q)
           qp == Products(q, p)
           qq == Products(q, q)
           rr == Products(r, r)
           f1 == ScaledBy(ss, pp)
           f2 == ScaledBy(sc, pq)
           f3 == ScaledBy(cs, qp)
           f4 == ScaledBy(cc, qq)
           g1 == SumOf(f1, f2)
           g2 == SumOf(f3, f4)
<1>1. conjugate(c) \in Weight
  BY SumLaws
<1>2. ss \in Weight /\ sc \in Weight /\ cs \in Weight /\ cc \in Weight
  BY <1>1, WeightLaws
<1>3. \A k \in Nat : r[k] = Add(Multiply(s, p[k]), Multiply(c, q[k]))
  BY DEF Combination
<1>4. ASSUME NEW k \in Nat
      PROVE  /\ r[k] \in Weight
             /\ Multiply(conjugate(r[k]), r[k])
                   = Add(Add(Multiply(ss, Multiply(conjugate(p[k]), p[k])),
                             Multiply(sc, Multiply(conjugate(p[k]), q[k]))),
                         Add(Multiply(cs, Multiply(conjugate(q[k]), p[k])),
                             Multiply(cc, Multiply(conjugate(q[k]), q[k]))))
  <2> DEFINE w == p[k]
             z == q[k]
             e == r[k]
  <2>1. w \in Weight /\ z \in Weight /\ e = Add(Multiply(s, w), Multiply(c, z))
    BY <1>3
  <2> HIDE DEF w, z, e
  <2>2. /\ e \in Weight
        /\ Multiply(conjugate(e), e)
              = Add(Add(Multiply(Multiply(s, s), Multiply(conjugate(w), w)),
                        Multiply(Multiply(s, c), Multiply(conjugate(w), z))),
                    Add(Multiply(Multiply(conjugate(c), s), Multiply(conjugate(z), w)),
                        Multiply(Multiply(conjugate(c), c), Multiply(conjugate(z), z))))
    BY <2>1, NormOfCombination
  <2> QED BY <2>2 DEF w, z, e
<1>5. r \in [Nat -> Weight]
  BY <1>4 DEF Combination
<1>6. /\ pp \in [Nat -> Weight] /\ pq \in [Nat -> Weight] /\ qp \in [Nat -> Weight] /\ qq \in [Nat -> Weight]
      /\ \A k \in Nat : /\ pp[k] = Multiply(conjugate(p[k]), p[k]) /\ pq[k] = Multiply(conjugate(p[k]), q[k])
                        /\ qp[k] = Multiply(conjugate(q[k]), p[k]) /\ qq[k] = Multiply(conjugate(q[k]), q[k])
  <2>1. pp \in [Nat -> Weight] /\ \A k \in Nat : pp[k] = Multiply(conjugate(p[k]), p[k])
    BY PairingType
  <2>2. pq \in [Nat -> Weight] /\ \A k \in Nat : pq[k] = Multiply(conjugate(p[k]), q[k])
    BY PairingType
  <2>3. qp \in [Nat -> Weight] /\ \A k \in Nat : qp[k] = Multiply(conjugate(q[k]), p[k])
    BY PairingType
  <2>4. qq \in [Nat -> Weight] /\ \A k \in Nat : qq[k] = Multiply(conjugate(q[k]), q[k])
    BY PairingType
  <2> HIDE DEF pp, pq, qp, qq
  <2> QED BY <2>1, <2>2, <2>3, <2>4
<1>7. rr \in [Nat -> Weight] /\ \A k \in Nat : rr[k] = Multiply(conjugate(r[k]), r[k])
  BY <1>5, PairingType
<1>8. /\ Pairing(p, p, n) = Total(pp)[n] /\ Pairing(p, q, n) = Total(pq)[n] /\ Pairing(q, p, n) = Total(qp)[n]
      /\ Pairing(q, q, n) = Total(qq)[n] /\ Pairing(r, r, n) = Total(rr)[n]
  BY DEF Pairing
<1> HIDE DEF ss, sc, cs, cc, pp, pq, qp, qq, rr
<1>10. f1 \in [Nat -> Weight] /\ Total(f1)[n] = Multiply(ss, Total(pp)[n]) /\ \A k \in Nat : f1[k] = Multiply(ss, pp[k])
  <2>1. ss \in Weight /\ pp \in [Nat -> Weight]
    BY <1>2, <1>6
  <2> QED BY <2>1, ScaledSequence
<1>11. f2 \in [Nat -> Weight] /\ Total(f2)[n] = Multiply(sc, Total(pq)[n]) /\ \A k \in Nat : f2[k] = Multiply(sc, pq[k])
  <2>1. sc \in Weight /\ pq \in [Nat -> Weight]
    BY <1>2, <1>6
  <2> QED BY <2>1, ScaledSequence
<1>12. f3 \in [Nat -> Weight] /\ Total(f3)[n] = Multiply(cs, Total(qp)[n]) /\ \A k \in Nat : f3[k] = Multiply(cs, qp[k])
  <2>1. cs \in Weight /\ qp \in [Nat -> Weight]
    BY <1>2, <1>6
  <2> QED BY <2>1, ScaledSequence
<1>13. f4 \in [Nat -> Weight] /\ Total(f4)[n] = Multiply(cc, Total(qq)[n]) /\ \A k \in Nat : f4[k] = Multiply(cc, qq[k])
  <2>1. cc \in Weight /\ qq \in [Nat -> Weight]
    BY <1>2, <1>6
  <2> QED BY <2>1, ScaledSequence
<1> HIDE DEF f1, f2, f3, f4
<1>14. g1 \in [Nat -> Weight] /\ Total(g1)[n] = Add(Total(f1)[n], Total(f2)[n]) /\ \A k \in Nat : g1[k] = Add(f1[k], f2[k])
  BY <1>10, <1>11, SumSequence
<1>15. g2 \in [Nat -> Weight] /\ Total(g2)[n] = Add(Total(f3)[n], Total(f4)[n]) /\ \A k \in Nat : g2[k] = Add(f3[k], f4[k])
  BY <1>12, <1>13, SumSequence
<1> HIDE DEF g1, g2
<1>16. \A k \in Nat : rr[k] = Add(g1[k], g2[k])
  <2> SUFFICES ASSUME NEW k \in Nat PROVE rr[k] = Add(g1[k], g2[k])
    OBVIOUS
  <2>1. g1[k] = Add(Multiply(ss, pp[k]), Multiply(sc, pq[k]))
    BY <1>10, <1>11, <1>14
  <2>2. g2[k] = Add(Multiply(cs, qp[k]), Multiply(cc, qq[k]))
    BY <1>12, <1>13, <1>15
  <2> QED BY <1>4, <1>6, <1>7, <2>1, <2>2
<1>17. g1 \in [Nat -> Weight] /\ g2 \in [Nat -> Weight] /\ rr \in [Nat -> Weight]
  BY <1>7, <1>14, <1>15
<1>18. Total(rr)[n] = Add(Total(g1)[n], Total(g2)[n])
  <2> DEFINE both == SumOf(g1, g2)
  <2>1. /\ both \in [Nat -> Weight] /\ Total(both)[n] = Add(Total(g1)[n], Total(g2)[n])
        /\ \A k \in Nat : both[k] = Add(g1[k], g2[k])
    BY <1>17, SumSequence
  <2> HIDE DEF both
  <2>2. rr = both
    BY <1>16, <1>17, <2>1
  <2> QED BY <2>1, <2>2
<1> QED BY <1>5, <1>8, <1>10, <1>11, <1>12, <1>13, <1>14, <1>15, <1>18 DEF ss, sc, cs, cc

\* The four terms, where s is the norm of q and c the opposite of the conjugate
\* of d: a multiple of what Cauchy and Schwarz compare.
LEMMA LastTermsCancel ==
    ASSUME NEW s \in Weight, NEW n \in Weight, NEW d \in Weight, NEW D \in Weight, D = conjugate(d),
           NEW c, c = Negate(D), NEW C, C = Negate(d)
    PROVE  /\ c \in Weight /\ C = conjugate(c)
           /\ Add(Add(Multiply(Multiply(s, s), n), Multiply(Multiply(s, c), d)),
                  Add(Multiply(Multiply(C, s), D), Multiply(Multiply(C, c), s)))
                 = Multiply(s, Subtract(Multiply(s, n), Multiply(D, d)))
<1> DEFINE sn == Multiply(s, n)
           cd == Multiply(c, d)
           Dd == Multiply(D, d)
           Cs == Multiply(C, s)
<1>1. c \in Weight /\ C \in Weight /\ Zero \in Weight /\ Add(D, c) = Zero
  BY OppositeLaws, WeightLaws
<1>2. conjugate(c) = C
  <2>1. Add(D, c) = Zero /\ conjugate(D) = d
    BY <1>1, ConjugateSums
  <2>2. conjugate(Add(D, c)) = Add(conjugate(D), conjugate(c))
    BY <1>1, ConjugateSums
  <2>3. conjugate(Zero) = Zero
    BY <1>1, SumLaws
  <2> DEFINE e == conjugate(c)
  <2>4. e \in Weight
    BY <1>1, SumLaws
  <2>5. Add(d, e) = Zero
    BY <2>1, <2>2, <2>3
  <2> HIDE DEF e
  <2>6. Add(C, Add(d, e)) = Add(Add(C, d), e) /\ Add(C, d) = Add(d, C) /\ Add(d, C) = Zero
    BY <1>1, <2>4, SumLaws, OppositeLaws
  <2>7. Add(Zero, e) = e /\ Add(C, Zero) = C
    BY <1>1, <2>4, SumLaws
  <2> QED BY <2>5, <2>6, <2>7 DEF e
<1>3. sn \in Weight /\ cd \in Weight /\ Dd \in Weight /\ Cs \in Weight
  BY <1>1, WeightLaws
<1>4. cd = Negate(Dd)
  BY OppositeLaws
<1>5. Multiply(Multiply(s, s), n) = Multiply(s, sn) /\ Multiply(Multiply(s, c), d) = Multiply(s, cd)
  BY <1>1, WeightLaws
<1>6. Multiply(Multiply(C, c), s) = Multiply(Cs, c)
  <2>1. Multiply(Multiply(C, c), s) = Multiply(C, Multiply(c, s))
    BY <1>1, ThreeWeights
  <2>3. Multiply(c, s) = Multiply(s, c)
    BY <1>1, WeightLaws
  <2>2. Multiply(Multiply(C, s), c) = Multiply(C, Multiply(s, c))
    BY <1>1, ThreeWeights
  <2> QED BY <2>1, <2>2, <2>3
<1> HIDE DEF sn, Cs
<1>7. Add(Multiply(Cs, D), Multiply(Cs, c)) = Multiply(Cs, Add(D, c))
  BY <1>1, <1>3, SumLaws
<1>8. Multiply(Cs, Zero) = Zero
  BY <1>3, WeightLaws
<1> HIDE DEF cd
<1>9. Add(Multiply(s, sn), Multiply(s, cd)) = Multiply(s, Add(sn, cd))
  BY <1>3, SumLaws
<1> DEFINE t == Multiply(s, Add(sn, cd))
<1>10. t \in Weight
  BY <1>3, WeightLaws
<1> HIDE DEF t
<1>11. Add(t, Zero) = t
  BY <1>10, SumLaws
<1>12. Subtract(sn, Dd) = Add(sn, cd)
  BY <1>4 DEF Subtract
<1>13. Add(Add(Multiply(Multiply(s, s), n), Multiply(Multiply(s, c), d)),
           Add(Multiply(Multiply(C, s), D), Multiply(Multiply(C, c), s))) = Add(t, Zero)
  BY <1>1, <1>5, <1>6, <1>7, <1>8, <1>9 DEF t, Cs
<1> QED BY <1>1, <1>2, <1>11, <1>12, <1>13 DEF t, sn, Dd

\* A norm can be divided out.
LEMMA NormLikeQuotient ==
    ASSUME NEW s, NormLike(s), s # Zero, NEW t \in Weight, NormLike(Multiply(s, t))
    PROVE  NormLike(t)
<1> DEFINE i == inverse(s)
           I == conjugate(i)
           st == Multiply(s, t)
           ii == Multiply(I, i)
<1>1. s \in Weight /\ Canonical(s) /\ ~isZero(s) /\ conjugate(s) = s
  <2>1. Canonical(s) /\ conjugate(s) = s
    BY NormLikeFacts DEF NormLike
  <2>2. s \in Weight
    BY <2>1, WeightIsCanonical
  <2> QED BY <2>1, <2>2, WeightLaws
<1>2. i \in Weight /\ Multiply(i, s) = One
  BY <1>1, InverseTimes, WeightIsCanonical
<1> HIDE DEF i
<1>3. I \in Weight
  BY <1>2, SumLaws
<1>4. NormLike(ii)
  BY <1>2, NormLikeClosure, WeightIsCanonical
<1>5. Multiply(I, s) = One
  <2>1. conjugate(Multiply(i, s)) = Multiply(conjugate(i), conjugate(s))
    BY <1>1, <1>2, SumLaws
  <2>2. One \in Weight
    BY WeightLaws DEF NonZero
  <2>3. conjugate(One) = One
    <3>1. NormLike(Multiply(conjugate(One), One)) /\ conjugate(One) \in Weight
      BY <2>2, NormLikeClosure, WeightIsCanonical, SumLaws
    <3>2. Multiply(conjugate(One), One) = conjugate(One)
      BY <3>1, WeightLaws
    <3>3. conjugate(conjugate(One)) = conjugate(One)
      BY <3>1, <3>2, NormLikeFacts
    <3> QED BY <2>2, <3>3, ConjugateSums
  <2> QED BY <1>1, <1>2, <2>1, <2>3
<1> HIDE DEF I
<1>6. st \in Weight /\ NormLike(st)
  BY <1>1, WeightLaws
<1>7. NormLike(Multiply(s, st))
  BY <1>6, NormLikeClosure
<1>8. NormLike(Multiply(ii, Multiply(s, st)))
  BY <1>4, <1>7, NormLikeClosure
<1>9. Multiply(ii, Multiply(s, st)) = Multiply(Multiply(I, s), Multiply(i, st))
  BY <1>1, <1>2, <1>3, <1>6, FourFactors
<1>10. Multiply(i, st) = t
  <2>1. Multiply(Multiply(i, s), t) = Multiply(i, st)
    BY <1>1, <1>2, ThreeWeights
  <2> QED BY <1>2, <2>1, WeightLaws
<1>11. Multiply(Multiply(I, s), Multiply(i, st)) = t
  BY <1>5, <1>10, WeightLaws
<1> QED BY <1>8, <1>9, <1>11

(***************************************************************************)
(* The inequality of Cauchy and Schwarz: the product of the norms is not   *)
(* below the norm of the inner product.                                    *)
(***************************************************************************)
LEMMA CauchySchwarz ==
    ASSUME NEW p \in [Nat -> Weight], NEW q \in [Nat -> Weight], NEW n \in Nat
    PROVE  LET pp == Pairing(p, p, n)
               pq == Pairing(p, q, n)
               qq == Pairing(q, q, n)
           IN  /\ NormLike(pp) /\ NormLike(qq) /\ pq \in Weight
               /\ NormLike(Subtract(Multiply(pp, qq), Multiply(pq, conjugate(pq))))
               /\ qq = Zero => \A k \in Nat : k < n => q[k] = Zero
<1> DEFINE pp == Pairing(p, p, n)
           pq == Pairing(p, q, n)
           qp == Pairing(q, p, n)
           qq == Pairing(q, q, n)
           c == Negate(qp)
           C == Negate(pq)
           r == Combination(qq, p, c, q)
           rr == Pairing(r, r, n)
           t == Subtract(Multiply(qq, pp), Multiply(qp, pq))
<1>1. ASSUME NEW s \in [Nat -> Weight]
      PROVE  /\ NormLike(Pairing(s, s, n))
             /\ Pairing(s, s, n) = Zero => \A k \in Nat : k < n => s[k] = Zero
  <2> DEFINE f == Products(s, s)
  <2>1. f \in [Nat -> Weight] /\ \A k \in Nat : f[k] = Multiply(conjugate(s[k]), s[k])
    BY PairingType
  <2> HIDE DEF f
  <2>2. ASSUME NEW k \in Nat PROVE NormLike(f[k]) /\ (f[k] = Zero => s[k] = Zero)
    <3> DEFINE w == s[k]
               z == conjugate(w)
    <3>1. w \in Weight /\ f[k] = Multiply(z, w)
      BY <2>1
    <3> HIDE DEF w
    <3>2. z \in Weight /\ (w # Zero => z # Zero)
      BY <3>1, ConjugateLaws
    <3>3. NormLike(Multiply(z, w))
      BY <3>1, NormLikeClosure, WeightIsCanonical
    <3> HIDE DEF z
    <3>4. Multiply(z, w) = Zero => w = Zero
      BY <3>1, <3>2, NonZeroLaws DEF NonZero
    <3> QED BY <3>1, <3>3, <3>4 DEF w
  <2>3. NormLike(Total(f)[n]) /\ (Total(f)[n] = Zero => \A k \in Nat : k < n => f[k] = Zero)
    BY <2>1, <2>2, NormTotal
  <2> QED BY <2>2, <2>3 DEF Pairing, f
<1>2. pp \in Weight /\ pq \in Weight /\ qp \in Weight /\ qq \in Weight
  BY PairingType
<1>3. NormLike(pp) /\ NormLike(qq) /\ conjugate(qq) = qq /\ qp = conjugate(pq)
  BY <1>1, NormLikeFacts, PairingConjugate
<1>4. qq = Zero => \A k \in Nat : k < n => q[k] = Zero
  BY <1>1
<1>5. qq = Zero => qp = Zero
  <2> SUFFICES ASSUME qq = Zero PROVE qp = Zero
    OBVIOUS
  <2> DEFINE f == Products(q, p)
  <2>1. f \in [Nat -> Weight] /\ \A k \in Nat : f[k] = Multiply(conjugate(q[k]), p[k])
    BY PairingType
  <2> HIDE DEF f
  <2>2. conjugate(Zero) = Zero
    BY <1>2, SumLaws
  <2>3. ASSUME NEW k \in Nat, k < n PROVE f[k] = Zero
    <3>1. q[k] = Zero /\ p[k] \in Weight
      BY <1>4, <2>3
    <3> QED BY <2>1, <2>2, <3>1, WeightLaws
  <2>4. Total(f)[n] = Zero
    BY <2>1, <2>3, TotalZero
  <2> QED BY <2>4 DEF Pairing, f
<1> HIDE DEF pp, pq, qp, qq
<1>6. /\ c \in Weight /\ C = conjugate(c)
      /\ Add(Add(Multiply(Multiply(qq, qq), pp), Multiply(Multiply(qq, c), pq)),
             Add(Multiply(Multiply(C, qq), qp), Multiply(Multiply(C, c), qq))) = Multiply(qq, t)
  BY <1>2, <1>3, LastTermsCancel
<1> HIDE DEF c, C
<1>7. r \in [Nat -> Weight] /\ rr = Multiply(qq, t)
  <2>1. r = Combination(qq, p, c, q)
    OBVIOUS
  <2> HIDE DEF r, t
  <2>2. /\ r \in [Nat -> Weight]
        /\ Pairing(r, r, n)
              = Add(Add(Multiply(Multiply(qq, qq), Pairing(p, p, n)), Multiply(Multiply(qq, c), Pairing(p, q, n))),
                    Add(Multiply(Multiply(conjugate(c), qq), Pairing(q, p, n)),
                        Multiply(Multiply(conjugate(c), c), Pairing(q, q, n))))
    BY <1>2, <1>3, <1>6, <2>1, PairingCombination
  <2> QED BY <1>6, <2>2 DEF pp, pq, qp, qq
<1>8. NormLike(Multiply(qq, t))
  BY <1>1, <1>7
<1>9. t \in Weight
  <2>1. Multiply(qq, pp) \in Weight /\ Multiply(qp, pq) \in Weight
    BY <1>2, WeightLaws
  <2> QED BY <2>1, CanonicalClosure, WeightIsCanonical
<1>10. NormLike(t)
  <2>1. CASE qq # Zero
    <3> HIDE DEF t
    <3> QED BY <1>3, <1>8, <1>9, <2>1, NormLikeQuotient
  <2>2. CASE qq = Zero
    <3>1. Multiply(qq, pp) = Zero /\ Multiply(qp, pq) = Zero
      BY <1>2, <1>5, <2>2, WeightLaws
    <3>2. Zero \in Weight
      BY WeightLaws
    <3>3. Negate(Zero) \in Weight /\ Add(Zero, Negate(Zero)) = Zero
      BY <3>2, OppositeLaws
    <3>4. t = Zero
      BY <3>1, <3>3 DEF Subtract
    <3> QED BY <3>4, NormLikeClosure
  <2> QED BY <2>1, <2>2
<1>11. Multiply(qq, pp) = Multiply(pp, qq) /\ Multiply(qp, pq) = Multiply(pq, conjugate(pq))
  <2>1. Multiply(qp, pq) = Multiply(pq, qp)
    BY <1>2, WeightLaws
  <2>2. Multiply(qq, pp) = Multiply(pp, qq)
    BY <1>2, WeightLaws
  <2> QED BY <1>3, <2>1, <2>2
<1> QED BY <1>2, <1>3, <1>4, <1>10, <1>11 DEF pp, pq, qq

\* A reduced vector node has a child that is not 0, at each level it is read at.
LEMMA NonZeroChild ==
    ASSUME NEW norm, NEW nodes, Family(V, norm, nodes), norm # "Any", NEW k \in Nat, NEW p \in nodes[k + 1]
    PROVE  /\ childrenAt(V, p, k) \in [1..V -> EdgesTo(nodes[k])]
           /\ childrenAt(V, p, k)[1].w # Zero \/ childrenAt(V, p, k)[2].w # Zero
<1> DEFINE n == k + 1
           c == childrenAt(V, p, k)
<1>1. n \in Nat /\ V \in Nat /\ 1 \in 1..V /\ 2 \in 1..V
  BY DEF V
<1>2. NodeFacts(V, norm, nodes, n, p)
  BY <1>1, FamilyFacts
<1> HIDE DEF n
<1>3. p.var \in Int /\ p.var <= k
  BY <1>2 DEF NodeFacts, n
<1>4. c \in [1..V -> EdgesTo(nodes[k])] /\ c = vChildrenAt(p, k)
  BY <1>1, <1>3, ChildrenEdges DEF n
<1>5. CASE p.var = k
  <2>1. c = p.e
    BY <1>4, <1>5 DEF vChildrenAt
  <2>2. p \in KeptNodes(V, norm, k, nodes[k])
    BY <1>2, <1>5 DEF NodeFacts
  <2>3. p.e[1] # p.e[2]
    BY <2>2 DEF KeptNodes, KeptUnder, Kept
  <2>4. c[1] \in EdgesTo(nodes[k]) /\ c[2] \in EdgesTo(nodes[k])
    BY <1>1, <1>4
  <2> HIDE DEF c
  <2>5. ASSUME c[1].w = Zero, c[2].w = Zero PROVE FALSE
    <3>1. c[1] = [p |-> Null, w |-> Zero]
      BY <2>4, <2>5, EdgeFields
    <3>2. c[2] = [p |-> Null, w |-> Zero]
      BY <2>4, <2>5, EdgeFields
    <3> QED BY <2>1, <2>3, <3>1, <3>2
  <2> QED BY <1>4, <2>5 DEF c
<1>6. CASE p.var # k
  <2>1. c = <<Bare(p), Bare(p)>>
    BY <1>4, <1>6 DEF vChildrenAt
  <2>2. c[1].w = One
    BY <2>1 DEF Bare
  <2>3. One # Zero
    BY WeightLaws DEF NonZero
  <2> QED BY <1>4, <2>2, <2>3
<1> QED BY <1>5, <1>6

(***************************************************************************)
(* An edge whose weight is not 0 has an amplitude that is not 0.           *)
(***************************************************************************)
Reaches(nodes, l) ==
    \A e \in EdgesTo(nodes[l]) : e.w # Zero =>
        \E i \in Nat : i < Pow2[l] /\ Read(V, e, i, 0, l) # Zero

\* An amplitude below the first child, or below the second.
LEMMA ReachesNext ==
    ASSUME NEW norm, NEW nodes, Family(V, norm, nodes), norm # "Any",
           NEW k \in Nat, k < NumQubits, Reaches(nodes, k), NEW e \in EdgesTo(nodes[k + 1]), e.w # Zero
    PROVE  \E i \in Nat : i < Pow2[k + 1] /\ Read(V, e, i, 0, k + 1) # Zero
<1> DEFINE n == k + 1
           P == Pow2[k]
           c == childrenAt(V, e.p, k)
<1>1. n \in Nat /\ V \in {V, M} /\ 0 \in Nat /\ k <= NumQubits /\ NumQubits \in Nat
  BY QubitsAssumption
<1>2. P \in Nat /\ Pow2[n] = P + P
  BY Pow2Def
<1>3. EdgesTo(nodes[k]) \subseteq Lev(V, k) /\ e \in Lev(V, n)
  BY <1>1, FamilyInNodes DEF Lev
<1>4. e.p \in nodes[n] /\ e.w \in Weight
  BY EdgeFields
<1>5. c \in [1..V -> EdgesTo(nodes[k])] /\ (c[1].w # Zero \/ c[2].w # Zero)
  BY <1>4, NonZeroChild
<1>6. c[1] \in EdgesTo(nodes[k]) /\ c[2] \in EdgesTo(nodes[k])
  BY <1>5 DEF V
<1>7. ASSUME NEW i \in Nat
      PROVE  /\ Kid(V, e, i, 0, k) = c[Bit(i, k) + 1]
             /\ Read(V, e, i, 0, n) = Multiply(e.w, Read(V, Kid(V, e, i, 0, k), i, 0, k))
  <2>1. Kid(V, e, i, 0, k) = c[Bit(i, k) + 1]
    BY DEF Kid, Digit
  <2>2. Read(V, e, i, 0, n) = Multiply(e.w, Read(V, Kid(V, e, i, 0, k), i, 0, k))
    BY <1>1, <1>3, ReadKid
  <2> QED BY <2>1, <2>2
<1> HIDE DEF c
<1>8. CASE c[1].w # Zero
  <2>1. PICK i \in Nat : i < P /\ Read(V, c[1], i, 0, k) # Zero
    BY <1>6, <1>8 DEF Reaches
  <2>2. Bit(i, k) = 0
    BY <2>1, HalfBits
  <2>3. Kid(V, e, i, 0, k) = c[1]
    BY <1>7, <2>2
  <2>4. Read(V, c[1], i, 0, k) \in Weight
    BY <1>1, <1>3, <1>6, ReadType
  <2>5. Read(V, e, i, 0, n) # Zero
    BY <1>4, <1>7, <2>1, <2>3, <2>4, ProductNotZero
  <2>6. i < Pow2[n]
    BY <1>2, <2>1
  <2> QED BY <2>5, <2>6
<1>9. CASE c[2].w # Zero
  <2>1. PICK l \in Nat : l < P /\ Read(V, c[2], l, 0, k) # Zero
    BY <1>6, <1>9 DEF Reaches
  <2> DEFINE i == P + l
  <2>2. Bit(i, k) = 1 /\ i \in Nat /\ \A q \in Nat : q < k => Bit(i, q) = Bit(l, q)
    BY <2>1, HalfBits
  <2>3. i < Pow2[n]
    BY <1>2, <2>1
  <2> HIDE DEF i
  <2>4. Kid(V, e, i, 0, k) = c[2]
    BY <1>7, <2>2
  <2>5. Read(V, c[2], i, 0, k) = Read(V, c[2], l, 0, k)
    BY <1>1, <1>3, <1>6, <2>2, ReadBits
  <2>6. Read(V, c[2], i, 0, k) \in Weight
    BY <1>1, <1>3, <1>6, <2>2, ReadType
  <2>7. Read(V, e, i, 0, n) # Zero
    BY <1>4, <1>7, <2>1, <2>2, <2>4, <2>5, <2>6, ProductNotZero
  <2> QED BY <2>2, <2>3, <2>7
<1> QED BY <1>5, <1>8, <1>9

\* ... at every level.
LEMMA ReachesAll ==
    ASSUME NEW norm, NEW nodes, Family(V, norm, nodes), norm # "Any", NEW n \in Nat, n <= NumQubits
    PROVE  Reaches(nodes, n)
<1> DEFINE S == {k \in 0..NumQubits : Reaches(nodes, k)}
<1>1. NumQubits \in Nat /\ 0 \in Nat /\ 0 <= NumQubits /\ V \in {V, M} /\ 0 \in 0..NumQubits
  BY QubitsAssumption
<1>2. 0 \in S
  <2> SUFFICES ASSUME NEW e \in EdgesTo(nodes[0]), e.w # Zero
               PROVE  \E i \in Nat : i < Pow2[0] /\ Read(V, e, i, 0, 0) # Zero
    BY <1>1 DEF Reaches
  <2>1. e \in Lev(V, 0)
    BY <1>1, FamilyInNodes DEF Lev
  <2>2. Read(V, e, 0, 0, 0) = e.w
    BY <1>1, <2>1, ReadType
  <2>3. Pow2[0] = 1
    BY Pow2Def
  <2> QED BY <2>2, <2>3
<1>3. \A k \in 0..NumQubits : k # 0 /\ k - 1 \in S => k \in S
  <2> SUFFICES ASSUME NEW k \in 0..NumQubits, k # 0, k - 1 \in S PROVE Reaches(nodes, k)
    OBVIOUS
  <2> DEFINE l == k - 1
  <2>1. l \in Nat /\ l < NumQubits /\ k = l + 1 /\ l \in S
    BY <1>1
  <2>2. Reaches(nodes, l)
    BY <2>1
  <2> HIDE DEF l
  <2>3. ASSUME NEW e \in EdgesTo(nodes[l + 1]), e.w # Zero
        PROVE  \E i \in Nat : i < Pow2[l + 1] /\ Read(V, e, i, 0, l + 1) # Zero
    BY <2>1, <2>2, <2>3, ReachesNext
  <2> QED BY <2>1, <2>3 DEF Reaches
<1> HIDE DEF S
<1>4. 0..NumQubits \subseteq S
  BY <1>1, <1>2, <1>3, CountInduction
<1>5. n \in S
  BY <1>1, <1>4
<1> QED BY <1>5 DEF S

\* The amplitudes of an edge.
Amplitudes(e) == [k \in Nat |-> Read(V, e, k, 0, NumQubits)]

\* The inner product is the pairing of the amplitudes.
LEMMA InnerIsPairing ==
    ASSUME NEW d \in Edge(V), NEW e \in Edge(V)
    PROVE  /\ Amplitudes(d) \in [Nat -> Weight] /\ Amplitudes(e) \in [Nat -> Weight]
           /\ \A k \in Nat : Amplitudes(e)[k] = Read(V, e, k, 0, NumQubits)
           /\ innerProduct(d, e) = Pairing(Amplitudes(d), Amplitudes(e), Pow2[NumQubits])
<1> DEFINE n == NumQubits
           p == Amplitudes(d)
           q == Amplitudes(e)
           P == Pow2[n]
           f == InnerTerms(d, e, n)
           g == Products(p, q)
<1>1. V \in {V, M} /\ n \in Nat /\ n <= NumQubits /\ 0 \in Nat /\ P \in Nat
  BY AlgebraIndices
<1>2. d \in Lev(V, n) /\ e \in Lev(V, n)
  BY EdgeLev
<1> HIDE DEF n
<1>3. ASSUME NEW k \in Nat PROVE Read(V, d, k, 0, n) \in Weight /\ Read(V, e, k, 0, n) \in Weight
  BY <1>1, <1>2, ReadType
<1>4. /\ p \in [Nat -> Weight] /\ \A k \in Nat : p[k] = Read(V, d, k, 0, n)
      /\ q \in [Nat -> Weight] /\ \A k \in Nat : q[k] = Read(V, e, k, 0, n)
  BY <1>3 DEF Amplitudes, n
<1> HIDE DEF p, q
<1>5. f \in [Nat -> Weight]
      /\ \A k \in Nat : f[k] = Multiply(conjugate(Read(V, d, k, 0, n)), Read(V, e, k, 0, n))
  BY <1>1, <1>2, InnerTermsType
<1>6. g \in [Nat -> Weight] /\ \A k \in Nat : g[k] = Multiply(conjugate(p[k]), q[k])
  BY <1>4, PairingType
<1>7. innerProduct(d, e) = Inner(d, e, n)
  BY <1>1, <1>2, InnerIsSum DEF innerProduct, n
<1> HIDE DEF f, g, P
<1>8. \A k \in Nat : k < P => f[k] = g[k]
  BY <1>4, <1>5, <1>6
<1>9. Total(f)[P] = Total(g)[P]
  BY <1>1, <1>5, <1>6, <1>8, TotalSame
<1> QED BY <1>4, <1>7, <1>9 DEF Inner, Pairing, f, g, p, q, n, P

\* The norm of a reduced edge is 0 only if its weight is.
LEMMA ZeroNorm ==
    ASSUME NEW norm, NEW nodes, Family(V, norm, nodes), norm # "Any", NEW e \in EdgesTo(nodes[NumQubits])
    PROVE  e \in Edge(V) /\ (innerProduct(e, e) = Zero <=> e.w = Zero)
<1> DEFINE n == NumQubits
           q == Amplitudes(e)
           P == Pow2[n]
<1>1. V \in {V, M} /\ n \in Nat /\ n <= NumQubits /\ 0 \in Nat /\ P \in Nat
  BY AlgebraIndices
<1>2. e \in Lev(V, n)
  BY <1>1, FamilyInNodes DEF Lev
<1>3. e \in Edge(V)
  BY <1>2, EdgeLev
<1>4. /\ q \in [Nat -> Weight] /\ \A k \in Nat : q[k] = Read(V, e, k, 0, n)
      /\ innerProduct(e, e) = Pairing(q, q, P)
  BY <1>3, InnerIsPairing
<1> HIDE DEF q
<1>5. Reaches(nodes, n)
  BY <1>1, ReachesAll
<1> HIDE DEF P
<1>6. ASSUME innerProduct(e, e) = Zero, e.w # Zero PROVE FALSE
  <2>1. PICK i \in Nat : i < P /\ Read(V, e, i, 0, n) # Zero
    BY <1>5, <1>6 DEF Reaches, P
  <2>2. Pairing(q, q, P) = Zero => \A k \in Nat : k < P => q[k] = Zero
    BY <1>1, <1>4, CauchySchwarz
  <2> QED BY <1>4, <1>6, <2>1, <2>2
<1>7. ASSUME e.w = Zero PROVE innerProduct(e, e) = Zero
  <2>1. e = zero
    BY <1>2, <1>7, LevFacts
  <2>2. \A k \in Nat : q[k] = Zero
    BY <1>1, <1>4, <2>1, ReadZero
  <2> DEFINE g == Products(q, q)
  <2>3. g \in [Nat -> Weight] /\ \A k \in Nat : g[k] = Multiply(conjugate(q[k]), q[k])
    BY <1>4, PairingType
  <2>4. Zero \in Weight /\ isZero(Zero)
    BY WeightLaws
  <2>5. Multiply(conjugate(Zero), Zero) = Zero
    BY <2>4, ZeroFactor
  <2> HIDE DEF g
  <2>6. \A k \in Nat : k < P => g[k] = Zero
    BY <2>2, <2>3, <2>5
  <2>7. Total(g)[P] = Zero
    BY <1>1, <2>3, <2>6, TotalZero
  <2> QED BY <1>4, <2>7 DEF Pairing, g
<1> QED BY <1>3, <1>6, <1>7

\* What InnerProductsExact says of the fidelity of two reduced edges.
LEMMA FidelityBounds ==
    ASSUME NEW norm, NEW nodes, Family(V, norm, nodes), norm # "Any",
           NEW d \in EdgesTo(nodes[NumQubits]), NEW e \in EdgesTo(nodes[NumQubits])
    PROVE  /\ NormLike(fidelity(d, e).num)
           /\ NormLike(Subtract(fidelity(d, e).denom, fidelity(d, e).num))
           /\ isZero(fidelity(d, e).denom) <=> isZero(d.w) \/ isZero(e.w)
<1> DEFINE P == Pow2[NumQubits]
           p == Amplitudes(d)
           q == Amplitudes(e)
           pp == Pairing(p, p, P)
           pq == Pairing(p, q, P)
           qq == Pairing(q, q, P)
           f == fidelity(d, e)
<1>1. d \in Edge(V) /\ e \in Edge(V) /\ P \in Nat
  BY ZeroNorm, AlgebraIndices
<1>2. /\ p \in [Nat -> Weight] /\ q \in [Nat -> Weight]
      /\ innerProduct(d, d) = pp /\ innerProduct(d, e) = pq /\ innerProduct(e, e) = qq
  BY <1>1, InnerIsPairing
<1>3. f.num = Multiply(pq, conjugate(pq)) /\ f.denom = Multiply(pp, qq)
  BY <1>2 DEF fidelity, normSquared
<1> HIDE DEF f, p, q, P
<1>4. /\ NormLike(pp) /\ NormLike(qq) /\ pq \in Weight
      /\ NormLike(Subtract(Multiply(pp, qq), Multiply(pq, conjugate(pq))))
  BY <1>1, <1>2, CauchySchwarz
<1>5. pp \in Weight /\ qq \in Weight
  BY <1>4, WeightIsCanonical DEF NormLike
<1>6. pp = Zero <=> d.w = Zero
  BY <1>2, ZeroNorm
<1>7. qq = Zero <=> e.w = Zero
  BY <1>2, ZeroNorm
<1>8. d.w \in Weight /\ e.w \in Weight
  BY EdgeFields
<1> HIDE DEF pp, pq, qq
<1>9. NormLike(f.num)
  <2>1. conjugate(pq) \in Weight
    BY <1>4, SumLaws
  <2>2. Multiply(pq, conjugate(pq)) = Multiply(conjugate(pq), pq)
    BY <1>4, <2>1, WeightLaws
  <2>3. Canonical(pq)
    BY <1>4, WeightIsCanonical
  <2> QED BY <1>3, <2>2, <2>3, NormLikeClosure
<1>10. isZero(f.denom) <=> isZero(d.w) \/ isZero(e.w)
  <2>1. isZero(d.w) <=> d.w = Zero
    BY <1>8, WeightLaws
  <2>2. isZero(e.w) <=> e.w = Zero
    BY <1>8, WeightLaws
  <2>3. f.denom \in Weight
    BY <1>3, <1>5, WeightLaws
  <2>4. isZero(f.denom) <=> f.denom = Zero
    BY <2>3, WeightLaws
  <2>5. f.denom = Zero <=> pp = Zero \/ qq = Zero
    BY <1>3, <1>5, ProductNotZero
  <2> QED BY <1>6, <1>7, <2>1, <2>2, <2>4, <2>5
<1> QED BY <1>3, <1>4, <1>9, <1>10 DEF f

\* The order of NormLike is that of the code.
LEMMA NormLikeNonNegative ==
    ASSUME NEW z, NormLike(z)
    PROVE  NonNegative(z)
BY NormLikeSign DEF NonNegative, NonNegativePair

\* What InnerProductsExact says of one state.
LEMMA ExactNow == IInv => InnerProductsExact
<1> SUFFICES ASSUME IInv PROVE InnerProductsExact
  OBVIOUS
<1> DEFINE nodes == ReducedNodes(V, strategy)
           f == fidelity(x, y)
<1>1. /\ Family(V, strategy, nodes) /\ strategy # "Any"
      /\ x \in EdgesTo(nodes[NumQubits]) /\ y \in EdgesTo(nodes[NumQubits])
      /\ x \in Edge(V) /\ y \in Edge(V) /\ u = Vector(x) /\ v = Vector(y)
  BY ReducedFacts DEF IInv, Strategies
<1> HIDE DEF nodes
<1>2. innerProduct(x, y) = Algebra!Dot(Conjugates(u), v)
  BY <1>1, InnerIsDot
<1>3. /\ NormLike(f.num) /\ NormLike(Subtract(f.denom, f.num))
      /\ isZero(f.denom) <=> isZero(x.w) \/ isZero(y.w)
  BY <1>1, FidelityBounds
<1> HIDE DEF f
<1>4. NonNegative(f.num) /\ NonNegative(Subtract(f.denom, f.num))
  BY <1>3, NormLikeNonNegative
<1> QED BY <1>2, <1>3, <1>4 DEF InnerProductsExact, f

(***************************************************************************)
(* However x and y were computed, their inner product is the sum over all  *)
(* amplitudes; the fidelity is between 0 and 1 (the inequality of Cauchy   *)
(* and Schwarz, without rounding), and it divides by 0 exactly if one of   *)
(* the edges is 0.                                                         *)
(***************************************************************************)
THEOREM InnerProductsAlwaysExact == Spec => []InnerProductsExact
<1>1. Spec => []IInv
  BY InitReduced, NextReduced, PTL DEF Spec
<1> QED BY <1>1, ExactNow, PTL

(***************************************************************************)
(* Sums over two indices, in either order.                                 *)
(***************************************************************************)
RowOf(f, k) == [i \in Nat |-> f[<<k, i>>]]
ColumnOf(f, i) == [k \in Nat |-> f[<<k, i>>]]
RowSums(f, n) == [k \in Nat |-> Total(RowOf(f, k))[n]]
ColumnSums(f, n) == [i \in Nat |-> Total(ColumnOf(f, i))[n]]

\* They are numbers.
LEMMA RowSumsType ==
    ASSUME NEW f \in [Nat \X Nat -> Weight], NEW n \in Nat
    PROVE  /\ RowSums(f, n) \in [Nat -> Weight] /\ ColumnSums(f, n) \in [Nat -> Weight]
           /\ \A k \in Nat : /\ RowOf(f, k) \in [Nat -> Weight] /\ ColumnOf(f, k) \in [Nat -> Weight]
                             /\ RowSums(f, n)[k] = Total(RowOf(f, k))[n]
                             /\ ColumnSums(f, n)[k] = Total(ColumnOf(f, k))[n]
<1>1. ASSUME NEW k \in Nat PROVE RowOf(f, k) \in [Nat -> Weight] /\ ColumnOf(f, k) \in [Nat -> Weight]
  BY DEF RowOf, ColumnOf
<1>2. ASSUME NEW k \in Nat PROVE Total(RowOf(f, k))[n] \in Weight /\ Total(ColumnOf(f, k))[n] \in Weight
  BY <1>1, TotalDef
<1>3. /\ RowSums(f, n) \in [Nat -> Weight]
      /\ \A k \in Nat : RowSums(f, n)[k] = Total(RowOf(f, k))[n]
  BY <1>2 DEF RowSums
<1>4. /\ ColumnSums(f, n) \in [Nat -> Weight]
      /\ \A k \in Nat : ColumnSums(f, n)[k] = Total(ColumnOf(f, k))[n]
  BY <1>2 DEF ColumnSums
<1> QED BY <1>1, <1>3, <1>4

\* The entries.
LEMMA RowEntries ==
    ASSUME NEW f, NEW k \in Nat, NEW i \in Nat
    PROVE  RowOf(f, k)[i] = f[<<k, i>>] /\ ColumnOf(f, i)[k] = f[<<k, i>>]
BY DEF RowOf, ColumnOf

\* One row more.
LEMMA RowMore ==
    ASSUME NEW f \in [Nat \X Nat -> Weight], NEW n \in Nat, NEW k \in Nat,
           Total(RowSums(f, n))[k] = Total(ColumnSums(f, k))[n]
    PROVE  Total(RowSums(f, n))[k + 1] = Total(ColumnSums(f, k + 1))[n]
<1> DEFINE l == k + 1
           rows == RowSums(f, n)
           before == ColumnSums(f, k)
           after == ColumnSums(f, l)
           last == RowOf(f, k)
<1>1. l \in Nat /\ l # 0 /\ l - 1 = k
  OBVIOUS
<1> HIDE DEF l
<1>2. /\ rows \in [Nat -> Weight] /\ last \in [Nat -> Weight] /\ rows[k] = Total(last)[n]
      /\ before \in [Nat -> Weight]
  BY RowSumsType
<1>3. after \in [Nat -> Weight]
  BY <1>1, RowSumsType
<1>4. \A i \in Nat : last[i] = f[<<k, i>>]
  BY RowEntries
<1> HIDE DEF last
<1>5. ASSUME NEW i \in Nat PROVE after[i] = Add(before[i], last[i])
  <2> DEFINE g == ColumnOf(f, i)
  <2>1. g \in [Nat -> Weight] /\ before[i] = Total(g)[k]
    BY RowSumsType
  <2>2. after[i] = Total(g)[l]
    BY <1>1, RowSumsType
  <2>3. g[k] = last[i]
    <3>1. g[k] = f[<<k, i>>]
      BY RowEntries
    <3> QED BY <1>4, <3>1
  <2> HIDE DEF g, before, after
  <2>4. Total(g)[l] = Add(Total(g)[l - 1], g[l - 1])
    BY <1>1, <2>1, TotalDef
  <2> QED BY <1>1, <2>1, <2>2, <2>3, <2>4
<1>6. Total(rows)[l] = Add(Total(rows)[l - 1], rows[l - 1])
  BY <1>1, <1>2, TotalDef
<1> HIDE DEF rows, before, after
<1>7. Total(after)[n] = Add(Total(before)[n], Total(last)[n])
  BY <1>2, <1>3, <1>5, TotalSum
<1>8. Total(rows)[k] = Total(before)[n]
  BY DEF rows, before
<1>9. Total(rows)[l] = Total(after)[n]
  BY <1>1, <1>2, <1>6, <1>7, <1>8
<1> QED BY <1>9 DEF l, rows, after

\* The order does not matter.
LEMMA SumsExchange ==
    ASSUME NEW f \in [Nat \X Nat -> Weight], NEW n \in Nat, NEW k \in Nat
    PROVE  Total(RowSums(f, n))[k] = Total(ColumnSums(f, k))[n]
<1> DEFINE S == {l \in Nat : Total(RowSums(f, n))[l] = Total(ColumnSums(f, l))[n]}
<1>1. 0 \in S
  <2> DEFINE c == ColumnSums(f, 0)
             r == RowSums(f, n)
  <2>1. 0 \in Nat
    OBVIOUS
  <2>2. r \in [Nat -> Weight] /\ c \in [Nat -> Weight]
        /\ \A i \in Nat : ColumnOf(f, i) \in [Nat -> Weight] /\ c[i] = Total(ColumnOf(f, i))[0]
    BY <2>1, RowSumsType
  <2> HIDE DEF c, r
  <2>3. \A i \in Nat : c[i] = Zero
    BY <2>1, <2>2, TotalDef
  <2>4. Total(c)[n] = Zero
    BY <2>2, <2>3, TotalZero
  <2>5. Total(r)[0] = Zero
    BY <2>1, <2>2, TotalDef
  <2> QED BY <2>1, <2>4, <2>5 DEF c, r
<1>2. ASSUME NEW l \in Nat, l \in S PROVE l + 1 \in S
  <2>1. Total(RowSums(f, n))[l] = Total(ColumnSums(f, l))[n]
    BY <1>2
  <2>2. Total(RowSums(f, n))[l + 1] = Total(ColumnSums(f, l + 1))[n]
    BY <2>1, RowMore
  <2> QED BY <2>2
<1> HIDE DEF S
<1>3. Nat \subseteq S
  BY <1>1, <1>2, TotalInduction
<1>4. k \in S
  BY <1>3
<1> QED BY <1>4 DEF S

(***************************************************************************)
(* A matrix with orthonormal columns keeps the norm.                       *)
(***************************************************************************)
RowProducts(f, p, k) == [j \in Nat |-> Multiply(f[<<k, j>>], p[j])]

\* q is f applied to p.
IsImage(f, p, q, n) == \A k \in Nat : k < n => q[k] = Total(RowProducts(f, p, k))[n]

\* The pairing of w with that, column by column.
Expansion(f, p, w, n) == [i \in Nat |-> Multiply(p[i], Pairing(w, ColumnOf(f, i), n))]

\* They are numbers: the column,
LEMMA ColumnType ==
    ASSUME NEW f \in [Nat \X Nat -> Weight], NEW i \in Nat
    PROVE  ColumnOf(f, i) \in [Nat -> Weight] /\ \A k \in Nat : ColumnOf(f, i)[k] = f[<<k, i>>]
BY DEF ColumnOf

\* the products of a row,
LEMMA RowProductsType ==
    ASSUME NEW f \in [Nat \X Nat -> Weight], NEW p \in [Nat -> Weight], NEW i \in Nat
    PROVE  /\ RowProducts(f, p, i) \in [Nat -> Weight]
           /\ \A j \in Nat : RowProducts(f, p, i)[j] = Multiply(f[<<i, j>>], p[j])
<1>1. ASSUME NEW j \in Nat PROVE Multiply(f[<<i, j>>], p[j]) \in Weight
  <2>1. f[<<i, j>>] \in Weight /\ p[j] \in Weight
    OBVIOUS
  <2> QED BY <2>1, WeightLaws
<1> QED BY <1>1 DEF RowProducts

\* and the pairing with the columns.
LEMMA ExpansionType ==
    ASSUME NEW f \in [Nat \X Nat -> Weight], NEW p \in [Nat -> Weight], NEW w \in [Nat -> Weight], NEW n \in Nat
    PROVE  /\ Expansion(f, p, w, n) \in [Nat -> Weight]
           /\ \A i \in Nat : Expansion(f, p, w, n)[i] = Multiply(p[i], Pairing(w, ColumnOf(f, i), n))
<1>2. ASSUME NEW i \in Nat PROVE Pairing(w, ColumnOf(f, i), n) \in Weight
  <2>1. ColumnOf(f, i) \in [Nat -> Weight]
    BY ColumnType
  <2> QED BY <2>1, PairingType
<1>3. ASSUME NEW i \in Nat
      PROVE  Multiply(p[i], Pairing(w, ColumnOf(f, i), n)) \in Weight
  <2>1. p[i] \in Weight
    OBVIOUS
  <2> QED BY <1>2, <2>1, WeightLaws
<1>4. /\ Expansion(f, p, w, n) \in [Nat -> Weight]
      /\ \A i \in Nat : Expansion(f, p, w, n)[i] = Multiply(p[i], Pairing(w, ColumnOf(f, i), n))
  BY <1>3 DEF Expansion
<1> QED BY <1>4

\* The product of three weights, the last first.
LEMMA LastFactorFirst ==
    ASSUME NEW c \in Weight, NEW w \in Weight, NEW z \in Weight
    PROVE  Multiply(c, Multiply(w, z)) = Multiply(z, Multiply(c, w))
<1>1. Multiply(Multiply(c, w), z) = Multiply(c, Multiply(w, z))
  BY WeightLaws
<1> DEFINE d == Multiply(c, w)
<1>2. d \in Weight
  BY WeightLaws
<1> HIDE DEF d
<1>3. Multiply(d, z) = Multiply(z, d)
  BY <1>2, WeightLaws
<1> QED BY <1>1, <1>3 DEF d

\* The sum over the columns is the pairing.
LEMMA PairingImage ==
    ASSUME NEW f \in [Nat \X Nat -> Weight], NEW p \in [Nat -> Weight], NEW q \in [Nat -> Weight],
           NEW n \in Nat, IsImage(f, p, q, n), NEW w \in [Nat -> Weight]
    PROVE  Pairing(w, q, n) = Total(Expansion(f, p, w, n))[n]
<1> DEFINE weighted == [ki \in Nat \X Nat |-> Multiply(conjugate(w[ki[1]]), Multiply(f[ki], p[ki[2]]))]
           pairs == Products(w, q)
           rows == RowSums(weighted, n)
           columns == ColumnSums(weighted, n)
           ex == Expansion(f, p, w, n)
<1>1. ASSUME NEW k \in Nat, NEW i \in Nat
      PROVE  /\ conjugate(w[k]) \in Weight /\ p[i] \in Weight /\ f[<<k, i>>] \in Weight
             /\ Multiply(f[<<k, i>>], p[i]) \in Weight
             /\ Multiply(conjugate(w[k]), Multiply(f[<<k, i>>], p[i])) \in Weight
  <2>1. w[k] \in Weight /\ p[i] \in Weight /\ f[<<k, i>>] \in Weight
    OBVIOUS
  <2>2. conjugate(w[k]) \in Weight
    BY <2>1, SumLaws
  <2>3. Multiply(f[<<k, i>>], p[i]) \in Weight
    BY <2>1, WeightLaws
  <2>4. Multiply(conjugate(w[k]), Multiply(f[<<k, i>>], p[i])) \in Weight
    BY <2>2, <2>3, WeightLaws
  <2> QED BY <2>1, <2>2, <2>3, <2>4
<1>2. /\ weighted \in [Nat \X Nat -> Weight]
      /\ \A k \in Nat, i \in Nat : weighted[<<k, i>>] = Multiply(conjugate(w[k]), Multiply(f[<<k, i>>], p[i]))
  BY <1>1
<1> HIDE DEF weighted
<1>3. /\ rows \in [Nat -> Weight] /\ columns \in [Nat -> Weight]
      /\ \A k \in Nat : /\ RowOf(weighted, k) \in [Nat -> Weight] /\ ColumnOf(weighted, k) \in [Nat -> Weight]
                        /\ rows[k] = Total(RowOf(weighted, k))[n] /\ columns[k] = Total(ColumnOf(weighted, k))[n]
  BY <1>2, RowSumsType
<1>4. Total(rows)[n] = Total(columns)[n]
  BY <1>2, SumsExchange
<1>5. pairs \in [Nat -> Weight] /\ \A k \in Nat : pairs[k] = Multiply(conjugate(w[k]), q[k])
  BY PairingType
<1>6. ex \in [Nat -> Weight] /\ \A i \in Nat : ex[i] = Multiply(p[i], Pairing(w, ColumnOf(f, i), n))
  BY ExpansionType
<1> HIDE DEF rows, columns, pairs, ex
<1>7. ASSUME NEW k \in Nat, k < n PROVE pairs[k] = rows[k]
  <2> DEFINE g == RowProducts(f, p, k)
             h == RowOf(weighted, k)
             c == conjugate(w[k])
  <2>1. g \in [Nat -> Weight] /\ \A j \in Nat : g[j] = Multiply(f[<<k, j>>], p[j])
    BY RowProductsType
  <2>2. h \in [Nat -> Weight] /\ rows[k] = Total(h)[n]
    BY <1>3
  <2>3. \A i \in Nat : h[i] = Multiply(c, Multiply(f[<<k, i>>], p[i]))
    BY <1>2, RowEntries
  <2>4. q[k] = Total(g)[n] /\ pairs[k] = Multiply(c, q[k])
    BY <1>5, <1>7 DEF IsImage
  <2>5. c \in Weight
    BY <1>1
  <2> HIDE DEF g, h, c
  <2>6. \A i \in Nat : i < n => h[i] = Multiply(c, g[i])
    BY <2>1, <2>3
  <2>7. Total(h)[n] = Multiply(c, Total(g)[n])
    BY <2>1, <2>2, <2>5, <2>6, TotalScaled
  <2> QED BY <2>2, <2>4, <2>7
<1>8. ASSUME NEW i \in Nat PROVE columns[i] = ex[i]
  <2> DEFINE g == Products(w, ColumnOf(f, i))
             h == ColumnOf(weighted, i)
             c == p[i]
  <2>1. ColumnOf(f, i) \in [Nat -> Weight] /\ \A k \in Nat : ColumnOf(f, i)[k] = f[<<k, i>>]
    BY ColumnType
  <2>2. g \in [Nat -> Weight] /\ \A k \in Nat : g[k] = Multiply(conjugate(w[k]), ColumnOf(f, i)[k])
    BY <2>1, PairingType
  <2>3. h \in [Nat -> Weight] /\ columns[i] = Total(h)[n]
    BY <1>3
  <2>4. ASSUME NEW k \in Nat PROVE h[k] = Multiply(conjugate(w[k]), Multiply(f[<<k, i>>], c))
    <3>1. h[k] = weighted[<<k, i>>]
      BY RowEntries
    <3>2. weighted[<<k, i>>] = Multiply(conjugate(w[k]), Multiply(f[<<k, i>>], c))
      BY <1>2
    <3> QED BY <3>1, <3>2
  <2>5. ex[i] = Multiply(c, Total(g)[n])
    BY <1>6 DEF Pairing
  <2>6. c \in Weight
    OBVIOUS
  <2> HIDE DEF g, h, c
  <2>7. ASSUME NEW k \in Nat PROVE h[k] = Multiply(c, g[k])
    <3> DEFINE d == conjugate(w[k])
               e == f[<<k, i>>]
    <3>1. d \in Weight /\ e \in Weight
      BY <1>1
    <3>2. h[k] = Multiply(d, Multiply(e, c)) /\ g[k] = Multiply(d, e)
      BY <2>1, <2>2, <2>4
    <3> HIDE DEF d, e
    <3> QED BY <2>6, <3>1, <3>2, LastFactorFirst
  <2>8. \A k \in Nat : k < n => h[k] = Multiply(c, g[k])
    BY <2>7
  <2>9. Total(h)[n] = Multiply(c, Total(g)[n])
    BY <2>2, <2>3, <2>6, <2>8, TotalScaled
  <2> QED BY <2>3, <2>5, <2>9
<1>9. SameUpTo(pairs, rows, n) /\ SameUpTo(columns, ex, n)
  BY <1>7, <1>8 DEF SameUpTo
<1>10. /\ pairs \in [Nat -> Weight] /\ rows \in [Nat -> Weight]
       /\ columns \in [Nat -> Weight] /\ ex \in [Nat -> Weight]
  BY <1>3, <1>5, <1>6
<1>11. Total(pairs)[n] = Total(rows)[n] /\ Total(columns)[n] = Total(ex)[n]
  BY <1>9, <1>10, SameTotals
<1> QED BY <1>4, <1>11 DEF Pairing, pairs, ex

\* The columns are orthonormal.
Orthonormal(f, n) ==
    \A i, j \in Nat : i < n /\ j < n => Pairing(ColumnOf(f, i), ColumnOf(f, j), n) = IF i = j THEN One ELSE Zero

\* Such a matrix keeps the norm of every vector.
LEMMA Isometry ==
    ASSUME NEW f \in [Nat \X Nat -> Weight], NEW p \in [Nat -> Weight], NEW q \in [Nat -> Weight],
           NEW n \in Nat, IsImage(f, p, q, n), Orthonormal(f, n)
    PROVE  Pairing(q, q, n) = Pairing(p, p, n)
<1>0. f \in [Nat \X Nat -> Weight] /\ p \in [Nat -> Weight] /\ q \in [Nat -> Weight] /\ n \in Nat /\ IsImage(f, p, q, n)
  OBVIOUS
<1>1. ASSUME NEW j \in Nat, j < n PROVE Pairing(ColumnOf(f, j), q, n) = p[j]
  <2> DEFINE w == ColumnOf(f, j)
             ex == Expansion(f, p, w, n)
  <2>1. w \in [Nat -> Weight]
    BY ColumnType
  <2>2. \A i \in Nat : i < n => Pairing(w, ColumnOf(f, i), n) = IF j = i THEN One ELSE Zero
    BY <1>1 DEF Orthonormal
  <2> HIDE DEF w
  <2>3. ex \in [Nat -> Weight] /\ \A i \in Nat : ex[i] = Multiply(p[i], Pairing(w, ColumnOf(f, i), n))
    BY <2>1, ExpansionType
  <2>4. Pairing(w, q, n) = Total(ex)[n]
    BY <1>0, <2>1, PairingImage
  <2> HIDE DEF ex
  <2>5. \A i \in Nat : p[i] \in Weight
    OBVIOUS
  <2>6. ASSUME NEW i \in Nat, i < n, i # j PROVE ex[i] = Zero
    <3>1. ex[i] = Multiply(p[i], Zero)
      BY <2>2, <2>3, <2>6
    <3> QED BY <2>5, <3>1, WeightLaws
  <2>7. ex[j] = p[j]
    <3>1. ex[j] = Multiply(p[j], One)
      BY <1>1, <2>2, <2>3
    <3> QED BY <2>5, <3>1, WeightLaws
  <2>8. Total(ex)[n] = ex[j]
    BY <1>1, <2>3, <2>6, TotalSingle
  <2> QED BY <2>4, <2>7, <2>8 DEF w
<1> DEFINE ex == Expansion(f, p, q, n)
           pairs == Products(p, p)
<1>2. Pairing(q, q, n) = Total(ex)[n]
  BY <1>0, PairingImage
<1>3. ex \in [Nat -> Weight] /\ \A i \in Nat : ex[i] = Multiply(p[i], Pairing(q, ColumnOf(f, i), n))
  BY ExpansionType
<1>4. pairs \in [Nat -> Weight] /\ \A i \in Nat : pairs[i] = Multiply(conjugate(p[i]), p[i])
  BY PairingType
<1> HIDE DEF ex, pairs
<1>5. ASSUME NEW j \in Nat, j < n PROVE ex[j] = pairs[j]
  <2> DEFINE w == ColumnOf(f, j)
             c == p[j]
             d == conjugate(c)
  <2>1. w \in [Nat -> Weight] /\ c \in Weight
    BY ColumnType
  <2>2. d \in Weight
    BY <2>1, SumLaws
  <2>3. Pairing(q, w, n) = conjugate(Pairing(w, q, n))
    BY <2>1, PairingConjugate
  <2>4. Pairing(w, q, n) = c
    BY <1>1, <1>5
  <2>5. ex[j] = Multiply(c, d) /\ pairs[j] = Multiply(d, c)
    BY <1>3, <1>4, <2>3, <2>4
  <2> HIDE DEF c, d
  <2> QED BY <2>1, <2>2, <2>5, WeightLaws
<1>6. Total(ex)[n] = Total(pairs)[n]
  <2>1. SameUpTo(ex, pairs, n)
    BY <1>5 DEF SameUpTo
  <2> QED BY <1>3, <1>4, <2>1, SameTotals
<1> QED BY <1>2, <1>6 DEF Pairing, pairs

(***************************************************************************)
(* Sums of which only the terms for a few bits are not 0.                  *)
(***************************************************************************)
\* An index with one bit replaced.
LEMMA BitReplaced ==
    ASSUME NEW n \in Nat, NEW i \in Nat, i < Pow2[n], NEW t \in Nat, t < n, NEW b \in {0, 1}
    PROVE  \E j \in Nat : /\ j < Pow2[n] /\ Bit(j, t) = b
                          /\ \A q \in Nat : q # t => Bit(j, q) = Bit(i, q)
<1> DEFINE o == t + 1
           h == i \div Pow2[o]
           g == i % Pow2[t]
           l == IF b = 0 THEN g ELSE Pow2[t] + g
           P == Pow2[o]
           c == n - o
           j == h * P + l
<1>1. o \in Nat /\ c \in Nat /\ o + c = n
  OBVIOUS
<1>2. P \in Nat /\ Pow2[t] \in Nat /\ P = Pow2[t] + Pow2[t] /\ Pow2[c] \in Nat
  BY <1>1, Pow2Def
<1>3. g \in Nat /\ g < Pow2[t] /\ \A q \in Nat : q < t => Bit(g, q) = Bit(i, q)
  BY HalvesOf, LowerBits
<1>4. h \in Nat /\ \A d \in Nat : Bit(h, d) = Bit(i, o + d)
  BY <1>1, UpperBits
<1>5. h < Pow2[c]
  <2>1. i < Pow2[o + c]
    BY <1>1
  <2> QED BY <1>1, <2>1, HalvesOf
<1>6. Pow2[n] = P * Pow2[c]
  BY <1>1, Pow2Sum
<1> HIDE DEF h, g, c, P, o
<1>7. /\ Bit(g, t) = 0 /\ Bit(Pow2[t] + g, t) = 1
      /\ \A q \in Nat : q < t => Bit(Pow2[t] + g, q) = Bit(g, q)
  BY <1>3, HalfBits
<1>8. /\ l \in Nat /\ l < P /\ Bit(l, t) = b
      /\ \A q \in Nat : q < t => Bit(l, q) = Bit(i, q)
  <2>1. CASE b = 0
    BY <1>2, <1>3, <1>7, <2>1
  <2>2. CASE b = 1
    BY <1>2, <1>3, <1>7, <2>2
  <2> QED BY <2>1, <2>2
<1> HIDE DEF l
<1>9. j \in Nat /\ j < Pow2[n]
  <2>1. h + 1 <= Pow2[c] /\ h + 1 \in Nat
    BY <1>2, <1>4, <1>5
  <2>2. P * (h + 1) <= P * Pow2[c] /\ P * (h + 1) = h * P + P /\ h * P \in Nat /\ P * Pow2[c] \in Nat
    BY <1>2, <1>4, <2>1
  <2> QED BY <1>2, <1>6, <1>8, <2>2
<1>10. \A q \in Nat : q < o => Bit(j, q) = Bit(l, q)
  BY <1>1, <1>4, <1>8, BitsBelow DEF P
<1>11. \A d \in Nat : Bit(j, o + d) = Bit(h, d)
  BY <1>1, <1>4, <1>8, BitsAbove DEF P
<1> HIDE DEF j
<1>12. Bit(j, t) = b
  BY <1>8, <1>10 DEF o
<1>13. ASSUME NEW q \in Nat, q # t PROVE Bit(j, q) = Bit(i, q)
  <2>1. CASE q < t
    <3>1. q < o
      BY <2>1 DEF o
    <3> QED BY <1>8, <1>10, <2>1, <3>1
  <2>2. CASE q > t
    <3> DEFINE d == q - o
    <3>1. d \in Nat /\ o + d = q
      BY <1>1, <1>13, <2>2 DEF o
    <3> HIDE DEF d
    <3> QED BY <1>4, <1>11, <3>1
  <2> QED BY <1>13, <2>1, <2>2
<1> QED BY <1>9, <1>12, <1>13

\* The terms whose index has b at the bit t.
Only(f, t, b) == [k \in Nat |-> IF Bit(k, t) = b THEN f[k] ELSE Zero]

\* They are numbers.
LEMMA OnlyType ==
    ASSUME NEW f \in [Nat -> Weight], NEW t, NEW b
    PROVE  /\ Only(f, t, b) \in [Nat -> Weight]
           /\ \A k \in Nat : Only(f, t, b)[k] = IF Bit(k, t) = b THEN f[k] ELSE Zero
<1>1. Zero \in Weight
  BY WeightLaws
<1> QED BY <1>1 DEF Only

\* The sum is that of the terms with 0 there and of those with 1.
LEMMA TotalByBit ==
    ASSUME NEW f \in [Nat -> Weight], NEW t \in Nat, NEW n \in Nat
    PROVE  Total(f)[n] = Add(Total(Only(f, t, 0))[n], Total(Only(f, t, 1))[n])
<1> DEFINE g == Only(f, t, 0)
           h == Only(f, t, 1)
<1>1. /\ g \in [Nat -> Weight] /\ \A k \in Nat : g[k] = IF Bit(k, t) = 0 THEN f[k] ELSE Zero
      /\ h \in [Nat -> Weight] /\ \A k \in Nat : h[k] = IF Bit(k, t) = 1 THEN f[k] ELSE Zero
  BY OnlyType
<1> HIDE DEF g, h
<1>2. ASSUME NEW k \in Nat PROVE f[k] = Add(g[k], h[k])
  <2>1. f[k] \in Weight
    OBVIOUS
  <2>2. Add(f[k], Zero) = f[k] /\ Add(Zero, f[k]) = f[k]
    BY <2>1, SumLaws
  <2>3. Bit(k, t) \in {0, 1}
    BY BitType
  <2>4. CASE Bit(k, t) = 0
    BY <1>1, <2>2, <2>4
  <2>5. CASE Bit(k, t) = 1
    BY <1>1, <2>2, <2>5
  <2> QED BY <2>3, <2>4, <2>5
<1>3. Total(f)[n] = Add(Total(g)[n], Total(h)[n])
  BY <1>1, <1>2, TotalSum
<1> QED BY <1>3 DEF g, h

\* Indices that agree except in the bits of ts.
AgreeBut(ts, i, j) == \A q \in 0..NumQubits - 1 : q \notin ts => Bit(i, q) = Bit(j, q)

\* The terms for the other indices are 0.
Vanishes(f, ts, i) == \A k \in Nat : k < Pow2[NumQubits] /\ ~AgreeBut(ts, k, i) => f[k] = Zero

\* ... in one bit, of which i has b and j too.
LEMMA AgreeAlso ==
    ASSUME NEW i \in Nat, NEW j \in Nat, i < Pow2[NumQubits], j < Pow2[NumQubits], NEW t,
           AgreeBut({t}, i, j), Bit(i, t) = Bit(j, t)
    PROVE  i = j
<1>1. NumQubits \in Nat
  BY QubitsAssumption
<1>2. \A q \in Nat : q < NumQubits => q \in 0..NumQubits - 1
  BY <1>1
<1>3. \A q \in Nat : q < NumQubits => Bit(i, q) = Bit(j, q)
  BY <1>2 DEF AgreeBut
<1> QED BY <1>1, <1>3, SameIndex

\* One term.
OnlyAt(f, s, n) == \A k \in Nat : k < n /\ k # s => f[k] = Zero

\* It is the sum.
LEMMA SingleTotal ==
    ASSUME NEW f \in [Nat -> Weight], NEW n \in Nat, NEW s \in Nat, s < n, OnlyAt(f, s, n)
    PROVE  Total(f)[n] = f[s]
<1>1. \A k \in Nat : k < n /\ k # s => f[k] = Zero
  BY DEF OnlyAt
<1> QED BY <1>1, TotalSingle

\* Two terms.
LEMMA TwoTermSum ==
    ASSUME NEW f \in [Nat -> Weight], NEW t \in Nat, t < NumQubits,
           NEW i \in Nat, NEW j \in Nat, i < Pow2[NumQubits], j < Pow2[NumQubits],
           Bit(i, t) = 0, Bit(j, t) = 1, AgreeBut({t}, j, i),
           Vanishes(f, {t}, i)
    PROVE  Total(f)[Pow2[NumQubits]] = Add(f[i], f[j])
<1> DEFINE P == Pow2[NumQubits]
           g == Only(f, t, 0)
           h == Only(f, t, 1)
<1>1. /\ g \in [Nat -> Weight] /\ \A k \in Nat : g[k] = IF Bit(k, t) = 0 THEN f[k] ELSE Zero
      /\ h \in [Nat -> Weight] /\ \A k \in Nat : h[k] = IF Bit(k, t) = 1 THEN f[k] ELSE Zero
  BY OnlyType
<1>2. P \in Nat
  BY AlgebraIndices
<1>3. Total(f)[P] = Add(Total(g)[P], Total(h)[P])
  BY <1>2, TotalByBit
<1> HIDE DEF g, h
<1>4. ASSUME NEW k \in Nat, k < P, k # i PROVE g[k] = Zero
  <2>1. CASE Bit(k, t) = 0
    <3>1. ~AgreeBut({t}, k, i)
      BY <1>4, <2>1, AgreeAlso
    <3> QED BY <1>1, <1>4, <2>1, <3>1 DEF Vanishes
  <2> QED BY <1>1, <2>1
<1>5. ASSUME NEW k \in Nat, k < P, k # j PROVE h[k] = Zero
  <2>1. CASE Bit(k, t) = 1
    <3>1. ~AgreeBut({t}, k, j)
      BY <1>5, <2>1, AgreeAlso
    <3>2. ~AgreeBut({t}, k, i)
      BY <3>1 DEF AgreeBut
    <3> QED BY <1>1, <1>5, <2>1, <3>2 DEF Vanishes
  <2> QED BY <1>1, <2>1
<1> HIDE DEF P
<1>6. i < P /\ j < P
  BY DEF P
<1>7. Total(g)[P] = g[i]
  <2>1. OnlyAt(g, i, P)
    BY <1>4 DEF OnlyAt
  <2> QED BY <1>1, <1>2, <1>6, <2>1, SingleTotal
<1>8. Total(h)[P] = h[j]
  <2>1. OnlyAt(h, j, P)
    BY <1>5 DEF OnlyAt
  <2> QED BY <1>1, <1>2, <1>6, <2>1, SingleTotal
<1> QED BY <1>1, <1>3, <1>7, <1>8 DEF P

\* Four terms.
LEMMA FourTermSum ==
    ASSUME NEW f \in [Nat -> Weight], NEW s \in Nat, s < NumQubits, NEW t \in Nat, t < NumQubits, s # t,
           NEW i0 \in Nat, NEW i1 \in Nat, NEW j0 \in Nat, NEW j1 \in Nat,
           i0 < Pow2[NumQubits], i1 < Pow2[NumQubits], j0 < Pow2[NumQubits], j1 < Pow2[NumQubits],
           Bit(i0, s) = 0, Bit(i0, t) = 0, AgreeBut({t}, i1, i0), Bit(i1, t) = 1,
           Bit(j0, s) = 1, Bit(j0, t) = 0, AgreeBut({t}, j1, j0), Bit(j1, t) = 1,
           AgreeBut({s}, j0, i0),
           Vanishes(f, {s, t}, i0)
    PROVE  Total(f)[Pow2[NumQubits]] = Add(Add(f[i0], f[i1]), Add(f[j0], f[j1]))
<1> DEFINE P == Pow2[NumQubits]
           g == Only(f, s, 0)
           h == Only(f, s, 1)
<1>1. /\ g \in [Nat -> Weight] /\ \A k \in Nat : g[k] = IF Bit(k, s) = 0 THEN f[k] ELSE Zero
      /\ h \in [Nat -> Weight] /\ \A k \in Nat : h[k] = IF Bit(k, s) = 1 THEN f[k] ELSE Zero
  BY OnlyType
<1>2. P \in Nat /\ s \in 0..NumQubits - 1 /\ t \in 0..NumQubits - 1
  BY AlgebraIndices
<1>3. Total(f)[P] = Add(Total(g)[P], Total(h)[P])
  BY <1>2, TotalByBit
<1> HIDE DEF g, h
<1>4. Bit(i1, s) = 0 /\ Bit(j1, s) = 1
  BY <1>2 DEF AgreeBut
<1>5. ASSUME NEW k \in Nat, k < P, ~AgreeBut({t}, k, i0) PROVE g[k] = Zero
  <2>1. CASE Bit(k, s) = 0
    <3>1. ~AgreeBut({s, t}, k, i0)
      BY <1>2, <1>5, <2>1 DEF AgreeBut
    <3> QED BY <1>1, <1>5, <2>1, <3>1 DEF Vanishes
  <2> QED BY <1>1, <2>1
<1>6. ASSUME NEW k \in Nat, k < P, ~AgreeBut({t}, k, j0) PROVE h[k] = Zero
  <2>1. CASE Bit(k, s) = 1
    <3>1. ~AgreeBut({s, t}, k, i0)
      BY <1>2, <1>6, <2>1 DEF AgreeBut
    <3> QED BY <1>1, <1>6, <2>1, <3>1 DEF Vanishes
  <2> QED BY <1>1, <2>1
<1>7. Total(g)[P] = Add(g[i0], g[i1])
  <2>1. Vanishes(g, {t}, i0)
    BY <1>5 DEF Vanishes
  <2>2. g \in [Nat -> Weight]
    BY <1>1
  <2>3. t \in Nat /\ t < NumQubits /\ i0 \in Nat /\ i1 \in Nat /\ i0 < Pow2[NumQubits] /\ i1 < Pow2[NumQubits]
    OBVIOUS
  <2>4. Bit(i0, t) = 0 /\ Bit(i1, t) = 1 /\ AgreeBut({t}, i1, i0)
    OBVIOUS
  <2> QED BY <2>1, <2>2, <2>3, <2>4, TwoTermSum
<1>8. Total(h)[P] = Add(h[j0], h[j1])
  <2>1. Vanishes(h, {t}, j0)
    BY <1>6 DEF Vanishes
  <2>2. h \in [Nat -> Weight]
    BY <1>1
  <2>3. t \in Nat /\ t < NumQubits /\ j0 \in Nat /\ j1 \in Nat /\ j0 < Pow2[NumQubits] /\ j1 < Pow2[NumQubits]
    OBVIOUS
  <2>4. Bit(j0, t) = 0 /\ Bit(j1, t) = 1 /\ AgreeBut({t}, j1, j0)
    OBVIOUS
  <2> QED BY <2>1, <2>2, <2>3, <2>4, TwoTermSum
<1> QED BY <1>1, <1>3, <1>4, <1>7, <1>8

(***************************************************************************)
(* A gate given by a unitary matrix: n rows, one after the other, whose    *)
(* columns are orthonormal.                                                *)
(***************************************************************************)
ColumnTerm(f, n, k, i, j) == Multiply(conjugate(f[n * k + i + 1]), f[n * k + j + 1])
ColumnProduct(f, n, i, j) ==
    IF n = 2 THEN Add(ColumnTerm(f, n, 0, i, j), ColumnTerm(f, n, 1, i, j))
    ELSE Add(Add(ColumnTerm(f, n, 0, i, j), ColumnTerm(f, n, 1, i, j)),
             Add(ColumnTerm(f, n, 2, i, j), ColumnTerm(f, n, 3, i, j)))

Unitary(f, n) ==
    \A i, j \in 0..n - 1 : ColumnProduct(f, n, i, j) = IF i = j THEN One ELSE Zero

UnitaryRequest(r) == Unitary(r.matrix, Pow2[Len(r.targets)])

\* The entries of the gate's operator, and the bits of the targets.
GateCells(r) == [ki \in Nat \X Nat |-> Read(M, Gate(r), ki[1], ki[2], NumQubits)]
SelectedAt(r, i) ==
    IF Len(r.targets) = 1 THEN Bit(i, r.targets[1]) ELSE 2 * Bit(i, r.targets[1]) + Bit(i, r.targets[2])
Targeted(r) == {r.targets[k] : k \in DOMAIN r.targets}

\* The gate is an edge, and its entries are numbers.
LEMMA GateCellsType ==
    ASSUME strategy \in Strategies, NEW r \in Request, Accepted(r)
    PROVE  /\ Gate(r) \in Edge(M) /\ GateCells(r) \in [Nat \X Nat -> Weight]
           /\ \A k \in Nat, i \in Nat : GateCells(r)[<<k, i>>] = Read(M, Gate(r), k, i, NumQubits)
<1> DEFINE nodes == Nodes(M, 0)
           e == Gate(r)
           n == NumQubits
<1>1. M \in {V, M} /\ n \in Nat /\ n <= NumQubits
  BY QubitsAssumption
<1>2. Family(M, "Any", nodes) /\ Makes("Any") /\ Edge(M) = EdgesTo(nodes[n])
  BY <1>1, LevFacts DEF Edge
<1> HIDE DEF nodes
<1>3. e \in Edge(M)
  BY <1>2, GateEdges
<1>4. e \in Lev(M, n)
  BY <1>3, EdgeLev
<1> HIDE DEF e, n
<1>5. \A k \in Nat, i \in Nat : Read(M, e, k, i, n) \in Weight
  BY <1>1, <1>4, ReadType
<1>6. GateCells(r) = [ki \in Nat \X Nat |-> Read(M, e, ki[1], ki[2], n)]
  BY DEF GateCells, e, n
<1>7. /\ GateCells(r) \in [Nat \X Nat -> Weight]
      /\ \A k \in Nat, i \in Nat : GateCells(r)[<<k, i>>] = Read(M, e, k, i, n)
  BY <1>5, <1>6
<1> QED BY <1>3, <1>7 DEF e, n

\* The targets and the controls of a request that is accepted.
LEMMA RequestFacts ==
    ASSUME NEW r \in Request, Accepted(r)
    PROVE  /\ r.targets \in Seq(Nat) /\ r.controls \in Seq(Nat)
           /\ \A c \in DOMAIN r.controls : r.controls[c] \in 0..NumQubits - 1 /\ r.controls[c] \notin Targeted(r)
           /\ \/ /\ Len(r.targets) = 1 /\ DOMAIN r.targets = {1} /\ Targeted(r) = {r.targets[1]}
                 /\ r.targets[1] \in Nat /\ r.targets[1] < NumQubits
                 /\ Pow2[Len(r.targets)] = 2 /\ r.matrix \in [1..4 -> Weight]
              \/ /\ Len(r.targets) = 2 /\ DOMAIN r.targets = {1, 2} /\ Targeted(r) = {r.targets[1], r.targets[2]}
                 /\ r.targets[1] \in Nat /\ r.targets[1] < NumQubits
                 /\ r.targets[2] \in Nat /\ r.targets[2] < NumQubits /\ r.targets[1] # r.targets[2]
                 /\ Pow2[Len(r.targets)] = 4 /\ r.matrix \in [1..16 -> Weight]
<1> DEFINE ts == r.targets
           cs == r.controls
<1>1. /\ ts \in Seq(Nat) /\ cs \in Seq(Nat)
      /\ \/ Len(ts) = 1 /\ r.matrix \in [1..4 -> Weight]
         \/ Len(ts) = 2 /\ r.matrix \in [1..16 -> Weight]
  BY RequestAssumption
<1>2. TargetsAccepted(ts) /\ ControlsAccepted(cs, Range(ts)) /\ Targeted(r) = Range(ts)
  BY DEF Accepted, Targeted, Range
<1>3. Targeted(r) = {ts[k] : k \in DOMAIN ts}
  BY DEF Targeted
<1>4. Pow2[1] = 2 /\ Pow2[2] = 4
  <2>1. Pow2[1] = 2 * Pow2[0] /\ Pow2[0] = 1 /\ Pow2[2] = 2 * Pow2[1]
    BY Pow2Def
  <2> QED BY <2>1
<1>5. \A c \in DOMAIN cs : cs[c] \in 0..NumQubits - 1 /\ cs[c] \notin Targeted(r)
  <2>1. \A c \in DOMAIN cs : cs[c] < NumQubits /\ cs[c] \notin Targeted(r)
    BY <1>2 DEF ControlsAccepted
  <2>2. \A c \in DOMAIN cs : cs[c] \in Nat
    BY <1>1
  <2> HIDE DEF cs
  <2> QED BY <2>1, <2>2, QubitsAssumption
<1>6. CASE Len(ts) = 1
  <2>1. DOMAIN ts = {1} /\ ts[1] \in Nat
    BY <1>1, <1>6
  <2>2. ts[1] < NumQubits
    BY <1>2, <2>1 DEF TargetsAccepted
  <2>3. Targeted(r) = {ts[1]}
    BY <1>3, <2>1
  <2> HIDE DEF ts, cs
  <2> QED BY <1>1, <1>4, <1>5, <1>6, <2>1, <2>2, <2>3 DEF ts, cs
<1>7. CASE Len(ts) = 2
  <2>1. DOMAIN ts = {1, 2} /\ ts[1] \in Nat /\ ts[2] \in Nat
    BY <1>1, <1>7, PairOfTargets
  <2>2. ts[1] < NumQubits /\ ts[2] < NumQubits /\ ts[1] # ts[2]
    <3>1. 1 \in DOMAIN ts /\ 2 \in DOMAIN ts /\ 1 # 2
      BY <2>1
    <3> QED BY <1>2, <3>1 DEF TargetsAccepted
  <2>3. Targeted(r) = {ts[1], ts[2]}
    BY <1>3, <2>1
  <2> HIDE DEF ts, cs
  <2> QED BY <1>1, <1>4, <1>5, <1>7, <2>1, <2>2, <2>3 DEF ts, cs
<1> QED BY <1>1, <1>6, <1>7

\* Spectators are the qubits that are not targets; the controls are among them.
LEMMA SpectatorsAgree ==
    ASSUME NEW r \in Request, Accepted(r), NEW i, NEW j
    PROVE  /\ Spectating(r, i, j) <=> AgreeBut(Targeted(r), i, j)
           /\ AgreeBut(Targeted(r), i, j) => (Firing(r, i) <=> Firing(r, j))
<1>1. \A q : q \notin Targeted(r) <=> \A k \in DOMAIN r.targets : q # r.targets[k]
  BY DEF Targeted
<1>2. Spectating(r, i, j) <=> AgreeBut(Targeted(r), i, j)
  BY <1>1 DEF Spectating, AgreeBut
<1>3. ASSUME AgreeBut(Targeted(r), i, j) PROVE Firing(r, i) <=> Firing(r, j)
  <2>1. \A c \in DOMAIN r.controls : r.controls[c] \in 0..NumQubits - 1 /\ r.controls[c] \notin Targeted(r)
    BY RequestFacts
  <2>2. \A c \in DOMAIN r.controls : Bit(i, r.controls[c]) = Bit(j, r.controls[c])
    BY <1>3, <2>1 DEF AgreeBut
  <2> QED BY <2>2 DEF Firing
<1> QED BY <1>2, <1>3

\* The entries, as the algebra has them.
LEMMA GateCell ==
    ASSUME strategy \in Strategies, NEW r \in Request, Accepted(r),
           NEW k \in Nat, k < Pow2[NumQubits], NEW i \in Nat, i < Pow2[NumQubits]
    PROVE  /\ ~AgreeBut(Targeted(r), k, i) => GateCells(r)[<<k, i>>] = Zero
           /\ AgreeBut(Targeted(r), k, i) /\ Firing(r, k) =>
                 GateCells(r)[<<k, i>>] = r.matrix[Pow2[Len(r.targets)] * SelectedAt(r, k) + SelectedAt(r, i) + 1]
           /\ AgreeBut(Targeted(r), k, i) /\ ~Firing(r, k) =>
                 GateCells(r)[<<k, i>>] = IF k = i THEN One ELSE Zero
<1> DEFINE l == k + 1
           j == i + 1
<1>1. l \in Positions /\ j \in Positions /\ l - 1 = k /\ j - 1 = i /\ (l = j <=> k = i)
  BY AlgebraIndices
<1> HIDE DEF l, j
<1>2. Algebra!Operator(r)[l][j] = Read(M, Gate(r), k, i, NumQubits)
  <2>1. CASE Len(r.targets) = 1
    BY <1>1, <2>1, SingleTargetOperator
  <2>2. CASE Len(r.targets) = 2
    BY <1>1, <2>2, TwoTargetOperator
  <2> QED BY <2>1, <2>2, RequestFacts
<1>3. GateCells(r)[<<k, i>>] = Algebra!Operator(r)[l][j]
  BY <1>2, GateCellsType
<1>4. OperatorCases(r, l, j)
  BY <1>1, RequestFacts, OperatorEntry
<1>5. Algebra!Selected(l, r.targets) = SelectedAt(r, k) /\ Algebra!Selected(j, r.targets) = SelectedAt(r, i)
  <2>1. /\ Algebra!Bit(l, r.targets[1]) = Bit(k, r.targets[1]) /\ Algebra!Bit(l, r.targets[2]) = Bit(k, r.targets[2])
        /\ Algebra!Bit(j, r.targets[1]) = Bit(i, r.targets[1]) /\ Algebra!Bit(j, r.targets[2]) = Bit(i, r.targets[2])
    BY <1>1, AlgebraIndices DEF Algebra!Bit, Bit
  <2>2. r.targets \in Seq(Nat) /\ (Len(r.targets) = 1 \/ Len(r.targets) = 2)
    BY RequestFacts
  <2>3. \A s \in {l, j} : /\ Len(r.targets) = 1 => Algebra!Selected(s, r.targets) = 2 * 0 + Algebra!Bit(s, r.targets[1])
                          /\ Len(r.targets) = 2 => Algebra!Selected(s, r.targets)
                                = 2 * (2 * 0 + Algebra!Bit(s, r.targets[1])) + Algebra!Bit(s, r.targets[2])
    BY <2>2, SelectedBits
  <2>4. CASE Len(r.targets) = 1
    <3>1. r.targets[1] \in Nat
      BY <2>4, RequestFacts
    <3>2. Bit(k, r.targets[1]) \in {0, 1} /\ Bit(i, r.targets[1]) \in {0, 1}
      BY <3>1, BitType
    <3> QED BY <2>1, <2>3, <2>4, <3>2 DEF SelectedAt
  <2>5. CASE Len(r.targets) = 2
    <3>1. r.targets[1] \in Nat /\ r.targets[2] \in Nat
      BY <2>5, RequestFacts
    <3>2. /\ Bit(k, r.targets[1]) \in {0, 1} /\ Bit(i, r.targets[1]) \in {0, 1}
          /\ Bit(k, r.targets[2]) \in {0, 1} /\ Bit(i, r.targets[2]) \in {0, 1}
      BY <3>1, BitType
    <3> QED BY <2>1, <2>3, <2>5, <3>2 DEF SelectedAt
  <2> QED BY <2>2, <2>4, <2>5
<1>6. Spectating(r, k, i) <=> AgreeBut(Targeted(r), k, i)
  BY SpectatorsAgree
<1> QED BY <1>1, <1>3, <1>4, <1>5, <1>6 DEF OperatorCases

\* 1 is real.
LEMMA ConjugateOfOne == conjugate(One) = One
<1>1. One \in Weight
  BY WeightLaws DEF NonZero
<1>2. NormLike(Multiply(conjugate(One), One)) /\ conjugate(One) \in Weight
  BY <1>1, NormLikeClosure, WeightIsCanonical, SumLaws
<1>3. Multiply(conjugate(One), One) = conjugate(One)
  BY <1>2, WeightLaws
<1>4. conjugate(conjugate(One)) = conjugate(One)
  BY <1>2, <1>3, NormLikeFacts
<1>5. conjugate(conjugate(One)) = One
  BY <1>1, ConjugateSums
<1> QED BY <1>4, <1>5

\* The product of two entries of a row.
CellProducts(r, i, j) == Products(ColumnOf(GateCells(r), i), ColumnOf(GateCells(r), j))

\* They are numbers.
LEMMA CellProductsType ==
    ASSUME strategy \in Strategies, NEW r \in Request, Accepted(r), NEW i \in Nat, NEW j \in Nat
    PROVE  CellProducts(r, i, j) \in [Nat -> Weight]
<1> DEFINE G == GateCells(r)
           p == ColumnOf(G, i)
           q == ColumnOf(G, j)
<1>1. strategy \in Strategies /\ Accepted(r)
  OBVIOUS
<1>2. G \in [Nat \X Nat -> Weight]
  BY <1>1, GateCellsType
<1>3. CellProducts(r, i, j) = Products(p, q)
  BY DEF CellProducts
<1> HIDE DEF G
<1>4. p \in [Nat -> Weight] /\ q \in [Nat -> Weight]
  BY <1>2 DEF ColumnOf
<1> HIDE DEF p, q
<1>5. Products(p, q) \in [Nat -> Weight] /\ Pairing(p, q, 0) \in Weight
  BY <1>4, PairingType
<1> QED BY <1>3, <1>5

\* A row that is not of one of the two indices' group gives 0; one on which
\* the gate does not fire, the identity's product; the others, the matrix's.
LEMMA CellProduct ==
    ASSUME strategy \in Strategies, NEW r \in Request, Accepted(r),
           NEW k \in Nat, k < Pow2[NumQubits],
           NEW i \in Nat, i < Pow2[NumQubits], NEW j \in Nat, j < Pow2[NumQubits]
    PROVE  /\ ~AgreeBut(Targeted(r), k, i) \/ ~AgreeBut(Targeted(r), k, j) => CellProducts(r, i, j)[k] = Zero
           /\ AgreeBut(Targeted(r), k, i) /\ AgreeBut(Targeted(r), k, j) /\ ~Firing(r, k) =>
                 CellProducts(r, i, j)[k] = IF k = i /\ k = j THEN One ELSE Zero
           /\ AgreeBut(Targeted(r), k, i) /\ AgreeBut(Targeted(r), k, j) /\ Firing(r, k) =>
                 CellProducts(r, i, j)[k]
                     = ColumnTerm(r.matrix, Pow2[Len(r.targets)], SelectedAt(r, k), SelectedAt(r, i), SelectedAt(r, j))
<1> DEFINE G == GateCells(r)
           a1 == G[<<k, i>>]
           a2 == G[<<k, j>>]
           d == CellProducts(r, i, j)[k]
<1>1. strategy \in Strategies /\ Accepted(r)
  OBVIOUS
<1>2. G \in [Nat \X Nat -> Weight]
  BY <1>1, GateCellsType
<1>3. /\ ColumnOf(G, i) \in [Nat -> Weight] /\ ColumnOf(G, i)[k] = a1
      /\ ColumnOf(G, j) \in [Nat -> Weight] /\ ColumnOf(G, j)[k] = a2
  BY <1>2, ColumnType
<1>4. d = Multiply(conjugate(a1), a2)
  BY <1>3, PairingType DEF CellProducts
<1>5. a1 \in Weight /\ a2 \in Weight
  BY <1>2
<1>6. /\ ~AgreeBut(Targeted(r), k, i) => a1 = Zero
      /\ AgreeBut(Targeted(r), k, i) /\ Firing(r, k) =>
            a1 = r.matrix[Pow2[Len(r.targets)] * SelectedAt(r, k) + SelectedAt(r, i) + 1]
      /\ AgreeBut(Targeted(r), k, i) /\ ~Firing(r, k) => a1 = IF k = i THEN One ELSE Zero
  BY <1>1, GateCell
<1>7. /\ ~AgreeBut(Targeted(r), k, j) => a2 = Zero
      /\ AgreeBut(Targeted(r), k, j) /\ Firing(r, k) =>
            a2 = r.matrix[Pow2[Len(r.targets)] * SelectedAt(r, k) + SelectedAt(r, j) + 1]
      /\ AgreeBut(Targeted(r), k, j) /\ ~Firing(r, k) => a2 = IF k = j THEN One ELSE Zero
  BY <1>1, GateCell
<1> HIDE DEF a1, a2, G, d
<1>8. conjugate(a1) \in Weight /\ conjugate(Zero) = Zero /\ Zero \in Weight /\ One \in Weight
  BY <1>5, SumLaws, WeightLaws DEF NonZero
<1>9. conjugate(One) = One
  BY ConjugateOfOne
<1>10. a1 = Zero => d = Zero
  BY <1>4, <1>5, <1>8, WeightLaws
<1>11. a2 = Zero => d = Zero
  BY <1>4, <1>8, WeightLaws
<1>12. a1 = One /\ a2 = One => d = One
  BY <1>4, <1>8, <1>9, WeightLaws
<1>13. ASSUME AgreeBut(Targeted(r), k, i), AgreeBut(Targeted(r), k, j), Firing(r, k)
       PROVE  d = ColumnTerm(r.matrix, Pow2[Len(r.targets)], SelectedAt(r, k), SelectedAt(r, i), SelectedAt(r, j))
  BY <1>4, <1>6, <1>7, <1>13 DEF ColumnTerm
<1> QED BY <1>6, <1>7, <1>10, <1>11, <1>12, <1>13 DEF d

\* Agreement is an equivalence.
LEMMA AgreeingIndices ==
    ASSUME NEW ts, NEW i, NEW j, NEW k
    PROVE  /\ AgreeBut(ts, i, i)
           /\ AgreeBut(ts, i, j) => AgreeBut(ts, j, i)
           /\ AgreeBut(ts, i, j) /\ AgreeBut(ts, j, k) => AgreeBut(ts, i, k)
BY DEF AgreeBut

\* The sum of them, where the gate does not act on both.
LEMMA UntouchedColumns ==
    ASSUME strategy \in Strategies, NEW r \in Request, Accepted(r),
           NEW i \in Nat, i < Pow2[NumQubits], NEW j \in Nat, j < Pow2[NumQubits],
           ~AgreeBut(Targeted(r), i, j) \/ ~Firing(r, i)
    PROVE  Total(CellProducts(r, i, j))[Pow2[NumQubits]] = IF i = j THEN One ELSE Zero
<1> DEFINE f == CellProducts(r, i, j)
           P == Pow2[NumQubits]
<1>1. strategy \in Strategies /\ Accepted(r) /\ P \in Nat
  BY AlgebraIndices
<1>2. f \in [Nat -> Weight]
  BY <1>1, CellProductsType
<1>3. CASE ~AgreeBut(Targeted(r), i, j)
  <2>1. i # j
    BY <1>3, AgreeingIndices
  <2>2. ASSUME NEW k \in Nat, k < P PROVE f[k] = Zero
    <3>1. ~AgreeBut(Targeted(r), k, i) \/ ~AgreeBut(Targeted(r), k, j)
      BY <1>3, AgreeingIndices
    <3> QED BY <1>1, <2>2, <3>1, CellProduct
  <2> HIDE DEF f, P
  <2>3. Total(f)[P] = Zero
    BY <1>1, <1>2, <2>2, TotalZero
  <2> QED BY <2>1, <2>3 DEF f, P
<1>4. CASE AgreeBut(Targeted(r), i, j) /\ ~Firing(r, i)
  <2>1. ASSUME NEW k \in Nat, k < P PROVE f[k] = IF k = i /\ k = j THEN One ELSE Zero
    <3>1. CASE AgreeBut(Targeted(r), k, i)
      <4>1. AgreeBut(Targeted(r), k, j)
        BY <1>4, <3>1, AgreeingIndices
      <4>2. ~Firing(r, k)
        BY <1>1, <1>4, <3>1, SpectatorsAgree
      <4> QED BY <1>1, <2>1, <3>1, <4>1, <4>2, CellProduct
    <3>2. CASE ~AgreeBut(Targeted(r), k, i)
      <4>1. k # i
        BY <3>2, AgreeingIndices
      <4>2. f[k] = Zero
        BY <1>1, <2>1, <3>2, CellProduct
      <4> QED BY <4>1, <4>2
    <3> QED BY <3>1, <3>2
  <2>2. i < P
    OBVIOUS
  <2> HIDE DEF f, P
  <2>3. \A k \in Nat : k < P /\ k # i => f[k] = Zero
    BY <2>1
  <2>4. f[i] = IF i = j THEN One ELSE Zero
    BY <2>1, <2>2
  <2>5. Total(f)[P] = f[i]
    BY <1>1, <1>2, <2>2, <2>3, TotalSingle
  <2> QED BY <2>4, <2>5 DEF f, P
<1> QED BY <1>3, <1>4

\* The rows of c's group, if the gate fires on them.
GroupOfTerms(r, i, j, c) ==
    \A k \in Nat : k < Pow2[NumQubits] /\ AgreeBut(Targeted(r), k, c) =>
        CellProducts(r, i, j)[k]
            = ColumnTerm(r.matrix, Pow2[Len(r.targets)], SelectedAt(r, k), SelectedAt(r, i), SelectedAt(r, j))

\* A group of rows on which the gate fires: the products are the matrix's.
LEMMA GroupProducts ==
    ASSUME strategy \in Strategies, NEW r \in Request, Accepted(r),
           NEW i \in Nat, i < Pow2[NumQubits], NEW j \in Nat, j < Pow2[NumQubits],
           AgreeBut(Targeted(r), i, j), Firing(r, i),
           NEW c \in Nat, c < Pow2[NumQubits], AgreeBut(Targeted(r), c, i)
    PROVE  /\ Vanishes(CellProducts(r, i, j), Targeted(r), c)
           /\ GroupOfTerms(r, i, j, c)
<1> DEFINE f == CellProducts(r, i, j)
<1>1. strategy \in Strategies /\ Accepted(r)
  OBVIOUS
<1>2. ASSUME NEW k \in Nat, k < Pow2[NumQubits], ~AgreeBut(Targeted(r), k, c) PROVE f[k] = Zero
  <2>1. ~AgreeBut(Targeted(r), k, i)
    BY <1>2, AgreeingIndices
  <2> QED BY <1>1, <1>2, <2>1, CellProduct
<1>3. ASSUME NEW k \in Nat, k < Pow2[NumQubits], AgreeBut(Targeted(r), k, c)
      PROVE  f[k] = ColumnTerm(r.matrix, Pow2[Len(r.targets)], SelectedAt(r, k), SelectedAt(r, i), SelectedAt(r, j))
  <2>1. AgreeBut(Targeted(r), k, i)
    BY <1>3, AgreeingIndices
  <2>2. AgreeBut(Targeted(r), k, j)
    BY <2>1, AgreeingIndices
  <2>3. Firing(r, k)
    BY <1>1, <2>1, SpectatorsAgree
  <2> QED BY <1>1, <1>3, <2>1, <2>2, <2>3, CellProduct
<1> HIDE DEF f
<1>4. Vanishes(f, Targeted(r), c)
  BY <1>2 DEF Vanishes
<1> QED BY <1>3, <1>4 DEF f, GroupOfTerms

\* What the unitary matrix gives for the columns of two indices.
LEMMA UnitaryColumns ==
    ASSUME NEW r, UnitaryRequest(r), NEW i, NEW j,
           SelectedAt(r, i) \in 0..Pow2[Len(r.targets)] - 1, SelectedAt(r, j) \in 0..Pow2[Len(r.targets)] - 1
    PROVE  ColumnProduct(r.matrix, Pow2[Len(r.targets)], SelectedAt(r, i), SelectedAt(r, j))
               = IF SelectedAt(r, i) = SelectedAt(r, j) THEN One ELSE Zero
BY DEF UnitaryRequest, Unitary

\* The columns, with one target.
LEMMA SingleTargetColumns ==
    ASSUME strategy \in Strategies, NEW r \in Request, Accepted(r), UnitaryRequest(r), Len(r.targets) = 1,
           NEW i \in Nat, i < Pow2[NumQubits], NEW j \in Nat, j < Pow2[NumQubits],
           AgreeBut(Targeted(r), i, j), Firing(r, i)
    PROVE  Total(CellProducts(r, i, j))[Pow2[NumQubits]] = IF i = j THEN One ELSE Zero
<1> DEFINE f == CellProducts(r, i, j)
           t == r.targets[1]
           P == Pow2[NumQubits]
<1>1. strategy \in Strategies /\ Accepted(r) /\ AgreeBut(Targeted(r), i, j) /\ Firing(r, i) /\ UnitaryRequest(r)
  OBVIOUS
<1>2. /\ t \in Nat /\ t < NumQubits /\ Targeted(r) = {t} /\ Pow2[Len(r.targets)] = 2
      /\ NumQubits \in Nat /\ P \in Nat
  BY RequestFacts, AlgebraIndices
<1>3. \A k : SelectedAt(r, k) = Bit(k, t)
  BY DEF SelectedAt
<1> HIDE DEF t
<1>4. PICK c \in Nat : c < P /\ Bit(c, t) = 0 /\ \A q \in Nat : q # t => Bit(c, q) = Bit(i, q)
  BY <1>2, BitReplaced
<1>5. PICK d \in Nat : d < P /\ Bit(d, t) = 1 /\ \A q \in Nat : q # t => Bit(d, q) = Bit(i, q)
  BY <1>2, BitReplaced
<1>6. AgreeBut({t}, c, i) /\ AgreeBut({t}, d, c)
  BY <1>2, <1>4, <1>5 DEF AgreeBut
<1>7. /\ Vanishes(f, {t}, c)
      /\ \A k \in Nat : k < P /\ AgreeBut({t}, k, c) =>
            f[k] = ColumnTerm(r.matrix, 2, SelectedAt(r, k), SelectedAt(r, i), SelectedAt(r, j))
  <2>1. AgreeBut(Targeted(r), c, i) /\ c \in Nat /\ c < Pow2[NumQubits]
    BY <1>2, <1>4, <1>6
  <2>2. Vanishes(CellProducts(r, i, j), Targeted(r), c) /\ GroupOfTerms(r, i, j, c)
    BY <1>1, <2>1, GroupProducts
  <2> QED BY <1>2, <2>2 DEF GroupOfTerms
<1>8. f \in [Nat -> Weight]
  BY <1>1, CellProductsType
<1> HIDE DEF f
<1>9. f[c] = ColumnTerm(r.matrix, 2, 0, SelectedAt(r, i), SelectedAt(r, j))
  BY <1>3, <1>4, <1>7, AgreeingIndices
<1>10. f[d] = ColumnTerm(r.matrix, 2, 1, SelectedAt(r, i), SelectedAt(r, j))
  BY <1>3, <1>5, <1>6, <1>7
<1>11. Total(f)[P] = Add(f[c], f[d])
  BY <1>2, <1>4, <1>5, <1>6, <1>7, <1>8, TwoTermSum
<1>12. SelectedAt(r, i) \in 0..1 /\ SelectedAt(r, j) \in 0..1
  <2>1. Bit(i, t) \in {0, 1} /\ Bit(j, t) \in {0, 1}
    BY <1>2, BitType
  <2> QED BY <1>3, <2>1
<1>13. ColumnProduct(r.matrix, 2, SelectedAt(r, i), SelectedAt(r, j))
           = IF SelectedAt(r, i) = SelectedAt(r, j) THEN One ELSE Zero
  <2>1. /\ SelectedAt(r, i) \in 0..Pow2[Len(r.targets)] - 1
        /\ SelectedAt(r, j) \in 0..Pow2[Len(r.targets)] - 1
    BY <1>2, <1>12
  <2>2. ColumnProduct(r.matrix, Pow2[Len(r.targets)], SelectedAt(r, i), SelectedAt(r, j))
            = IF SelectedAt(r, i) = SelectedAt(r, j) THEN One ELSE Zero
    BY <1>1, <2>1, UnitaryColumns
  <2> QED BY <1>2, <2>2
<1>14. SelectedAt(r, i) = SelectedAt(r, j) <=> i = j
  <2>1. ASSUME SelectedAt(r, i) = SelectedAt(r, j) PROVE i = j
    BY <1>1, <1>2, <1>3, <2>1, AgreeAlso
  <2> QED BY <2>1
<1>15. Total(f)[P] = ColumnProduct(r.matrix, 2, SelectedAt(r, i), SelectedAt(r, j))
  BY <1>9, <1>10, <1>11 DEF ColumnProduct
<1> QED BY <1>13, <1>14, <1>15 DEF f, P

\* With two targets.
LEMMA TwoTargetColumns ==
    ASSUME strategy \in Strategies, NEW r \in Request, Accepted(r), UnitaryRequest(r), Len(r.targets) = 2,
           NEW i \in Nat, i < Pow2[NumQubits], NEW j \in Nat, j < Pow2[NumQubits],
           AgreeBut(Targeted(r), i, j), Firing(r, i)
    PROVE  Total(CellProducts(r, i, j))[Pow2[NumQubits]] = IF i = j THEN One ELSE Zero
<1> DEFINE f == CellProducts(r, i, j)
           s == r.targets[1]
           t == r.targets[2]
           P == Pow2[NumQubits]
<1>1. strategy \in Strategies /\ Accepted(r) /\ AgreeBut(Targeted(r), i, j) /\ Firing(r, i) /\ UnitaryRequest(r)
  OBVIOUS
<1>2. /\ s \in Nat /\ s < NumQubits /\ t \in Nat /\ t < NumQubits /\ s # t
      /\ Targeted(r) = {s, t} /\ Pow2[Len(r.targets)] = 4
      /\ NumQubits \in Nat /\ P \in Nat
  <2>1. Len(r.targets) = 2 /\ Len(r.targets) # 1
    OBVIOUS
  <2>2. NumQubits \in Nat /\ P \in Nat
    BY AlgebraIndices
  <2>3. Accepted(r)
    BY <1>1
  <2> QED BY <2>1, <2>2, <2>3, RequestFacts
<1>3. \A k : SelectedAt(r, k) = 2 * Bit(k, s) + Bit(k, t)
  BY DEF SelectedAt
<1> HIDE DEF s, t
<1>4. ASSUME NEW b1 \in {0, 1}, NEW b2 \in {0, 1}
      PROVE  \E k \in Nat : /\ k < P /\ Bit(k, s) = b1 /\ Bit(k, t) = b2
                            /\ \A q \in Nat : q # s /\ q # t => Bit(k, q) = Bit(i, q)
  <2>1. \E h \in Nat : h < P /\ Bit(h, s) = b1 /\ \A q \in Nat : q # s => Bit(h, q) = Bit(i, q)
    <3>1. NumQubits \in Nat /\ s \in Nat /\ s < NumQubits
      BY <1>2
    <3> QED BY <3>1, BitReplaced
  <2>2. PICK h \in Nat : h < P /\ Bit(h, s) = b1 /\ \A q \in Nat : q # s => Bit(h, q) = Bit(i, q)
    BY <2>1
  <2>3. \E k \in Nat : k < P /\ Bit(k, t) = b2 /\ \A q \in Nat : q # t => Bit(k, q) = Bit(h, q)
    <3>1. NumQubits \in Nat /\ h < Pow2[NumQubits] /\ t \in Nat /\ t < NumQubits
      BY <1>2, <2>2
    <3> QED BY <3>1, BitReplaced
  <2>4. PICK k \in Nat : k < P /\ Bit(k, t) = b2 /\ \A q \in Nat : q # t => Bit(k, q) = Bit(h, q)
    BY <2>3
  <2> QED BY <1>2, <2>2, <2>4
<1>5. PICK i0 \in Nat : /\ i0 < P /\ Bit(i0, s) = 0 /\ Bit(i0, t) = 0
                        /\ \A q \in Nat : q # s /\ q # t => Bit(i0, q) = Bit(i, q)
  BY <1>4
<1>6. PICK i1 \in Nat : /\ i1 < P /\ Bit(i1, s) = 0 /\ Bit(i1, t) = 1
                        /\ \A q \in Nat : q # s /\ q # t => Bit(i1, q) = Bit(i, q)
  BY <1>4
<1>7. PICK j0 \in Nat : /\ j0 < P /\ Bit(j0, s) = 1 /\ Bit(j0, t) = 0
                        /\ \A q \in Nat : q # s /\ q # t => Bit(j0, q) = Bit(i, q)
  BY <1>4
<1>8. PICK j1 \in Nat : /\ j1 < P /\ Bit(j1, s) = 1 /\ Bit(j1, t) = 1
                        /\ \A q \in Nat : q # s /\ q # t => Bit(j1, q) = Bit(i, q)
  BY <1>4
<1>9. \A q \in 0..NumQubits - 1 : q \in Nat
  BY <1>2
<1>10. /\ AgreeBut({s, t}, i0, i) /\ AgreeBut({s, t}, i0, i0)
       /\ AgreeBut({s, t}, i1, i0) /\ AgreeBut({s, t}, j0, i0) /\ AgreeBut({s, t}, j1, i0)
  BY <1>5, <1>6, <1>7, <1>8, <1>9 DEF AgreeBut
<1>11. /\ AgreeBut({t}, i1, i0) /\ AgreeBut({t}, j1, j0) /\ AgreeBut({s}, j0, i0)
  BY <1>5, <1>6, <1>7, <1>8, <1>9 DEF AgreeBut
<1>12. /\ Vanishes(f, {s, t}, i0)
       /\ \A k \in Nat : k < P /\ AgreeBut({s, t}, k, i0) =>
             f[k] = ColumnTerm(r.matrix, 4, SelectedAt(r, k), SelectedAt(r, i), SelectedAt(r, j))
  <2>1. AgreeBut(Targeted(r), i0, i) /\ i0 \in Nat /\ i0 < Pow2[NumQubits]
    BY <1>2, <1>5, <1>10
  <2>2. Vanishes(CellProducts(r, i, j), Targeted(r), i0) /\ GroupOfTerms(r, i, j, i0)
    BY <1>1, <2>1, GroupProducts
  <2> QED BY <1>2, <2>2 DEF GroupOfTerms
<1>13. f \in [Nat -> Weight]
  BY <1>1, CellProductsType
<1> HIDE DEF f
<1>14. SelectedAt(r, i0) = 0 /\ SelectedAt(r, i1) = 1 /\ SelectedAt(r, j0) = 2 /\ SelectedAt(r, j1) = 3
  BY <1>3, <1>5, <1>6, <1>7, <1>8
<1>15. /\ f[i0] = ColumnTerm(r.matrix, 4, 0, SelectedAt(r, i), SelectedAt(r, j))
       /\ f[i1] = ColumnTerm(r.matrix, 4, 1, SelectedAt(r, i), SelectedAt(r, j))
       /\ f[j0] = ColumnTerm(r.matrix, 4, 2, SelectedAt(r, i), SelectedAt(r, j))
       /\ f[j1] = ColumnTerm(r.matrix, 4, 3, SelectedAt(r, i), SelectedAt(r, j))
  BY <1>5, <1>6, <1>7, <1>8, <1>10, <1>12, <1>14
<1>16. Total(f)[P] = Add(Add(f[i0], f[i1]), Add(f[j0], f[j1]))
  <2>1. /\ s \in Nat /\ s < NumQubits /\ t \in Nat /\ t < NumQubits /\ s # t
        /\ i0 \in Nat /\ i1 \in Nat /\ j0 \in Nat /\ j1 \in Nat
        /\ i0 < Pow2[NumQubits] /\ i1 < Pow2[NumQubits] /\ j0 < Pow2[NumQubits] /\ j1 < Pow2[NumQubits]
    BY <1>2, <1>5, <1>6, <1>7, <1>8
  <2>2. /\ Bit(i0, s) = 0 /\ Bit(i0, t) = 0 /\ Bit(i1, t) = 1
        /\ Bit(j0, s) = 1 /\ Bit(j0, t) = 0 /\ Bit(j1, t) = 1
    BY <1>5, <1>6, <1>7, <1>8
  <2>3. Vanishes(f, {s, t}, i0)
    BY <1>12
  <2> QED BY <1>11, <1>13, <2>1, <2>2, <2>3, FourTermSum
<1>17. /\ Bit(i, s) \in {0, 1} /\ Bit(i, t) \in {0, 1} /\ Bit(j, s) \in {0, 1} /\ Bit(j, t) \in {0, 1}
  BY <1>2, BitType
<1>18. SelectedAt(r, i) \in 0..3 /\ SelectedAt(r, j) \in 0..3
  BY <1>3, <1>17
<1>19. ColumnProduct(r.matrix, 4, SelectedAt(r, i), SelectedAt(r, j))
           = IF SelectedAt(r, i) = SelectedAt(r, j) THEN One ELSE Zero
  <2>1. /\ SelectedAt(r, i) \in 0..Pow2[Len(r.targets)] - 1
        /\ SelectedAt(r, j) \in 0..Pow2[Len(r.targets)] - 1
    BY <1>2, <1>18
  <2>2. ColumnProduct(r.matrix, Pow2[Len(r.targets)], SelectedAt(r, i), SelectedAt(r, j))
            = IF SelectedAt(r, i) = SelectedAt(r, j) THEN One ELSE Zero
    BY <1>1, <2>1, UnitaryColumns
  <2> QED BY <1>2, <2>2
<1>20. SelectedAt(r, i) = SelectedAt(r, j) <=> i = j
  <2>1. ASSUME SelectedAt(r, i) = SelectedAt(r, j) PROVE i = j
    <3>1. Bit(i, s) = Bit(j, s) /\ Bit(i, t) = Bit(j, t)
      BY <1>3, <1>17, <2>1
    <3>2. \A q \in Nat : q < NumQubits => q \in 0..NumQubits - 1
      BY <1>2
    <3>3. \A q \in Nat : q < NumQubits => Bit(i, q) = Bit(j, q)
      BY <1>1, <1>2, <3>1, <3>2 DEF AgreeBut
    <3> QED BY <1>2, <3>3, SameIndex
  <2> QED BY <2>1
<1>21. Total(f)[P] = ColumnProduct(r.matrix, 4, SelectedAt(r, i), SelectedAt(r, j))
  BY <1>15, <1>16 DEF ColumnProduct
<1> QED BY <1>19, <1>20, <1>21 DEF f, P

\* The columns of a unitary gate's operator are orthonormal.
LEMMA GateOrthonormal ==
    ASSUME strategy \in Strategies, NEW r \in Request, Accepted(r), UnitaryRequest(r)
    PROVE  Orthonormal(GateCells(r), Pow2[NumQubits])
<1> SUFFICES ASSUME NEW i \in Nat, NEW j \in Nat, i < Pow2[NumQubits], j < Pow2[NumQubits]
             PROVE  Total(CellProducts(r, i, j))[Pow2[NumQubits]] = IF i = j THEN One ELSE Zero
  BY DEF Orthonormal, Pairing, CellProducts
<1>1. strategy \in Strategies /\ Accepted(r) /\ UnitaryRequest(r)
  OBVIOUS
<1>2. CASE ~AgreeBut(Targeted(r), i, j) \/ ~Firing(r, i)
  BY <1>1, <1>2, UntouchedColumns
<1>3. CASE AgreeBut(Targeted(r), i, j) /\ Firing(r, i) /\ Len(r.targets) = 1
  BY <1>1, <1>3, SingleTargetColumns
<1>4. CASE AgreeBut(Targeted(r), i, j) /\ Firing(r, i) /\ Len(r.targets) = 2
  BY <1>1, <1>4, TwoTargetColumns
<1> QED BY <1>2, <1>3, <1>4, RequestFacts

\* A unitary gate keeps the norm of a state.
LEMMA GateKeepsNorm ==
    ASSUME strategy \in Strategies, NEW r \in Request, Accepted(r), UnitaryRequest(r), NEW e \in Edge(V)
    PROVE  innerProduct(multiply(V, Gate(r), e), multiply(V, Gate(r), e)) = innerProduct(e, e)
<1> DEFINE N == NumQubits
           P == Pow2[N]
           G == GateCells(r)
           g == Gate(r)
           s == multiply(V, g, e)
           p == Amplitudes(e)
           q == Amplitudes(s)
<1>1. strategy \in Strategies /\ Accepted(r) /\ UnitaryRequest(r)
  OBVIOUS
<1>2. N \in Nat /\ N <= NumQubits /\ P \in Nat /\ V \in {V, M} /\ M \in {V, M}
  BY AlgebraIndices
<1>3. Edge(V) = Lev(V, N) /\ Edge(M) = Lev(M, N)
  BY <1>2, EdgeLev
<1>4. /\ g \in Edge(M) /\ G \in [Nat \X Nat -> Weight]
      /\ \A k \in Nat, i \in Nat : G[<<k, i>>] = Read(M, g, k, i, N)
  BY <1>1, GateCellsType
<1>5. Orthonormal(G, P)
  BY <1>1, GateOrthonormal
<1> HIDE DEF N, P, G, g
<1>6. s \in Edge(V)
  BY <1>1, <1>2, <1>3, <1>4, MultiplyLev
<1>7. ASSUME NEW k \in Nat PROVE Read(V, s, k, 0, N) = Total(Terms(V, g, e, k, 0, N))[P]
  <2>1. 0 \in Nat /\ g \in Lev(M, N) /\ e \in Lev(V, N)
    BY <1>3, <1>4
  <2>2. Read(V, s, k, 0, N) = RowTimes(V, g, e, k, 0, N)
    BY <1>1, <1>2, <2>1, ReadMultiply
  <2> QED BY <2>2 DEF RowTimes, P
<1> HIDE DEF s
<1>8. /\ p \in [Nat -> Weight] /\ \A k \in Nat : p[k] = Read(V, e, k, 0, N)
      /\ innerProduct(e, e) = Pairing(p, p, P)
  BY InnerIsPairing DEF N, P
<1>9. /\ q \in [Nat -> Weight] /\ \A k \in Nat : q[k] = Read(V, s, k, 0, N)
      /\ innerProduct(s, s) = Pairing(q, q, P)
  BY <1>6, InnerIsPairing DEF N, P
<1> HIDE DEF p, q
<1>10. ASSUME NEW k \in Nat PROVE q[k] = Total(RowProducts(G, p, k))[P]
  <2>1. RowProducts(G, p, k) = Terms(V, g, e, k, 0, N)
    BY <1>4, <1>8 DEF RowProducts, Terms
  <2> QED BY <1>7, <1>9, <2>1
<1>11. IsImage(G, p, q, P)
  BY <1>10 DEF IsImage
<1>12. Pairing(q, q, P) = Pairing(p, p, P)
  BY <1>2, <1>4, <1>5, <1>8, <1>9, <1>11, Isometry
<1> QED BY <1>8, <1>9, <1>12 DEF s, g

\* Every gate that may be asked for is unitary.
GatesAreUnitary == \A r \in Request : Accepted(r) => UnitaryRequest(r)

\* No other operation claims to be a gate.
LEMMA GateSteps ==
    ASSUME Next
    PROVE  \/ \E r \in Request : Accepted(r) /\ applyGate(r, Gate(r))
           \/ op'[1] # "applyGate"
           \/ UNCHANGED vars
<1> USE DEF VectorBecomes, MatrixBecomes, Step
<1>1. CASE addVectors
  BY <1>1 DEF addVectors
<1>2. CASE applyMatrix
  BY <1>2 DEF applyMatrix
<1>3. CASE outer
  BY <1>3 DEF outer
<1>4. CASE swap
  BY <1>4 DEF swap
<1>5. ASSUME NEW k, kroneckerVectors(k) \/ kroneckerInPlace(k) PROVE op'[1] # "applyGate"
  <2>1. CASE kroneckerVectors(k)
    <3>1. op' = <<"kronecker", k>>
      BY <2>1 DEF kroneckerVectors
    <3> QED BY <3>1
  <2>2. CASE kroneckerInPlace(k)
    <3>1. op' = <<"kroneckerInPlace">>
      BY <2>2 DEF kroneckerInPlace
    <3> QED BY <3>1
  <2> QED BY <1>5, <2>1, <2>2
<1>6. ASSUME NEW r, NEW g, makeGate(r, g) \/ multiplyMatrices(r, g) PROVE op'[1] # "applyGate"
  BY <1>6 DEF makeGate, multiplyMatrices
<1>7. ASSUME NEW r, NEW g, NEW k, kroneckerMatrices(r, g, k) PROVE op'[1] # "applyGate"
  BY <1>7 DEF kroneckerMatrices
<1>8. ASSUME NEW qubit, NEW outcome, measure(qubit, outcome) PROVE op'[1] # "applyGate"
  BY <1>8 DEF measure
<1>9. CASE finished
  BY <1>9 DEF finished
<1> QED BY <1>1, <1>2, <1>3, <1>4, <1>5, <1>6, <1>7, <1>8, <1>9 DEF Next

\* A step keeps the norm.
LEMMA StepKeepsNorm ==
    ASSUME GatesAreUnitary, IInv, Next, op'[1] = "applyGate", ~UNCHANGED vars
    PROVE  \A after \in {x'} : innerProduct(after, after) = innerProduct(x, x)
<1>1. PICK r \in Request : Accepted(r) /\ applyGate(r, Gate(r))
  BY GateSteps
<1>2. x' = multiply(V, Gate(r), x)
  BY <1>1 DEF applyGate, VectorBecomes
<1>3. strategy \in Strategies /\ x \in Edge(V)
  BY ReducedFacts
<1>4. UnitaryRequest(r) /\ Accepted(r)
  BY <1>1 DEF GatesAreUnitary
<1> DEFINE s == multiply(V, Gate(r), x)
<1>5. innerProduct(s, s) = innerProduct(x, x)
  BY <1>3, <1>4, GateKeepsNorm
<1> HIDE DEF s
<1> SUFFICES ASSUME NEW after, after = s PROVE innerProduct(after, after) = innerProduct(x, x)
  BY <1>2 DEF s
<1> QED BY <1>5

(***************************************************************************)
(* Applying unitary gates, controlled or not, on any qubits, keeps the     *)
(* norm exactly.                                                           *)
(***************************************************************************)
THEOREM UnitaryGatesKeepNorm ==
    ASSUME GatesAreUnitary
    PROVE  Spec => NormPreserved
<1>1. IInv /\ [Next]_vars =>
         [op'[1] = "applyGate" =>
             \A after \in {x'} : innerProduct(after, after) = innerProduct(x, x)]_vars
  BY StepKeepsNorm
<1> QED BY <1>1, InitReduced, NextReduced, PTL DEF Spec, NormPreserved

(***************************************************************************)
(* The matrices of DwGateMatrixDefinitions.cpp are unitary: their entries  *)
(* are tuples over 1 or 2.                                                 *)
(***************************************************************************)
Over(t, q) == [n |-> t, d |-> q]

\* A tuple over a denominator is an element.
LEMMA OverFields ==
    ASSUME NEW t \in Tuple, NEW q \in Nat \ {0}
    PROVE  Over(t, q) \in Fraction /\ Over(t, q).n = t /\ Over(t, q).d = q
BY DEF Over, Fraction

\* What the product of a column's conjugate and a column denotes.
LEMMA ColumnDenotes ==
    ASSUME NEW q \in Nat \ {0}, NEW c1, NEW c2, NEW c3, NEW c4, NEW z,
           NEW s1 \in Tuple, NEW s2 \in Tuple, NEW s3 \in Tuple, NEW s4 \in Tuple, NEW t \in Tuple,
           Denotes(c1, Over(s1, q)), Denotes(c2, Over(s2, q)), Denotes(c3, Over(s3, q)), Denotes(c4, Over(s4, q)),
           Denotes(z, Over(t, 1)),
           Plus(mulTuple(ConjTuple(s1), s2), mulTuple(ConjTuple(s3), s4)) = Scale(q * q, t)
    PROVE  Add(Multiply(conjugate(c1), c2), Multiply(conjugate(c3), c4)) = z
<1> DEFINE qq == q * q
           t1 == ConjTuple(s1)
           t3 == ConjTuple(s3)
           p12 == mulTuple(t1, s2)
           p34 == mulTuple(t3, s4)
           left == Over(p12, qq)
           right == Over(p34, qq)
           sum == F!Sum(left, right)
           whole == Over(t, 1)
<1>1. qq \in Nat \ {0} /\ qq * qq \in Nat \ {0} /\ 1 \in Nat \ {0} /\ qq \in Int
  BY SMTT(20)
<1>2. t1 \in Tuple /\ t3 \in Tuple
  BY TupleClosure
<1>3. Denotes(conjugate(c1), Over(t1, q)) /\ Denotes(conjugate(c3), Over(t3, q))
  <2>1. F!Conjugate(Over(s1, q)) = Over(t1, q) /\ F!Conjugate(Over(s3, q)) = Over(t3, q)
    <3>1. /\ Over(s1, q) \in Fraction /\ Over(s1, q).n = s1 /\ Over(s1, q).d = q
          /\ Over(s3, q) \in Fraction /\ Over(s3, q).n = s3 /\ Over(s3, q).d = q
      BY OverFields
    <3> QED BY <3>1, FieldClosure DEF Over
  <2> QED BY <2>1, DenotesConjugate
<1> HIDE DEF t1, t3
<1>4. p12 \in Tuple /\ p34 \in Tuple
  BY <1>2, TupleClosure
<1>5. Denotes(Multiply(conjugate(c1), c2), left) /\ Denotes(Multiply(conjugate(c3), c4), right)
  <2>1. F!Product(Over(t1, q), Over(s2, q)) = left /\ F!Product(Over(t3, q), Over(s4, q)) = right
    <3>1. /\ Over(t1, q) \in Fraction /\ Over(s2, q) \in Fraction /\ Over(t3, q) \in Fraction /\ Over(s4, q) \in Fraction
          /\ Over(t1, q).n = t1 /\ Over(t1, q).d = q /\ Over(t3, q).n = t3 /\ Over(t3, q).d = q
          /\ Over(s2, q).n = s2 /\ Over(s2, q).d = q /\ Over(s4, q).n = s4 /\ Over(s4, q).d = q
      BY <1>2, OverFields
    <3> QED BY <3>1, FieldClosure DEF Over
  <2> QED BY <1>3, <2>1, DenotesProduct
<1>6. Plus(p12, p34) = Scale(qq, t)
  BY DEF t1, t3
<1> HIDE DEF qq, p12, p34
<1>7. left \in Fraction /\ right \in Fraction /\ left.n = p12 /\ left.d = qq /\ right.n = p34 /\ right.d = qq
  BY <1>1, <1>4, OverFields
<1>8. whole \in Fraction /\ whole.n = t /\ whole.d = 1
  BY <1>1, OverFields
<1> HIDE DEF left, right, whole
<1>9. sum \in Fraction /\ sum.n = Plus(Scale(qq, p12), Scale(qq, p34)) /\ sum.d = qq * qq
  BY <1>7, FieldClosure
<1>10. Denotes(Add(Multiply(conjugate(c1), c2), Multiply(conjugate(c3), c4)), sum)
  BY <1>5, DenotesSum
<1> HIDE DEF sum
<1>11. sum.n = Scale(qq * qq, t)
  <2>1. sum.n = Scale(qq, Scale(qq, t))
    BY <1>1, <1>4, <1>6, <1>9, ScaleDistributes
  <2> QED BY <1>1, <2>1, ScaleTwice
<1>12. SameValue(sum, whole)
  <2>1. Scale(whole.d, sum.n) = Scale(qq * qq, t)
    <3>1. Scale(qq * qq, t) \in Tuple
      BY <1>1, TupleClosure
    <3> QED BY <1>8, <1>11, <3>1, ScaleOne
  <2> QED BY <1>8, <1>9, <2>1 DEF SameValue
<1>13. Denotes(Add(Multiply(conjugate(c1), c2), Multiply(conjugate(c3), c4)), whole)
  BY <1>8, <1>10, <1>12, DenotesSame
<1> QED BY <1>13, DenotesUnique DEF whole

\* The numerators of a unitary matrix with the denominator q.
Orthogonal(s1, s2, s3, s4, q) ==
    /\ Plus(mulTuple(ConjTuple(s1), s1), mulTuple(ConjTuple(s3), s3)) = Scale(q * q, <<1, 0, 0, 0>>)
    /\ Plus(mulTuple(ConjTuple(s1), s2), mulTuple(ConjTuple(s3), s4)) = Scale(q * q, ZeroTuple)
    /\ Plus(mulTuple(ConjTuple(s2), s1), mulTuple(ConjTuple(s4), s3)) = Scale(q * q, ZeroTuple)
    /\ Plus(mulTuple(ConjTuple(s2), s2), mulTuple(ConjTuple(s4), s4)) = Scale(q * q, <<1, 0, 0, 0>>)

\* Such a matrix.
LEMMA UnitaryByNumerators ==
    ASSUME NEW q \in Nat \ {0}, NEW c1, NEW c2, NEW c3, NEW c4,
           NEW s1 \in Tuple, NEW s2 \in Tuple, NEW s3 \in Tuple, NEW s4 \in Tuple,
           Denotes(c1, Over(s1, q)), Denotes(c2, Over(s2, q)), Denotes(c3, Over(s3, q)), Denotes(c4, Over(s4, q)),
           Orthogonal(s1, s2, s3, s4, q)
    PROVE  Unitary(<<c1, c2, c3, c4>>, 2)
<1> DEFINE f == <<c1, c2, c3, c4>>
           e1 == <<1, 0, 0, 0>>
<1>1. e1 \in Tuple /\ ZeroTuple \in Tuple
  BY DEF Tuple, ZeroTuple
<1>2. Denotes(One, Over(e1, 1)) /\ Denotes(Zero, Over(ZeroTuple, 1))
  BY Constants, DenotesElement DEF Over
<1>3. /\ Plus(mulTuple(ConjTuple(s1), s1), mulTuple(ConjTuple(s3), s3)) = Scale(q * q, e1)
      /\ Plus(mulTuple(ConjTuple(s1), s2), mulTuple(ConjTuple(s3), s4)) = Scale(q * q, ZeroTuple)
      /\ Plus(mulTuple(ConjTuple(s2), s1), mulTuple(ConjTuple(s4), s3)) = Scale(q * q, ZeroTuple)
      /\ Plus(mulTuple(ConjTuple(s2), s2), mulTuple(ConjTuple(s4), s4)) = Scale(q * q, e1)
  BY DEF Orthogonal
<1> HIDE DEF e1
<1>4. Add(Multiply(conjugate(c1), c1), Multiply(conjugate(c3), c3)) = One
  BY <1>1, <1>2, <1>3, ColumnDenotes
<1>5. Add(Multiply(conjugate(c1), c2), Multiply(conjugate(c3), c4)) = Zero
  BY <1>1, <1>2, <1>3, ColumnDenotes
<1>6. Add(Multiply(conjugate(c2), c1), Multiply(conjugate(c4), c3)) = Zero
  BY <1>1, <1>2, <1>3, ColumnDenotes
<1>7. Add(Multiply(conjugate(c2), c2), Multiply(conjugate(c4), c4)) = One
  BY <1>1, <1>2, <1>3, ColumnDenotes
<1>8. f[1] = c1 /\ f[2] = c2 /\ f[3] = c3 /\ f[4] = c4
  OBVIOUS
<1> HIDE DEF f
<1>9. /\ ColumnProduct(f, 2, 0, 0) = One /\ ColumnProduct(f, 2, 0, 1) = Zero
      /\ ColumnProduct(f, 2, 1, 0) = Zero /\ ColumnProduct(f, 2, 1, 1) = One
  BY <1>4, <1>5, <1>6, <1>7, <1>8 DEF ColumnProduct, ColumnTerm
<1>10. Unitary(f, 2)
  <2> SUFFICES ASSUME NEW i \in 0..2 - 1, NEW j \in 0..2 - 1
               PROVE  ColumnProduct(f, 2, i, j) = IF i = j THEN One ELSE Zero
    BY DEF Unitary
  <2>1. i \in {0, 1} /\ j \in {0, 1}
    OBVIOUS
  <2> QED BY <1>9, <2>1
<1> QED BY <1>10 DEF f

\* Conjugates, opposites and products of what has a small denominator.
LEMMA OverDenotes ==
    ASSUME NEW z, NEW t \in Tuple, NEW q \in Nat \ {0}, Denotes(z, Over(t, q))
    PROVE  /\ Denotes(conjugate(z), Over(ConjTuple(t), q))
           /\ Denotes(Negate(z), Over(Scale(-1, t), q))
<1>1. Over(t, q) \in Fraction /\ Over(t, q).n = t /\ Over(t, q).d = q
  BY OverFields
<1>2. F!Conjugate(Over(t, q)) = Over(ConjTuple(t), q) /\ F!Opposite(Over(t, q)) = Over(Scale(-1, t), q)
  BY <1>1, FieldClosure DEF Over
<1> QED BY <1>2, DenotesConjugate, DenotesOpposite

\* ... and products.
LEMMA OverProduct ==
    ASSUME NEW y1, NEW z, NEW s \in Tuple, NEW t \in Tuple, NEW q \in Nat \ {0},
           Denotes(y1, Over(s, 1)), Denotes(z, Over(t, q))
    PROVE  Denotes(Multiply(y1, z), Over(mulTuple(s, t), q))
<1>1. /\ Over(s, 1) \in Fraction /\ Over(s, 1).n = s /\ Over(s, 1).d = 1
      /\ Over(t, q) \in Fraction /\ Over(t, q).n = t /\ Over(t, q).d = q
  BY OverFields
<1>2. 1 * q = q
  OBVIOUS
<1>3. F!Product(Over(s, 1), Over(t, q)) = Over(mulTuple(s, t), q)
  BY <1>1, <1>2, FieldClosure DEF Over
<1> QED BY <1>3, DenotesProduct

\* A tuple over 2, as the constructor makes it.
LEMMA HalfDenotes ==
    ASSUME NEW p \in Tuple
    PROVE  Denotes(canonicalize(p, 2, 1), Over(p, 2))
<1> DEFINE w == Value(p, 2, 1)
<1>1. 2 \in Nat /\ 1 \in Nat \ {0} /\ 2 \in Nat \ {0} /\ 2 \in Int /\ 4 \in Int
  OBVIOUS
<1>2. Pow2[1] = 2 /\ Pow2[2] = 4
  <2>1. Pow2[1] = 2 * Pow2[0] /\ Pow2[0] = 1 /\ Pow2[2] = 2 * Pow2[1]
    BY Pow2Def
  <2> QED BY <2>1
<1>3. scaleUp(p, 2) = Scale(2, p)
  <2>1. 2 \div 2 = 1 /\ 2 % 2 = 0
    OBVIOUS
  <2> QED BY <1>2, <2>1 DEF scaleUp
<1>4. Denotes(canonicalize(p, 2, 1), w) /\ w.n = Scale(2, p) /\ w.d = 4
  <2>1. /\ Denotes(canonicalize(p, 2, 1), w)
        /\ w.n = scaleUp(p, 2) /\ w.d = Pow2[2] * 1
    BY <1>1, DenotesValue, ValueFields
  <2> QED BY <1>2, <1>3, <2>1
<1> HIDE DEF w
<1>5. Over(p, 2) \in Fraction /\ Over(p, 2).n = p /\ Over(p, 2).d = 2
  BY <1>1, OverFields
<1>6. SameValue(w, Over(p, 2))
  <2>1. Scale(2, Scale(2, p)) = Scale(2 * 2, p)
    BY <1>1, ScaleTwice
  <2> QED BY <1>4, <1>5, <2>1 DEF SameValue
<1> QED BY <1>4, <1>5, <1>6, DenotesSame

\* The constants that the matrices are made of.
LEMMA ConstantsDenote ==
    /\ Denotes(One, Over(<<1, 0, 0, 0>>, 1)) /\ Denotes(Zero, Over(ZeroTuple, 1))
    /\ Denotes(Negate(One), Over(<<-1, 0, 0, 0>>, 1))
    /\ Denotes(omega, Over(<<0, 1, 0, 0>>, 1)) /\ Denotes(conjugate(omega), Over(<<0, 0, 0, -1>>, 1))
    /\ Denotes(iUnit, Over(<<0, 0, 1, 0>>, 1)) /\ Denotes(Negate(iUnit), Over(<<0, 0, -1, 0>>, 1))
    /\ Denotes(halfSqrt2, Over(<<0, 1, 0, -1>>, 2)) /\ Denotes(Negate(halfSqrt2), Over(<<0, -1, 0, 1>>, 2))
    /\ Denotes(invSqrt2PlusI, Over(<<1, 0, 1, 0>>, 2))
    /\ Denotes(conjugate(invSqrt2PlusI), Over(<<1, 0, -1, 0>>, 2))
    /\ Denotes(Multiply(Negate(iUnit), halfSqrt2), Over(<<0, -1, 0, -1>>, 2))
    /\ Denotes(Negate(Multiply(Negate(iUnit), halfSqrt2)), Over(<<0, 1, 0, 1>>, 2))
<1> DEFINE tw == <<0, 1, 0, 0>>
           ti == <<0, 0, 1, 0>>
           tn == <<0, 0, -1, 0>>
           th == <<0, 1, 0, -1>>
           tp == <<1, 0, 1, 0>>
           te == <<1, 0, 0, 0>>
           to == <<0, -1, 0, -1>>
<1>1. /\ tw \in Tuple /\ ti \in Tuple /\ tn \in Tuple /\ th \in Tuple /\ tp \in Tuple /\ te \in Tuple /\ to \in Tuple
      /\ 1 \in Nat \ {0} /\ 2 \in Nat \ {0} /\ 0 \in Nat
  <2>1. ASSUME NEW n1 \in Int, NEW n2 \in Int, NEW n3 \in Int, NEW n4 \in Int PROVE <<n1, n2, n3, n4>> \in Tuple
    BY DEF Tuple
  <2>2. 0 \in Int /\ 1 \in Int /\ -1 \in Int
    OBVIOUS
  <2> QED BY <2>1, <2>2
<1>2. /\ ConjTuple(tw) = <<0, 0, 0, -1>> /\ ConjTuple(tp) = <<1, 0, -1, 0>>
      /\ Scale(-1, te) = <<-1, 0, 0, 0>> /\ Scale(-1, ti) = tn
      /\ Scale(-1, th) = <<0, -1, 0, 1>> /\ Scale(-1, to) = <<0, 1, 0, 1>>
  <2>1. ASSUME NEW n1 \in Int, NEW n2 \in Int, NEW n3 \in Int, NEW n4 \in Int
        PROVE  /\ ConjTuple(<<n1, n2, n3, n4>>) = <<n1, 0 - n4, 0 - n3, 0 - n2>>
               /\ Scale(-1, <<n1, n2, n3, n4>>) = <<0 - n1, 0 - n2, 0 - n3, 0 - n4>>
    BY DEF ConjTuple, Scale
  <2>2. 0 \in Int /\ 1 \in Int /\ -1 \in Int /\ 0 - 0 = 0 /\ 0 - 1 = -1 /\ 0 - (-1) = 1
    OBVIOUS
  <2>3. /\ ConjTuple(tw) = <<0, 0 - 0, 0 - 0, 0 - 1>> /\ ConjTuple(tp) = <<1, 0 - 0, 0 - 1, 0 - 0>>
        /\ Scale(-1, te) = <<0 - 1, 0 - 0, 0 - 0, 0 - 0>> /\ Scale(-1, ti) = <<0 - 0, 0 - 0, 0 - 1, 0 - 0>>
        /\ Scale(-1, th) = <<0 - 0, 0 - 1, 0 - 0, 0 - (-1)>>
        /\ Scale(-1, to) = <<0 - 0, 0 - (-1), 0 - 0, 0 - (-1)>>
    BY <2>1, <2>2
  <2> QED BY <2>2, <2>3
<1>3. mulTuple(tw, tw) = ti /\ mulTuple(tn, th) = to
  BY DEF mulTuple
<1>4. /\ Denotes(One, Over(te, 1)) /\ Denotes(Zero, Over(ZeroTuple, 1))
  BY Constants, DenotesElement DEF Over
<1>5. Denotes(omega, Over(tw, 1))
  <2>1. Denotes(omega, Value(tw, 0, 1))
    BY <1>1, DenotesValue DEF omega, Integral
  <2>2. Value(tw, 0, 1) = Over(tw, 1)
    <3>1. Value(tw, 0, 1).n = tw /\ Value(tw, 0, 1).d = 1
      BY <1>1, IntegralValue
    <3> QED BY <3>1 DEF Value, Over
  <2> QED BY <2>1, <2>2
<1>6. Denotes(halfSqrt2, Over(th, 2)) /\ Denotes(invSqrt2PlusI, Over(tp, 2))
  BY <1>1, HalfDenotes DEF halfSqrt2, invSqrt2PlusI
<1> HIDE DEF tw, ti, tn, th, tp, te, to
<1>7. Denotes(iUnit, Over(ti, 1))
  BY <1>1, <1>3, <1>5, OverProduct DEF iUnit
<1>8. Denotes(Negate(iUnit), Over(tn, 1))
  BY <1>1, <1>2, <1>7, OverDenotes
<1>9. Denotes(Multiply(Negate(iUnit), halfSqrt2), Over(to, 2))
  BY <1>1, <1>3, <1>6, <1>8, OverProduct
<1>10. Denotes(Negate(Multiply(Negate(iUnit), halfSqrt2)), Over(Scale(-1, to), 2))
  BY <1>1, <1>9, OverDenotes
<1>11. /\ Denotes(Negate(One), Over(Scale(-1, te), 1)) /\ Denotes(conjugate(omega), Over(ConjTuple(tw), 1))
       /\ Denotes(Negate(halfSqrt2), Over(Scale(-1, th), 2))
       /\ Denotes(conjugate(invSqrt2PlusI), Over(ConjTuple(tp), 2))
  BY <1>1, <1>4, <1>5, <1>6, OverDenotes
<1>12. /\ Denotes(Negate(One), Over(<<-1, 0, 0, 0>>, 1)) /\ Denotes(conjugate(omega), Over(<<0, 0, 0, -1>>, 1))
       /\ Denotes(Negate(halfSqrt2), Over(<<0, -1, 0, 1>>, 2))
       /\ Denotes(conjugate(invSqrt2PlusI), Over(<<1, 0, -1, 0>>, 2))
       /\ Denotes(Negate(Multiply(Negate(iUnit), halfSqrt2)), Over(<<0, 1, 0, 1>>, 2))
  BY <1>2, <1>10, <1>11
<1> QED BY <1>4, <1>5, <1>6, <1>7, <1>8, <1>9, <1>12 DEF tw, ti, tn, th, tp, te, to

\* The conjugates of their numerators.
LEMMA ConjTuples ==
    /\ ConjTuple(<<1, 0, 0, 0>>) = <<1, 0, 0, 0>> /\ ConjTuple(<<0, 0, 0, 0>>) = <<0, 0, 0, 0>>
    /\ ConjTuple(<<-1, 0, 0, 0>>) = <<-1, 0, 0, 0>>
    /\ ConjTuple(<<0, 1, 0, 0>>) = <<0, 0, 0, -1>> /\ ConjTuple(<<0, 0, 0, -1>>) = <<0, 1, 0, 0>>
    /\ ConjTuple(<<0, 0, 1, 0>>) = <<0, 0, -1, 0>> /\ ConjTuple(<<0, 0, -1, 0>>) = <<0, 0, 1, 0>>
    /\ ConjTuple(<<0, 1, 0, -1>>) = <<0, 1, 0, -1>> /\ ConjTuple(<<0, -1, 0, 1>>) = <<0, -1, 0, 1>>
    /\ ConjTuple(<<1, 0, 1, 0>>) = <<1, 0, -1, 0>> /\ ConjTuple(<<1, 0, -1, 0>>) = <<1, 0, 1, 0>>
    /\ ConjTuple(<<0, -1, 0, -1>>) = <<0, 1, 0, 1>> /\ ConjTuple(<<0, 1, 0, 1>>) = <<0, -1, 0, -1>>
<1>1. ASSUME NEW n1 \in Int, NEW n2 \in Int, NEW n3 \in Int, NEW n4 \in Int
      PROVE  ConjTuple(<<n1, n2, n3, n4>>) = <<n1, 0 - n4, 0 - n3, 0 - n2>>
  BY DEF ConjTuple
<1>2. 0 \in Int /\ 1 \in Int /\ -1 \in Int /\ 0 - 0 = 0 /\ 0 - 1 = -1 /\ 0 - (-1) = 1
  OBVIOUS
<1>3. /\ ConjTuple(<<1, 0, 0, 0>>) = <<1, 0 - 0, 0 - 0, 0 - 0>>
      /\ ConjTuple(<<0, 0, 0, 0>>) = <<0, 0 - 0, 0 - 0, 0 - 0>>
      /\ ConjTuple(<<-1, 0, 0, 0>>) = <<-1, 0 - 0, 0 - 0, 0 - 0>>
      /\ ConjTuple(<<0, 1, 0, 0>>) = <<0, 0 - 0, 0 - 0, 0 - 1>>
      /\ ConjTuple(<<0, 0, 0, -1>>) = <<0, 0 - (-1), 0 - 0, 0 - 0>>
  BY <1>1, <1>2
<1>4. /\ ConjTuple(<<0, 1, 0, -1>>) = <<0, 0 - (-1), 0 - 0, 0 - 1>>
      /\ ConjTuple(<<0, -1, 0, 1>>) = <<0, 0 - 1, 0 - 0, 0 - (-1)>>
      /\ ConjTuple(<<1, 0, 1, 0>>) = <<1, 0 - 0, 0 - 1, 0 - 0>>
  BY <1>1, <1>2
<1>5. /\ ConjTuple(<<1, 0, -1, 0>>) = <<1, 0 - 0, 0 - (-1), 0 - 0>>
      /\ ConjTuple(<<0, 0, 1, 0>>) = <<0, 0 - 0, 0 - 1, 0 - 0>>
      /\ ConjTuple(<<0, 0, -1, 0>>) = <<0, 0 - 0, 0 - (-1), 0 - 0>>
  BY <1>1, <1>2
<1>6. /\ ConjTuple(<<0, -1, 0, -1>>) = <<0, 0 - (-1), 0 - 0, 0 - (-1)>>
      /\ ConjTuple(<<0, 1, 0, 1>>) = <<0, 0 - 1, 0 - 0, 0 - 1>>
  BY <1>1, <1>2
<1> QED BY <1>2, <1>3, <1>4, <1>5, <1>6

\* Their products.
LEMMA NumeratorProducts ==
    /\ mulTuple(<<-1, 0, 0, 0>>, <<-1, 0, 0, 0>>) = <<1, 0, 0, 0>>
    /\ mulTuple(<<-1, 0, 0, 0>>, <<0, 0, 0, 0>>) = <<0, 0, 0, 0>>
    /\ mulTuple(<<0, -1, 0, -1>>, <<0, 1, 0, -1>>) = <<0, 0, -2, 0>>
    /\ mulTuple(<<0, -1, 0, -1>>, <<0, 1, 0, 1>>) = <<2, 0, 0, 0>>
    /\ mulTuple(<<0, -1, 0, 1>>, <<0, -1, 0, 1>>) = <<2, 0, 0, 0>>
    /\ mulTuple(<<0, -1, 0, 1>>, <<0, 1, 0, -1>>) = <<-2, 0, 0, 0>>
    /\ mulTuple(<<0, 0, -1, 0>>, <<0, 0, 0, 0>>) = <<0, 0, 0, 0>>
    /\ mulTuple(<<0, 0, -1, 0>>, <<0, 0, 1, 0>>) = <<1, 0, 0, 0>>
    /\ mulTuple(<<0, 0, 0, -1>>, <<0, 0, 0, 0>>) = <<0, 0, 0, 0>>
    /\ mulTuple(<<0, 0, 0, -1>>, <<0, 1, 0, 0>>) = <<1, 0, 0, 0>>
    /\ mulTuple(<<0, 0, 0, 0>>, <<-1, 0, 0, 0>>) = <<0, 0, 0, 0>>
    /\ mulTuple(<<0, 0, 0, 0>>, <<0, 0, -1, 0>>) = <<0, 0, 0, 0>>
    /\ mulTuple(<<0, 0, 0, 0>>, <<0, 0, 0, -1>>) = <<0, 0, 0, 0>>
    /\ mulTuple(<<0, 0, 0, 0>>, <<0, 0, 0, 0>>) = <<0, 0, 0, 0>>
    /\ mulTuple(<<0, 0, 0, 0>>, <<0, 0, 1, 0>>) = <<0, 0, 0, 0>>
    /\ mulTuple(<<0, 0, 0, 0>>, <<0, 1, 0, 0>>) = <<0, 0, 0, 0>>
    /\ mulTuple(<<0, 0, 0, 0>>, <<1, 0, 0, 0>>) = <<0, 0, 0, 0>>
    /\ mulTuple(<<0, 0, 1, 0>>, <<0, 0, -1, 0>>) = <<1, 0, 0, 0>>
    /\ mulTuple(<<0, 0, 1, 0>>, <<0, 0, 0, 0>>) = <<0, 0, 0, 0>>
    /\ mulTuple(<<0, 1, 0, -1>>, <<0, -1, 0, -1>>) = <<0, 0, -2, 0>>
    /\ mulTuple(<<0, 1, 0, -1>>, <<0, -1, 0, 1>>) = <<-2, 0, 0, 0>>
    /\ mulTuple(<<0, 1, 0, -1>>, <<0, 1, 0, -1>>) = <<2, 0, 0, 0>>
    /\ mulTuple(<<0, 1, 0, -1>>, <<0, 1, 0, 1>>) = <<0, 0, 2, 0>>
    /\ mulTuple(<<0, 1, 0, 0>>, <<0, 0, 0, -1>>) = <<1, 0, 0, 0>>
    /\ mulTuple(<<0, 1, 0, 0>>, <<0, 0, 0, 0>>) = <<0, 0, 0, 0>>
    /\ mulTuple(<<0, 1, 0, 1>>, <<0, -1, 0, -1>>) = <<2, 0, 0, 0>>
    /\ mulTuple(<<0, 1, 0, 1>>, <<0, 1, 0, -1>>) = <<0, 0, 2, 0>>
    /\ mulTuple(<<1, 0, -1, 0>>, <<1, 0, -1, 0>>) = <<0, 0, -2, 0>>
    /\ mulTuple(<<1, 0, -1, 0>>, <<1, 0, 1, 0>>) = <<2, 0, 0, 0>>
    /\ mulTuple(<<1, 0, 0, 0>>, <<0, 0, 0, 0>>) = <<0, 0, 0, 0>>
    /\ mulTuple(<<1, 0, 0, 0>>, <<1, 0, 0, 0>>) = <<1, 0, 0, 0>>
    /\ mulTuple(<<1, 0, 1, 0>>, <<1, 0, -1, 0>>) = <<2, 0, 0, 0>>
    /\ mulTuple(<<1, 0, 1, 0>>, <<1, 0, 1, 0>>) = <<0, 0, 2, 0>>
BY DEF mulTuple

\* ... and the sums of those.
LEMMA NumeratorSums ==
    /\ Plus(<<0, 0, -2, 0>>, <<0, 0, 2, 0>>) = <<0, 0, 0, 0>>
    /\ Plus(<<0, 0, 0, 0>>, <<0, 0, 0, 0>>) = <<0, 0, 0, 0>>
    /\ Plus(<<0, 0, 0, 0>>, <<1, 0, 0, 0>>) = <<1, 0, 0, 0>>
    /\ Plus(<<0, 0, 2, 0>>, <<0, 0, -2, 0>>) = <<0, 0, 0, 0>>
    /\ Plus(<<1, 0, 0, 0>>, <<0, 0, 0, 0>>) = <<1, 0, 0, 0>>
    /\ Plus(<<2, 0, 0, 0>>, <<-2, 0, 0, 0>>) = <<0, 0, 0, 0>>
    /\ Plus(<<2, 0, 0, 0>>, <<2, 0, 0, 0>>) = <<4, 0, 0, 0>>
    /\ Scale(1 * 1, <<1, 0, 0, 0>>) = <<1, 0, 0, 0>>
    /\ Scale(1 * 1, <<0, 0, 0, 0>>) = <<0, 0, 0, 0>>
    /\ Scale(2 * 2, <<1, 0, 0, 0>>) = <<4, 0, 0, 0>>
    /\ Scale(2 * 2, <<0, 0, 0, 0>>) = <<0, 0, 0, 0>>
BY DEF Plus, Scale

\* The numerators of each gate are orthogonal.
LEMMA GateNumerators ==
    /\ Orthogonal(<<1, 0, 0, 0>>, ZeroTuple, ZeroTuple, <<1, 0, 0, 0>>, 1)
    /\ Orthogonal(ZeroTuple, <<1, 0, 0, 0>>, <<1, 0, 0, 0>>, ZeroTuple, 1)
    /\ Orthogonal(ZeroTuple, <<0, 0, -1, 0>>, <<0, 0, 1, 0>>, ZeroTuple, 1)
    /\ Orthogonal(<<1, 0, 0, 0>>, ZeroTuple, ZeroTuple, <<-1, 0, 0, 0>>, 1)
    /\ Orthogonal(<<0, 1, 0, -1>>, <<0, 1, 0, -1>>, <<0, 1, 0, -1>>, <<0, -1, 0, 1>>, 2)
    /\ Orthogonal(<<1, 0, 0, 0>>, ZeroTuple, ZeroTuple, <<0, 0, 1, 0>>, 1)
    /\ Orthogonal(<<1, 0, 0, 0>>, ZeroTuple, ZeroTuple, <<0, 0, -1, 0>>, 1)
    /\ Orthogonal(<<1, 0, 0, 0>>, ZeroTuple, ZeroTuple, <<0, 1, 0, 0>>, 1)
    /\ Orthogonal(<<1, 0, 0, 0>>, ZeroTuple, ZeroTuple, <<0, 0, 0, -1>>, 1)
    /\ Orthogonal(<<0, 1, 0, -1>>, <<0, -1, 0, -1>>, <<0, -1, 0, -1>>, <<0, 1, 0, -1>>, 2)
    /\ Orthogonal(<<0, 1, 0, -1>>, <<0, 1, 0, 1>>, <<0, 1, 0, 1>>, <<0, 1, 0, -1>>, 2)
    /\ Orthogonal(<<1, 0, 1, 0>>, <<1, 0, -1, 0>>, <<1, 0, -1, 0>>, <<1, 0, 1, 0>>, 2)
    /\ Orthogonal(<<1, 0, -1, 0>>, <<1, 0, 1, 0>>, <<1, 0, 1, 0>>, <<1, 0, -1, 0>>, 2)
<1>1. Orthogonal(<<1, 0, 0, 0>>, ZeroTuple, ZeroTuple, <<1, 0, 0, 0>>, 1)
  BY ConjTuples, NumeratorProducts, NumeratorSums DEF Orthogonal, ZeroTuple
<1>2. Orthogonal(ZeroTuple, <<1, 0, 0, 0>>, <<1, 0, 0, 0>>, ZeroTuple, 1)
  BY ConjTuples, NumeratorProducts, NumeratorSums DEF Orthogonal, ZeroTuple
<1>3. Orthogonal(ZeroTuple, <<0, 0, -1, 0>>, <<0, 0, 1, 0>>, ZeroTuple, 1)
  BY ConjTuples, NumeratorProducts, NumeratorSums DEF Orthogonal, ZeroTuple
<1>4. Orthogonal(<<1, 0, 0, 0>>, ZeroTuple, ZeroTuple, <<-1, 0, 0, 0>>, 1)
  BY ConjTuples, NumeratorProducts, NumeratorSums DEF Orthogonal, ZeroTuple
<1>5. Orthogonal(<<0, 1, 0, -1>>, <<0, 1, 0, -1>>, <<0, 1, 0, -1>>, <<0, -1, 0, 1>>, 2)
  BY ConjTuples, NumeratorProducts, NumeratorSums DEF Orthogonal, ZeroTuple
<1>6. Orthogonal(<<1, 0, 0, 0>>, ZeroTuple, ZeroTuple, <<0, 0, 1, 0>>, 1)
  BY ConjTuples, NumeratorProducts, NumeratorSums DEF Orthogonal, ZeroTuple
<1>7. Orthogonal(<<1, 0, 0, 0>>, ZeroTuple, ZeroTuple, <<0, 0, -1, 0>>, 1)
  BY ConjTuples, NumeratorProducts, NumeratorSums DEF Orthogonal, ZeroTuple
<1>8. Orthogonal(<<1, 0, 0, 0>>, ZeroTuple, ZeroTuple, <<0, 1, 0, 0>>, 1)
  BY ConjTuples, NumeratorProducts, NumeratorSums DEF Orthogonal, ZeroTuple
<1>9. Orthogonal(<<1, 0, 0, 0>>, ZeroTuple, ZeroTuple, <<0, 0, 0, -1>>, 1)
  BY ConjTuples, NumeratorProducts, NumeratorSums DEF Orthogonal, ZeroTuple
<1>10. Orthogonal(<<0, 1, 0, -1>>, <<0, -1, 0, -1>>, <<0, -1, 0, -1>>, <<0, 1, 0, -1>>, 2)
  BY ConjTuples, NumeratorProducts, NumeratorSums DEF Orthogonal, ZeroTuple
<1>11. Orthogonal(<<0, 1, 0, -1>>, <<0, 1, 0, 1>>, <<0, 1, 0, 1>>, <<0, 1, 0, -1>>, 2)
  BY ConjTuples, NumeratorProducts, NumeratorSums DEF Orthogonal, ZeroTuple
<1>12. Orthogonal(<<1, 0, 1, 0>>, <<1, 0, -1, 0>>, <<1, 0, -1, 0>>, <<1, 0, 1, 0>>, 2)
  BY ConjTuples, NumeratorProducts, NumeratorSums DEF Orthogonal, ZeroTuple
<1>13. Orthogonal(<<1, 0, -1, 0>>, <<1, 0, 1, 0>>, <<1, 0, 1, 0>>, <<1, 0, -1, 0>>, 2)
  BY ConjTuples, NumeratorProducts, NumeratorSums DEF Orthogonal, ZeroTuple
<1> QED BY <1>1, <1>2, <1>3, <1>4, <1>5, <1>6, <1>7, <1>8, <1>9, <1>10, <1>11, <1>12, <1>13

\* The matrices of the gates on one qubit are unitary.
LEMMA NamedUnitary ==
    ASSUME NEW name \in DOMAIN byName
    PROVE  Unitary(byName[name], 2)
<1> DEFINE root == conjugate(invSqrt2PlusI)
           offDiag == Multiply(Negate(iUnit), halfSqrt2)
           te == <<1, 0, 0, 0>>
           t0 == ZeroTuple
           tn == <<-1, 0, 0, 0>>
           tw == <<0, 1, 0, 0>>
           tc == <<0, 0, 0, -1>>
           ti == <<0, 0, 1, 0>>
           tj == <<0, 0, -1, 0>>
           th == <<0, 1, 0, -1>>
           tg == <<0, -1, 0, 1>>
           tp == <<1, 0, 1, 0>>
           tr == <<1, 0, -1, 0>>
           to == <<0, -1, 0, -1>>
           tq == <<0, 1, 0, 1>>
           half == 2
           whole == 1
<1>1. /\ te \in Tuple /\ t0 \in Tuple /\ tn \in Tuple /\ tw \in Tuple /\ tc \in Tuple /\ ti \in Tuple /\ tj \in Tuple
      /\ th \in Tuple /\ tg \in Tuple /\ tp \in Tuple /\ tr \in Tuple /\ to \in Tuple /\ tq \in Tuple
  <2>1. ASSUME NEW n1 \in Int, NEW n2 \in Int, NEW n3 \in Int, NEW n4 \in Int PROVE <<n1, n2, n3, n4>> \in Tuple
    BY DEF Tuple
  <2>2. 0 \in Int /\ 1 \in Int /\ -1 \in Int
    OBVIOUS
  <2> QED BY <2>1, <2>2 DEF ZeroTuple
<1>2. half \in Nat \ {0} /\ whole \in Nat \ {0}
  OBVIOUS
<1>3. /\ Denotes(One, Over(te, whole)) /\ Denotes(Zero, Over(t0, whole)) /\ Denotes(Negate(One), Over(tn, whole))
      /\ Denotes(omega, Over(tw, whole)) /\ Denotes(conjugate(omega), Over(tc, whole))
      /\ Denotes(iUnit, Over(ti, whole)) /\ Denotes(Negate(iUnit), Over(tj, whole))
      /\ Denotes(halfSqrt2, Over(th, half)) /\ Denotes(Negate(halfSqrt2), Over(tg, half))
      /\ Denotes(invSqrt2PlusI, Over(tp, half)) /\ Denotes(root, Over(tr, half))
      /\ Denotes(offDiag, Over(to, half)) /\ Denotes(Negate(offDiag), Over(tq, half))
  BY ConstantsDenote
<1>4. /\ Orthogonal(te, t0, t0, te, whole) /\ Orthogonal(t0, te, te, t0, whole) /\ Orthogonal(t0, tj, ti, t0, whole)
      /\ Orthogonal(te, t0, t0, tn, whole) /\ Orthogonal(th, th, th, tg, half)
      /\ Orthogonal(te, t0, t0, ti, whole) /\ Orthogonal(te, t0, t0, tj, whole)
      /\ Orthogonal(te, t0, t0, tw, whole) /\ Orthogonal(te, t0, t0, tc, whole)
      /\ Orthogonal(th, to, to, th, half) /\ Orthogonal(th, tq, tq, th, half)
      /\ Orthogonal(tp, tr, tr, tp, half) /\ Orthogonal(tr, tp, tp, tr, half)
  BY GateNumerators
<1> DEFINE bn == byName
<1>5. bn = [i    |-> <<One, Zero, Zero, One>>,
            x    |-> <<Zero, One, One, Zero>>,
            y    |-> <<Zero, Negate(iUnit), iUnit, Zero>>,
            z    |-> <<One, Zero, Zero, Negate(One)>>,
            h    |-> <<halfSqrt2, halfSqrt2, halfSqrt2, Negate(halfSqrt2)>>,
            s    |-> <<One, Zero, Zero, iUnit>>,
            sdg  |-> <<One, Zero, Zero, Negate(iUnit)>>,
            t    |-> <<One, Zero, Zero, omega>>,
            tdg  |-> <<One, Zero, Zero, conjugate(omega)>>,
            v    |-> <<halfSqrt2, offDiag, offDiag, halfSqrt2>>,
            vdg  |-> <<halfSqrt2, Negate(offDiag), Negate(offDiag), halfSqrt2>>,
            sx   |-> <<invSqrt2PlusI, root, root, invSqrt2PlusI>>,
            sxdg |-> <<root, invSqrt2PlusI, invSqrt2PlusI, root>>]
  BY DEF byName
<1> HIDE DEF bn, root, offDiag, te, t0, tn, tw, tc, ti, tj, th, tg, tp, tr, to, tq, half, whole
<1>6. DOMAIN bn = {"i", "x", "y", "z", "h", "s", "sdg", "t", "tdg", "v", "vdg", "sx", "sxdg"}
  BY <1>5
<1>7. /\ Unitary(<<One, Zero, Zero, One>>, 2) /\ Unitary(<<Zero, One, One, Zero>>, 2)
      /\ Unitary(<<Zero, Negate(iUnit), iUnit, Zero>>, 2)
  BY <1>1, <1>2, <1>3, <1>4, UnitaryByNumerators
<1>8. /\ Unitary(<<One, Zero, Zero, Negate(One)>>, 2)
      /\ Unitary(<<halfSqrt2, halfSqrt2, halfSqrt2, Negate(halfSqrt2)>>, 2)
      /\ Unitary(<<One, Zero, Zero, iUnit>>, 2)
  BY <1>1, <1>2, <1>3, <1>4, UnitaryByNumerators
<1>9. /\ Unitary(<<One, Zero, Zero, Negate(iUnit)>>, 2) /\ Unitary(<<One, Zero, Zero, omega>>, 2)
      /\ Unitary(<<One, Zero, Zero, conjugate(omega)>>, 2)
  BY <1>1, <1>2, <1>3, <1>4, UnitaryByNumerators
<1>10. /\ Unitary(<<halfSqrt2, offDiag, offDiag, halfSqrt2>>, 2)
       /\ Unitary(<<halfSqrt2, Negate(offDiag), Negate(offDiag), halfSqrt2>>, 2)
  BY <1>1, <1>2, <1>3, <1>4, UnitaryByNumerators
<1>11. /\ Unitary(<<invSqrt2PlusI, root, root, invSqrt2PlusI>>, 2)
       /\ Unitary(<<root, invSqrt2PlusI, invSqrt2PlusI, root>>, 2)
  BY <1>1, <1>2, <1>3, <1>4, UnitaryByNumerators
<1>12. ASSUME NEW b \in {bn.i, bn.x, bn.y, bn.z, bn.h, bn.s, bn.sdg, bn.t, bn.tdg, bn.v, bn.vdg, bn.sx, bn.sxdg}
       PROVE  Unitary(b, 2)
  BY <1>5, <1>7, <1>8, <1>9, <1>10, <1>11
<1>13. bn[name] \in {bn.i, bn.x, bn.y, bn.z, bn.h, bn.s, bn.sdg, bn.t, bn.tdg, bn.v, bn.vdg, bn.sx, bn.sxdg}
  BY <1>6 DEF bn
<1> QED BY <1>12, <1>13 DEF bn

\* A matrix with one entry, of norm 1, per row and per column.
LEMMA MonomialUnitary ==
    ASSUME NEW columns \in [1..4 -> 0..3], NEW weights \in [1..4 -> Weight],
           \A k \in 1..4 : Multiply(conjugate(weights[k]), weights[k]) = One,
           \A k \in 1..4, l \in 1..4 : columns[k] = columns[l] => k = l
    PROVE  Unitary(Monomial(columns, weights), 4)
<1> DEFINE f == Monomial(columns, weights)
           Term(k, i, j) == ColumnTerm(f, 4, k, i, j)
<1>1. Zero \in Weight /\ One \in Weight /\ conjugate(Zero) = Zero
  BY WeightLaws, SumLaws DEF NonZero
<1>2. ASSUME NEW k \in 0..3, NEW i \in 0..3
      PROVE  f[4 * k + i + 1] = IF i = columns[k + 1] THEN weights[k + 1] ELSE Zero
  <2> DEFINE n == 4 * k + i + 1
  <2>1. n \in 1..16 /\ (n - 1) \div 4 = k /\ (n - 1) % 4 = i
    BY SMTT(20)
  <2> HIDE DEF n
  <2>2. f[n] = LET row == (n - 1) \div 4 IN IF (n - 1) % 4 = columns[row + 1] THEN weights[row + 1] ELSE Zero
    BY <2>1 DEF Monomial
  <2> QED BY <2>1, <2>2 DEF n
<1> HIDE DEF f
<1>3. ASSUME NEW k \in 0..3, NEW i \in 0..3, NEW j \in 0..3
      PROVE  Term(k, i, j) = IF i = columns[k + 1] /\ j = columns[k + 1] THEN One ELSE Zero
  <2> DEFINE l == k + 1
             w == weights[l]
             c == conjugate(w)
  <2>1. l \in 1..4 /\ w \in Weight
    OBVIOUS
  <2>2. c \in Weight /\ Multiply(c, w) = One
    BY <2>1, SumLaws
  <2>3. Term(k, i, j) = Multiply(conjugate(IF i = columns[l] THEN w ELSE Zero), IF j = columns[l] THEN w ELSE Zero)
    BY <1>2 DEF ColumnTerm
  <2> HIDE DEF w
  <2>4. Multiply(c, Zero) = Zero /\ Multiply(Zero, w) = Zero /\ Multiply(Zero, Zero) = Zero
    BY <1>1, <2>1, <2>2, WeightLaws
  <2> HIDE DEF Term, l
  <2> QED BY <1>1, <2>2, <2>3, <2>4 DEF l
<1> DEFINE Here(k, i, j) == i = columns[k] /\ j = columns[k]
<1>4. Add(Zero, Zero) = Zero /\ Add(One, Zero) = One /\ Add(Zero, One) = One
  BY <1>1, SumLaws
<1>5. ASSUME NEW i \in 0..3, NEW j \in 0..3
      PROVE  ColumnProduct(f, 4, i, j) = IF i = j THEN One ELSE Zero
  <2>1. ColumnProduct(f, 4, i, j) = Add(Add(Term(0, i, j), Term(1, i, j)), Add(Term(2, i, j), Term(3, i, j)))
    BY DEF ColumnProduct
  <2> HIDE DEF Term
  <2>2. /\ Term(0, i, j) = IF Here(1, i, j) THEN One ELSE Zero
        /\ Term(1, i, j) = IF Here(2, i, j) THEN One ELSE Zero
        /\ Term(2, i, j) = IF Here(3, i, j) THEN One ELSE Zero
        /\ Term(3, i, j) = IF Here(4, i, j) THEN One ELSE Zero
    BY <1>3
  <2>3. CASE i # j
    <3>1. \A k \in 1..4 : ~Here(k, i, j)
      BY <2>3
    <3> QED BY <1>4, <2>1, <2>2, <2>3, <3>1
  <2>4. CASE i = j
    <3>1. \E k \in 1..4 : columns[k] = i
      <4>1. /\ columns[1] \in 0..3 /\ columns[2] \in 0..3 /\ columns[3] \in 0..3 /\ columns[4] \in 0..3
            /\ columns[1] # columns[2] /\ columns[1] # columns[3] /\ columns[1] # columns[4]
            /\ columns[2] # columns[3] /\ columns[2] # columns[4] /\ columns[3] # columns[4]
        OBVIOUS
      <4>2. columns[1] = i \/ columns[2] = i \/ columns[3] = i \/ columns[4] = i
        BY <4>1
      <4> QED BY <4>2
    <3>2. PICK k \in 1..4 : columns[k] = i
      BY <3>1
    <3>3. \A l \in 1..4 : Here(l, i, j) <=> l = k
      BY <2>4, <3>2
    <3>4. k = 1 \/ k = 2 \/ k = 3 \/ k = 4
      OBVIOUS
    <3> HIDE DEF Here
    <3>5. CASE k = 1
      BY <1>4, <2>1, <2>2, <2>4, <3>3, <3>5
    <3>6. CASE k = 2
      BY <1>4, <2>1, <2>2, <2>4, <3>3, <3>6
    <3>7. CASE k = 3
      BY <1>4, <2>1, <2>2, <2>4, <3>3, <3>7
    <3>8. CASE k = 4
      BY <1>4, <2>1, <2>2, <2>4, <3>3, <3>8
    <3> QED BY <3>4, <3>5, <3>6, <3>7, <3>8
  <2> QED BY <2>3, <2>4
<1>6. Unitary(f, 4)
  <2>1. 0..4 - 1 = 0..3
    OBVIOUS
  <2> QED BY <1>5, <2>1 DEF Unitary
<1> QED BY <1>6 DEF f

\* The phase of a diagonal unitary matrix has norm 1.
LEMMA PhaseNorm ==
    ASSUME NEW w \in Weight, Unitary(<<One, Zero, Zero, w>>, 2)
    PROVE  Multiply(conjugate(w), w) = One
<1> DEFINE f == <<One, Zero, Zero, w>>
<1>1. f[2] = Zero /\ f[4] = w
  OBVIOUS
<1>2. Unitary(f, 2)
  OBVIOUS
<1> HIDE DEF f
<1>3. ColumnProduct(f, 2, 1, 1) = One
  <2>1. 1 \in 0..2 - 1
    OBVIOUS
  <2> QED BY <1>2, <2>1 DEF Unitary
<1>4. ColumnProduct(f, 2, 1, 1) = Add(Multiply(conjugate(Zero), Zero), Multiply(conjugate(w), w))
  BY <1>1 DEF ColumnProduct, ColumnTerm
<1> DEFINE d == Multiply(conjugate(w), w)
<1>5. d \in Weight /\ Multiply(conjugate(Zero), Zero) = Zero
  <2>1. conjugate(w) \in Weight /\ conjugate(Zero) = Zero /\ Zero \in Weight
    BY SumLaws, WeightLaws
  <2> QED BY <2>1, WeightLaws
<1> HIDE DEF d
<1>6. Add(Zero, d) = d
  BY <1>5, SumLaws
<1> QED BY <1>3, <1>4, <1>5, <1>6 DEF d

\* The matrices of the gates on two qubits are unitary.
LEMMA TwoQubitNamedUnitary ==
    ASSUME NEW name \in DOMAIN twoQubitByName
    PROVE  Unitary(twoQubitByName[name], 4)
<1>1. One \in Weight /\ iUnit \in Weight /\ Negate(iUnit) \in Weight
  BY ConstantWeights
<1>2. Multiply(conjugate(One), One) = One
  BY <1>1, ConjugateOfOne, WeightLaws
<1>3. Multiply(conjugate(iUnit), iUnit) = One
  <2>1. "s" \in DOMAIN byName /\ byName["s"] = <<One, Zero, Zero, iUnit>>
    BY DEF byName
  <2>2. Unitary(<<One, Zero, Zero, iUnit>>, 2)
    BY <2>1, NamedUnitary
  <2> QED BY <1>1, <2>2, PhaseNorm
<1>4. Multiply(conjugate(Negate(iUnit)), Negate(iUnit)) = One
  <2>1. "sdg" \in DOMAIN byName /\ byName["sdg"] = <<One, Zero, Zero, Negate(iUnit)>>
    BY DEF byName
  <2>2. Unitary(<<One, Zero, Zero, Negate(iUnit)>>, 2)
    BY <2>1, NamedUnitary
  <2> QED BY <1>1, <2>2, PhaseNorm
<1> DEFINE cs == <<0, 2, 1, 3>>
           cd == <<0, 2, 3, 1>>
           w1 == <<One, One, One, One>>
           w2 == <<One, iUnit, iUnit, One>>
           w3 == <<One, Negate(iUnit), Negate(iUnit), One>>
<1>5. /\ cs \in [1..4 -> 0..3] /\ \A k \in 1..4, l \in 1..4 : cs[k] = cs[l] => k = l
      /\ cd \in [1..4 -> 0..3] /\ \A k \in 1..4, l \in 1..4 : cd[k] = cd[l] => k = l
  OBVIOUS
<1>6. /\ w1 \in [1..4 -> Weight] /\ \A k \in 1..4 : Multiply(conjugate(w1[k]), w1[k]) = One
      /\ w2 \in [1..4 -> Weight] /\ \A k \in 1..4 : Multiply(conjugate(w2[k]), w2[k]) = One
      /\ w3 \in [1..4 -> Weight] /\ \A k \in 1..4 : Multiply(conjugate(w3[k]), w3[k]) = One
  BY <1>1, <1>2, <1>3, <1>4
<1> HIDE DEF cs, cd, w1, w2, w3
<1>7. /\ Unitary(Monomial(cs, w1), 4) /\ Unitary(Monomial(cs, w2), 4)
      /\ Unitary(Monomial(cs, w3), 4) /\ Unitary(Monomial(cd, w1), 4)
  BY <1>5, <1>6, MonomialUnitary
<1> DEFINE bn == twoQubitByName
<1>8. bn = [swap |-> Monomial(cs, w1), iswap |-> Monomial(cs, w2), iswapdg |-> Monomial(cs, w3), dcx |-> Monomial(cd, w1)]
  BY DEF twoQubitByName, cs, cd, w1, w2, w3
<1> HIDE DEF bn
<1>9. DOMAIN bn = {"swap", "iswap", "iswapdg", "dcx"}
  BY <1>8
<1>10. ASSUME NEW b \in {bn.swap, bn.iswap, bn.iswapdg, bn.dcx} PROVE Unitary(b, 4)
  BY <1>7, <1>8
<1>11. bn[name] \in {bn.swap, bn.iswap, bn.iswapdg, bn.dcx}
  BY <1>9 DEF bn
<1> QED BY <1>10, <1>11 DEF bn

\* Every gate that may be asked for is one of DwGateMatrixDefinitions.cpp.
GatesAreNamed ==
    \A r \in Request : Accepted(r) =>
        \/ Len(r.targets) = 1 /\ \E name \in DOMAIN byName : r.matrix = byName[name]
        \/ Len(r.targets) = 2 /\ \E name \in DOMAIN twoQubitByName : r.matrix = twoQubitByName[name]

\* They are unitary.
LEMMA NamedGatesAreUnitary ==
    ASSUME GatesAreNamed
    PROVE  GatesAreUnitary
<1> SUFFICES ASSUME NEW r \in Request, Accepted(r) PROVE Unitary(r.matrix, Pow2[Len(r.targets)])
  BY DEF GatesAreUnitary, UnitaryRequest
<1>1. Pow2[1] = 2 /\ Pow2[2] = 4
  <2>1. Pow2[1] = 2 * Pow2[0] /\ Pow2[0] = 1 /\ Pow2[2] = 2 * Pow2[1]
    BY Pow2Def
  <2> QED BY <2>1
<1>2. CASE Len(r.targets) = 1 /\ \E name \in DOMAIN byName : r.matrix = byName[name]
  <2>1. Unitary(r.matrix, 2)
    BY <1>2, NamedUnitary
  <2> QED BY <1>1, <1>2, <2>1
<1>3. CASE Len(r.targets) = 2 /\ \E name \in DOMAIN twoQubitByName : r.matrix = twoQubitByName[name]
  <2>1. Unitary(r.matrix, 4)
    BY <1>3, TwoQubitNamedUnitary
  <2> QED BY <1>1, <1>3, <2>1
<1> QED BY <1>2, <1>3 DEF GatesAreNamed

(***************************************************************************)
(* Whatever gates of DwGateMatrixDefinitions.cpp are asked for, on any     *)
(* qubits and with any controls, the norm stays as it is, exactly.         *)
(***************************************************************************)
THEOREM NamedGatesKeepNorm ==
    ASSUME GatesAreNamed
    PROVE  Spec => NormPreserved
<1>1. GatesAreUnitary
  BY NamedGatesAreUnitary
<1> QED BY <1>1, UnitaryGatesKeepNorm

=============================================================================
