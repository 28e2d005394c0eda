----------------------------- MODULE DwDiagram -----------------------------
(***************************************************************************)
(* Decision diagrams with weights from Dw, and what DwPackage computes on  *)
(* them (src/dd/exact/DwPackage.cpp).  An edge is [p, w].  A node is its   *)
(* content [var, e], because makeVEdge and makeMEdge share nodes of equal  *)
(* content: p = q is equality of pointers.  The tables that remember the   *)
(* result for a pair of nodes are functions of the contents, so they are   *)
(* left out: a result for nodes with weights of 1 is rescaled.             *)
(*                                                                         *)
(* Vectors and matrices differ in the edges of a node: arity is V or M.    *)
(* A recursion of the code is a function of its arguments, f[...] == step, *)
(* where step is one call, which is given f for the calls it makes.        *)
(***************************************************************************)
EXTENDS DwEuclid, SequencesExt

CONSTANT NumQubits      \* nqubits_
ASSUME QubitsAssumption == NumQubits \in Nat

VARIABLE strategy       \* strategy_, "None", "Inverse" or "Gcd"

V == 2
M == 4

Null == [var |-> -1, e |-> <<>>]
terminal(w) == [p |-> Null, w |-> w]
zero == terminal(Zero)
identity == terminal(One)

Bare(p) == [p |-> p, w |-> One]
Rescaled(w, edge) == [p |-> edge.p, w |-> Multiply(w, edge.w)]

topVar(p) == p.var
HigherVar(p, q) == IF topVar(p) < topVar(q) THEN topVar(q) ELSE topVar(p)

(***************************************************************************)
(* The diagrams: Nodes(arity, k)[n] are the nodes for the qubits from k to *)
(* n - 1, with a variable that goes down along every edge.  An edge with   *)
(* weight 0 has no node.                                                   *)
(***************************************************************************)
EdgesTo(nodes) == {edge \in [p : nodes, w : Weight] : isZero(edge.w) => edge.p = Null}

NodesOver(arity, var, nodes) == [var : {var}, e : [1..arity -> EdgesTo(nodes)]]

Nodes(arity, k) ==
    LET below[n \in Nat] ==
            IF n <= k THEN {Null} ELSE below[n - 1] \cup NodesOver(arity, n - 1, below[n - 1])
    IN  below

Edge(arity) == EdgesTo(Nodes(arity, 0)[NumQubits])

\* A sequence whose elements are computed once, and not at each use.
Listed(f) == <<>> \o f

\* Row and column of edge i of a matrix node.
Row(i) == (i - 1) \div 2
Col(i) == (i - 1) % 2

\* The bit of an index that is a qubit's.
Bit(index, qubit) == (index \div Pow2[qubit]) % 2
-----------------------------------------------------------------------------
(***************************************************************************)
(* makeVEdge and makeMEdge.  Zero children lose their node, redundant      *)
(* nodes are skipped, and a factor is moved to the edge that is returned.  *)
(***************************************************************************)
ZeroTerminated(edge) == IF isZero(edge.w) THEN zero ELSE edge

\* The first edge with a weight other than 0.
Leftmost(es) ==
    CHOOSE i \in DOMAIN es : ~isZero(es[i].w) /\ \A j \in 1..i - 1 : isZero(es[j].w)

\* The gcd of the weights other than 0, from left to right.
gcdStep(es, upTo, i) ==
    IF i = Leftmost(es) THEN es[i].w
    ELSE IF isZero(es[i].w) THEN upTo[i - 1]
    ELSE gcd[<<upTo[i - 1], es[i].w>>]

gcdOfMany(es) ==
    LET upTo[i \in Leftmost(es)..Len(es)] == gcdStep(es, upTo, i)
    IN  upTo[Len(es)]

\* (mutant) the factor of Inverse is the leftmost weight of the top edge only
FactorFirst(es) ==
    CASE strategy = "None" -> One
      [] strategy = "Inverse" -> IF isZero(es[1].w) THEN One ELSE es[1].w
      [] strategy = "Gcd" -> reduceAssociate(gcdOfMany(es))

Factor(es) ==
    CASE strategy = "None" -> One
      [] strategy = "Inverse" -> es[Leftmost(es)].w
      [] strategy = "Gcd" -> reduceAssociate(gcdOfMany(es))

RescaledAll(c, es) == Listed([i \in DOMAIN es |-> Rescaled(c, es[i])])

FactoredOut(var, es, eta) ==
    [p |-> [var |-> var, e |-> RescaledAll(inverse(eta), es)], w |-> eta]

\* A vector node is redundant if it does not depend on its qubit, a matrix
\* node if it acts as the identity on it.
IdentityLike(es) == es[1] = es[4] /\ es[2] = zero /\ es[3] = zero
RedundantVector(arity, es) == arity = V /\ es[1] = es[2]    \* (mutant) vectors only

Redundant(arity, es) == IF arity = V THEN es[1] = es[2] ELSE IdentityLike(es)

Normalized(arity, var, es) ==
    IF Redundant(arity, es) THEN es[1] ELSE FactoredOut(var, es, Factor(es))

makeEdge(arity, var, children) ==
    Normalized(arity, var, Listed([i \in 1..arity |-> ZeroTerminated(children[i])]))

makeVEdge(var, children) == makeEdge(V, var, children)
makeMEdge(var, children) == makeEdge(M, var, children)

\* A node that skips var: a vector does not depend on it, a matrix is the
\* identity on it.
vChildrenAt(p, var) == IF p.var = var THEN p.e ELSE <<Bare(p), Bare(p)>>
\* (mutant) a matrix that skips var has the same entry in all four blocks
mChildrenConstant(p, var) ==
    IF p.var = var THEN p.e ELSE <<Bare(p), Bare(p), Bare(p), Bare(p)>>

mChildrenAt(p, var) == IF p.var = var THEN p.e ELSE <<Bare(p), zero, zero, Bare(p)>>
childrenAt(arity, p, var) == IF arity = V THEN vChildrenAt(p, var) ELSE mChildrenAt(p, var)
-----------------------------------------------------------------------------
(***************************************************************************)
(* States and operators from their parts.                                  *)
(***************************************************************************)
invSqrt2 == inverse(sqrt2)

BasisState == {"Zero", "One", "Plus", "Minus", "Right", "Left"}

\* The weights of |0> and |1>.
BasisWeights(s) ==
    CASE s = "Zero" -> <<One, Zero>>
      [] s = "One" -> <<Zero, One>>
      [] s = "Plus" -> <<invSqrt2, invSqrt2>>
      [] s = "Minus" -> <<invSqrt2, Negate(invSqrt2)>>
      [] s = "Right" -> <<invSqrt2, Multiply(invSqrt2, iUnit)>>
      [] s = "Left" -> <<invSqrt2, Negate(Multiply(invSqrt2, iUnit))>>

Weighted(w, edge) == <<Rescaled(w[1], edge), Rescaled(w[2], edge)>>

basisStep(state, start, upTo, n) ==
    IF n = 0 THEN identity
    ELSE makeVEdge(start + n - 1, Weighted(BasisWeights(state[n]), upTo[n - 1]))

\* state[1] is the state of qubit start, and so on up.
makeBasisState(state, start) ==
    LET upTo[n \in 0..Len(state)] == basisStep(state, start, upTo, n)
    IN  upTo[Len(state)]

identityStep(upTo, n) ==
    IF n = 0 THEN identity
    ELSE makeMEdge(n - 1, <<upTo[n - 1], zero, zero, upTo[n - 1]>>)

makeIdentity ==
    LET upTo[n \in 0..NumQubits] == identityStep(upTo, n)
    IN  upTo[NumQubits]

\* The blocks of 2^level numbers, block j being the one that j others precede.
Block == {b \in Nat \X (0..NumQubits) : (b[1] + 1) * Pow2[b[2]] <= Pow2[NumQubits]}

vectorStep(amplitudes, rec, j, level) ==
    IF level = 0 THEN terminal(amplitudes[j + 1])
    ELSE makeVEdge(level - 1, <<rec[<<2 * j, level - 1>>], rec[<<2 * j + 1, level - 1>>]>>)

makeStateFromVectorRec(amplitudes) ==
    LET rec[b \in Block] == vectorStep(amplitudes, rec, b[1], b[2])
    IN  rec

makeStateFromVector(amplitudes) == makeStateFromVectorRec(amplitudes)[<<0, NumQubits>>]

SquareBlock == {b \in Nat \X Nat \X (0..NumQubits) : /\ (b[1] + 1) * Pow2[b[3]] <= Pow2[NumQubits]
                                                    /\ (b[2] + 1) * Pow2[b[3]] <= Pow2[NumQubits]}

matrixStep(matrix, rec, j, k, level) ==
    IF level = 0 THEN terminal(matrix[j + 1][k + 1])
    ELSE makeMEdge(level - 1,
             [i \in 1..M |-> rec[<<2 * j + Row(i), 2 * k + Col(i), level - 1>>]])

makeDDFromMatrixRec(matrix) ==
    LET rec[b \in SquareBlock] == matrixStep(matrix, rec, b[1], b[2], b[3])
    IN  rec

makeDDFromMatrix(matrix) == makeDDFromMatrixRec(matrix)[<<0, 0, NumQubits>>]
-----------------------------------------------------------------------------
(***************************************************************************)
(* Sum and product.  Zero edges end a recursion early, and so do two       *)
(* terminals, whatever the number of qubits below.                         *)
(***************************************************************************)
addStep(arity, sum, a, b) ==
    LET var == HigherVar(a.p, b.p)
        ac == childrenAt(arity, a.p, var)
        bc == childrenAt(arity, b.p, var)
    IN  IF isZero(a.w) THEN b
        ELSE IF isZero(b.w) THEN a
        ELSE IF a.p = Null /\ b.p = Null THEN terminal(Add(a.w, b.w))
        ELSE makeEdge(arity, var,
                 [i \in 1..arity |-> sum[<<Rescaled(a.w, ac[i]), Rescaled(b.w, bc[i])>>]])

addRec(arity) ==
    LET sum[ab \in Edge(arity) \X Edge(arity)] == addStep(arity, sum, ab[1], ab[2])
    IN  sum

add(a, b) == addRec(V)[<<a, b>>]

(***************************************************************************)
(* multiplyRec of a matrix by a vector or a matrix: a row of x's children  *)
(* by a column of y's.  What mvCache_ and mmCache_ hold for two nodes is   *)
(* their product with weights of 1, to be rescaled.                        *)
(***************************************************************************)
RowByCol(arity, product, xc, yc, row, col) ==
    LET cols == arity \div 2
    IN  addRec(arity)[<<product[<<xc[2 * row + 1], yc[col + 1]>>],
                        product[<<xc[2 * row + 2], yc[cols + col + 1]>>]>>]

multiplyStep(arity, product, a, b) ==
    LET scale == Multiply(a.w, b.w)
        var == HigherVar(a.p, b.p)
        xc == mChildrenAt(a.p, var)
        yc == childrenAt(arity, b.p, var)
        cols == arity \div 2
    IN  IF isZero(a.w) \/ isZero(b.w) THEN zero
        ELSE IF a.p = Null /\ b.p = Null THEN terminal(scale)
        ELSE Rescaled(scale, makeEdge(arity, var,
                 [i \in 1..arity |-> RowByCol(arity, product, xc, yc, (i - 1) \div cols,
                                              (i - 1) % cols)]))

multiplyRec(arity) ==
    LET product[ab \in Edge(M) \X Edge(arity)] == multiplyStep(arity, product, ab[1], ab[2])
    IN  product

multiply(arity, a, b) == multiplyRec(arity)[<<a, b>>]
-----------------------------------------------------------------------------
(***************************************************************************)
(* x's terminals are replaced by y, which is a diagram for the qubits      *)
(* below yNumQubits, and x's variables are moved up by shift.  Without the *)
(* shift x has no variable below yNumQubits, which is for the caller to    *)
(* see to.                                                                 *)
(***************************************************************************)
kroneckerStep(arity, graft, x, y, shift) ==
    IF isZero(x.w) \/ isZero(y.w) THEN zero
    ELSE IF x.p = Null THEN Rescaled(x.w, y)
    ELSE Rescaled(x.w, makeEdge(arity, x.p.var + shift, [i \in 1..arity |-> graft[x.p.e[i]]]))

kroneckerRec(arity, y, yNumQubits, shift) ==
    LET graft[x \in EdgesTo(Nodes(arity, yNumQubits - shift)[NumQubits])] ==
            kroneckerStep(arity, graft, x, y, shift)
    IN  graft

Shift(yNumQubits, incIdx) == IF incIdx THEN yNumQubits ELSE 0

\* Otherwise kronecker throws.
kroneckerFits(x, yNumQubits, incIdx) ==
    topVar(x.p) + 1 + Shift(yNumQubits, incIdx) <= NumQubits

kronecker(arity, x, y, yNumQubits, incIdx) ==
    kroneckerRec(arity, y, yNumQubits, Shift(yNumQubits, incIdx))[x]

(***************************************************************************)
(* The recursions below visit every level, since a level that x and y both *)
(* skip stands for two equal halves.                                       *)
(***************************************************************************)
\* (mutant) they end as soon as both are terminals
TerminalsReached(level, p, q) == p = Null /\ q = Null

BottomReached(level, p, q) == level = 0

PairAtLevel == Edge(V) \X Edge(V) \X (0..NumQubits)

outerStep(outer, x, y, level) ==
    LET scale == Multiply(x.w, conjugate(y.w))
        xc == vChildrenAt(x.p, level - 1)
        yc == vChildrenAt(y.p, level - 1)
    IN  IF isZero(x.w) \/ isZero(y.w) THEN zero
        ELSE IF BottomReached(level, x.p, y.p) THEN terminal(scale)
        ELSE Rescaled(scale, makeMEdge(level - 1,
                 [i \in 1..M |-> outer[<<xc[Row(i) + 1], yc[Col(i) + 1], level - 1>>]]))

outerProductRec[xy \in PairAtLevel] == outerStep(outerProductRec, xy[1], xy[2], xy[3])

outerProduct(x, y) == outerProductRec[<<x, y, NumQubits>>]

innerStep(inner, a, b, level) ==
    LET scale == Multiply(conjugate(a.w), b.w)
        ac == vChildrenAt(a.p, level - 1)
        bc == vChildrenAt(b.p, level - 1)
    IN  IF isZero(a.w) \/ isZero(b.w) THEN Zero
        ELSE IF BottomReached(level, a.p, b.p) THEN scale
        ELSE Multiply(scale, Add(inner[<<ac[1], bc[1], level - 1>>],
                                 inner[<<ac[2], bc[2], level - 1>>]))

innerProductRec[ab \in PairAtLevel] == innerStep(innerProductRec, ab[1], ab[2], ab[3])

innerProduct(a, b) == innerProductRec[<<a, b, NumQubits>>]

amplitudeStep(entry, edge, index, level) ==
    LET child == vChildrenAt(edge.p, level - 1)[Bit(index, level - 1) + 1]
    IN  IF level = 0 THEN edge.w
        ELSE Multiply(edge.w, entry[<<child, index, level - 1>>])

amplitudeRec[at \in Edge(V) \X Nat \X (0..NumQubits)] ==
    amplitudeStep(amplitudeRec, at[1], at[2], at[3])

amplitude(v, index) == amplitudeRec[<<v, index, NumQubits>>]

entryStep(entry, edge, row, col, level) ==
    LET qubit == level - 1
        child == mChildrenAt(edge.p, qubit)[2 * Bit(row, qubit) + Bit(col, qubit) + 1]
    IN  IF level = 0 THEN edge.w
        ELSE IF isZero(edge.w) THEN Zero
        ELSE Multiply(edge.w, entry[<<child, row, col, qubit>>])

matrixEntryRec[at \in Edge(M) \X Nat \X Nat \X (0..NumQubits)] ==
    entryStep(matrixEntryRec, at[1], at[2], at[3], at[4])

matrixEntry(m, row, col) == matrixEntryRec[<<m, row, col, NumQubits>>]

(***************************************************************************)
(* fidelity divides the first by the second, as floating-point numbers.    *)
(***************************************************************************)
fidelity(a, b) == [num |-> normSquared(innerProduct(a, b)),
                   denom |-> Multiply(innerProduct(a, a), innerProduct(b, b))]
=============================================================================
