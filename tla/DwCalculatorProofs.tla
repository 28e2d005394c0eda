------------------------- MODULE DwCalculatorProofs -------------------------
(***************************************************************************)
(* What the recursive operations of DwPackage return, for every number of  *)
(* qubits, every matrix and vector and every strategy.                     *)
(*                                                                         *)
(* The first theorem, EdgesAlwaysReduced: each operation returns an edge   *)
(* whose nodes are all as makeEdge leaves them.  The nodes are taken by    *)
(* levels; an operation is shown to return an edge of its level whenever   *)
(* its recursive calls return edges of the levels below, and induction     *)
(* over a measure of the arguments does the rest.                          *)
(*                                                                         *)
(* The second, InverseAlwaysCanonical: under strategy Inverse an edge that *)
(* is reduced is the one that makeStateFromVector or makeDDFromMatrix      *)
(* returns for the numbers that the edge stands for.  Two computations of  *)
(* the same vector or matrix end in the same node.                         *)
(*                                                                         *)
(* The last part reads edges.  Read is the number that a diagram stands    *)
(* for at one row and one column, the product of the weights on a path.    *)
(* addition adds what is read of its arguments (ReadAdd), and multiply     *)
(* returns the sum over an index, Total, of products of entries            *)
(* (ReadMultiply): a node adds the sums over the two halves of the index.  *)
(***************************************************************************)
EXTENDS DwCalculator, DwProofs

(***************************************************************************)
(* Levels of nodes.  Nodes and ReducedNodes are the levels of one shape,   *)
(* where norm says which nodes are kept; under "Any" all are.              *)
(***************************************************************************)
KeptUnder(arity, norm, p) == norm = "Any" \/ Kept(arity, p.e, norm)
KeptNodes(arity, norm, var, nodes) == {p \in NodesOver(arity, var, nodes) : KeptUnder(arity, norm, p)}

\* The level n, from the levels below it.
Level(arity, k, norm, below, n) ==
    IF n <= k THEN {Null} ELSE below[n - 1] \cup KeptNodes(arity, norm, n - 1, below[n - 1])

\* There are such levels.
LEMMA LevelsExist ==
    ASSUME NEW arity, NEW k \in Nat, NEW norm
    PROVE  \E f : f = [n \in Nat |-> Level(arity, k, norm, f, n)]
<1> DEFINE Upto(f, n) == f = [i \in 0..n |-> Level(arity, k, norm, f, i)]
           Solvable == {n \in Nat : \E f : Upto(f, n)}
<1>1. ASSUME NEW f, NEW g, NEW i \in Nat, i > 0 => f[i - 1] = g[i - 1]
      PROVE  Level(arity, k, norm, f, i) = Level(arity, k, norm, g, i)
  <2>1. i <= k \/ f[i - 1] = g[i - 1]
    BY <1>1
  <2> QED BY <2>1 DEF Level
<1>2. 0 \in Solvable
  <2> DEFINE f == [i \in 0..0 |-> {Null}]
  <2>1. \A i \in 0..0 : Level(arity, k, norm, f, i) = {Null}
    BY DEF Level
  <2>2. Upto(f, 0)
    BY <2>1
  <2> QED BY <2>2
<1>3. ASSUME NEW n \in Nat, n \in Solvable PROVE n + 1 \in Solvable
  <2>1. PICK g : Upto(g, n)
    BY <1>3
  <2> DEFINE f == [i \in 0..n + 1 |-> IF i <= n THEN g[i] ELSE Level(arity, k, norm, g, i)]
  <2>2. f = [i \in 0..n + 1 |-> f[i]]
    OBVIOUS
  <2>3. \A i \in 0..n + 1 : f[i] = IF i <= n THEN g[i] ELSE Level(arity, k, norm, g, i)
    OBVIOUS
  <2> HIDE DEF f
  <2>4. ASSUME NEW i \in 0..n + 1 PROVE f[i] = Level(arity, k, norm, f, i)
    <3>1. f[i] = Level(arity, k, norm, g, i)
      <4>1. i <= n => g[i] = Level(arity, k, norm, g, i)
        BY <2>1
      <4> QED BY <2>3, <4>1
    <3>2. i > 0 => f[i - 1] = g[i - 1]
      BY <2>3
    <3> QED BY <1>1, <3>1, <3>2
  <2>5. Upto(f, n + 1)
    BY <2>2, <2>4
  <2> HIDE DEF Upto
  <2> QED BY <2>5
<1>4. Nat \subseteq Solvable
  <2> HIDE DEF Solvable
  <2> QED BY <1>2, <1>3, SetInduction
<1> DEFINE Solution(n) == CHOOSE f : Upto(f, n)
           Partial == [n \in Nat |-> Solution(n)]
<1>5. \A n \in Nat : \A i \in 0..n : Partial[n][i] = Level(arity, k, norm, Partial[n], i)
  <2> TAKE n \in Nat
  <2>1. \E f : Upto(f, n)
    BY <1>4
  <2>2. Upto(Solution(n), n)
    <3> HIDE DEF Upto
    <3> QED BY <2>1
  <2> HIDE DEF Solution
  <2> QED BY <2>2
<1> HIDE DEF Partial
<1> DEFINE Agree == {n \in Nat : \A i \in Nat, j \in Nat : n <= i /\ n <= j => Partial[i][n] = Partial[j][n]}
<1>6. 0 \in Agree
  <2> SUFFICES ASSUME NEW i \in Nat, NEW j \in Nat PROVE Partial[i][0] = Partial[j][0]
    OBVIOUS
  <2>1. 0 \in 0..i /\ 0 \in 0..j
    OBVIOUS
  <2> QED BY <1>1, <1>5, <2>1
<1>7. ASSUME NEW n \in Nat, n \in Agree PROVE n + 1 \in Agree
  <2> SUFFICES ASSUME NEW i \in Nat, NEW j \in Nat, n + 1 <= i, n + 1 <= j
               PROVE  Partial[i][n + 1] = Partial[j][n + 1]
    OBVIOUS
  <2>1. n + 1 \in 0..i /\ n + 1 \in 0..j /\ n + 1 \in Nat /\ (n + 1) - 1 = n
    OBVIOUS
  <2>2. Partial[i][n] = Partial[j][n]
    BY <1>7
  <2>3. Level(arity, k, norm, Partial[i], n + 1) = Level(arity, k, norm, Partial[j], n + 1)
    BY <1>1, <2>1, <2>2
  <2> QED BY <1>5, <2>1, <2>3
<1>8. Nat \subseteq Agree
  <2> HIDE DEF Agree
  <2> QED BY <1>6, <1>7, SetInduction
<1> DEFINE f == [n \in Nat |-> Partial[n][n]]
<1>9. f = [n \in Nat |-> f[n]] /\ \A n \in Nat : f[n] = Partial[n][n]
  OBVIOUS
<1> HIDE DEF f
<1>10. ASSUME NEW n \in Nat PROVE f[n] = Level(arity, k, norm, f, n)
  <2>1. n > 0 => Partial[n][n - 1] = f[n - 1]
    <3> SUFFICES ASSUME n > 0 PROVE Partial[n][n - 1] = Partial[n - 1][n - 1]
      BY <1>9
    <3>1. n - 1 \in Agree /\ n - 1 <= n
      BY <1>8
    <3> QED BY <3>1
  <2>2. Level(arity, k, norm, Partial[n], n) = Level(arity, k, norm, f, n)
    BY <1>1, <2>1
  <2>3. n \in 0..n
    OBVIOUS
  <2> QED BY <1>5, <1>9, <2>2, <2>3
<1>11. f = [n \in Nat |-> Level(arity, k, norm, f, n)]
  BY <1>9, <1>10
<1> QED BY <1>11

\* The levels of all diagrams.
LEMMA NodesLevels ==
    ASSUME NEW arity, NEW k \in Nat
    PROVE  \A n \in Nat : Nodes(arity, k)[n] = Level(arity, k, "Any", Nodes(arity, k), n)
<1> DEFINE Body(f, n) == IF n <= k THEN {Null} ELSE f[n - 1] \cup NodesOver(arity, n - 1, f[n - 1])
<1>1. \A f, n : Level(arity, k, "Any", f, n) = Body(f, n)
  BY DEF Level, KeptNodes, KeptUnder
<1>2. PICK f : f = [n \in Nat |-> Level(arity, k, "Any", f, n)]
  BY LevelsExist
<1>3. f = [n \in Nat |-> Body(f, n)]
  <2> HIDE DEF Body
  <2>1. [n \in Nat |-> Body(f, n)] = [n \in Nat |-> Level(arity, k, "Any", f, n)]
    BY <1>1
  <2> QED BY <1>2, <2>1
<1>4. Nodes(arity, k) = [n \in Nat |-> Body(Nodes(arity, k), n)]
  BY <1>3 DEF Nodes
<1> HIDE DEF Body
<1>5. \A n \in Nat : Nodes(arity, k)[n] = Body(Nodes(arity, k), n)
  BY <1>4
<1> QED BY <1>1, <1>5

\* The levels of the reduced ones.
LEMMA ReducedLevels ==
    ASSUME NEW arity, NEW norm, norm # "Any"
    PROVE  \A n \in Nat : ReducedNodes(arity, norm)[n] = Level(arity, 0, norm, ReducedNodes(arity, norm), n)
<1> DEFINE Body(f, n) == IF n = 0 THEN {Null}
                         ELSE f[n - 1] \cup {p \in NodesOver(arity, n - 1, f[n - 1]) : Kept(arity, p.e, norm)}
<1>1. \A f : \A n \in Nat : Level(arity, 0, norm, f, n) = Body(f, n)
  <2> TAKE f
  <2> TAKE n \in Nat
  <2>1. KeptNodes(arity, norm, n - 1, f[n - 1])
           = {p \in NodesOver(arity, n - 1, f[n - 1]) : Kept(arity, p.e, norm)}
    BY DEF KeptNodes, KeptUnder
  <2>2. n <= 0 <=> n = 0
    OBVIOUS
  <2> QED BY <2>1, <2>2 DEF Level
<1>2. PICK f : f = [n \in Nat |-> Level(arity, 0, norm, f, n)]
  BY LevelsExist
<1>3. f = [n \in Nat |-> Body(f, n)]
  <2> HIDE DEF Body
  <2>1. [n \in Nat |-> Body(f, n)] = [n \in Nat |-> Level(arity, 0, norm, f, n)]
    BY <1>1
  <2> QED BY <1>2, <2>1
<1>4. ReducedNodes(arity, norm) = [n \in Nat |-> Body(ReducedNodes(arity, norm), n)]
  BY <1>3 DEF ReducedNodes
<1> HIDE DEF Body
<1>5. \A n \in Nat : ReducedNodes(arity, norm)[n] = Body(ReducedNodes(arity, norm), n)
  BY <1>4
<1> QED BY <1>1, <1>5

(***************************************************************************)
(* A family of levels: what the lemmas below need of Nodes(arity, 0) and   *)
(* of ReducedNodes(arity, norm).                                           *)
(***************************************************************************)
Family(arity, norm, nodes) ==
    /\ arity \in {V, M}
    /\ nodes[0] = {Null}
    /\ \A n \in Nat : nodes[n + 1] = nodes[n] \cup KeptNodes(arity, norm, n, nodes[n])

\* Both are families.
LEMMA Families ==
    ASSUME NEW arity \in {V, M}
    PROVE  /\ Family(arity, "Any", Nodes(arity, 0))
           /\ \A norm \in {"None", "Inverse", "Gcd"} : Family(arity, norm, ReducedNodes(arity, norm))
<1>1. ASSUME NEW norm, NEW f, \A n \in Nat : f[n] = Level(arity, 0, norm, f, n)
      PROVE  Family(arity, norm, f)
  <2>1. f[0] = {Null}
    <3>1. f[0] = Level(arity, 0, norm, f, 0) /\ 0 <= 0
      BY <1>1
    <3> QED BY <3>1 DEF Level
  <2>2. ASSUME NEW n \in Nat PROVE f[n + 1] = f[n] \cup KeptNodes(arity, norm, n, f[n])
    <3>1. n + 1 \in Nat /\ (n + 1) - 1 = n /\ ~(n + 1 <= 0)
      OBVIOUS
    <3>2. f[n + 1] = Level(arity, 0, norm, f, n + 1)
      BY <1>1, <3>1
    <3> QED BY <3>1, <3>2 DEF Level
  <2> QED BY <2>1, <2>2 DEF Family
<1> QED BY <1>1, NodesLevels, ReducedLevels

\* What is known of a node of a level.
NodeFacts(arity, norm, nodes, n, p) ==
    /\ p.var \in Int /\ -1 <= p.var /\ p.var < n
    /\ p.var = -1 <=> p = Null
    /\ p.var >= 0 => p \in KeptNodes(arity, norm, p.var, nodes[p.var])
    /\ p \in nodes[p.var + 1]

\* Levels grow, and a node is first found on the level of its variable.
LEMMA FamilyFacts ==
    ASSUME NEW arity, NEW norm, NEW nodes, Family(arity, norm, nodes)
    PROVE  /\ \A n \in Nat : Null \in nodes[n]
           /\ \A n \in Nat, k \in Nat : n <= k => nodes[n] \subseteq nodes[k]
           /\ \A n \in Nat : \A p \in nodes[n] : NodeFacts(arity, norm, nodes, n, p)
<1> USE DEF Family
<1>1. \A n \in Nat : Null \in nodes[n]
  <2> DEFINE S == {n \in Nat : Null \in nodes[n]}
  <2>1. 0 \in S /\ \A n \in Nat : n \in S => n + 1 \in S
    OBVIOUS
  <2> HIDE DEF S
  <2>2. Nat \subseteq S
    BY <2>1, SetInduction
  <2> QED BY <2>2 DEF S
<1>2. ASSUME NEW n \in Nat PROVE \A k \in Nat : n <= k => nodes[n] \subseteq nodes[k]
  <2> DEFINE S == {k \in Nat : n <= k => nodes[n] \subseteq nodes[k]}
  <2>1. 0 \in S
    OBVIOUS
  <2>2. ASSUME NEW k \in Nat, k \in S PROVE k + 1 \in S
    <3>1. nodes[k] \subseteq nodes[k + 1]
      OBVIOUS
    <3>2. n <= k + 1 => n <= k \/ n = k + 1
      OBVIOUS
    <3>3. n <= k + 1 => nodes[n] \subseteq nodes[k + 1]
      BY <2>2, <3>1, <3>2
    <3> QED BY <3>3
  <2> HIDE DEF S
  <2>3. Nat \subseteq S
    BY <2>1, <2>2, SetInduction
  <2> QED BY <2>3 DEF S
<1>3. \A n \in Nat : \A p \in nodes[n] : NodeFacts(arity, norm, nodes, n, p)
  <2> DEFINE S == {n \in Nat : \A p \in nodes[n] : NodeFacts(arity, norm, nodes, n, p)}
  <2>1. 0 \in S
    <3>1. Null.var = -1 /\ Null \in nodes[-1 + 1]
      BY DEF Null
    <3>2. NodeFacts(arity, norm, nodes, 0, Null)
      BY <3>1 DEF NodeFacts
    <3> QED BY <3>2
  <2>2. ASSUME NEW n \in Nat, n \in S PROVE n + 1 \in S
    <3> SUFFICES ASSUME NEW p \in nodes[n + 1] PROVE NodeFacts(arity, norm, nodes, n + 1, p)
      OBVIOUS
    <3>1. CASE p \in nodes[n]
      BY <2>2, <3>1 DEF NodeFacts
    <3>2. CASE p \in KeptNodes(arity, norm, n, nodes[n])
      <4>1. p.var = n
        BY <3>2 DEF KeptNodes, NodesOver
      <4>2. p # Null
        BY <4>1 DEF Null
      <4> QED BY <3>2, <4>1, <4>2 DEF NodeFacts
    <3> QED BY <3>1, <3>2
  <2> HIDE DEF S
  <2>3. Nat \subseteq S
    BY <2>1, <2>2, SetInduction
  <2> QED BY <2>3 DEF S
<1> QED BY <1>1, <1>2, <1>3

\* An edge has a node and a weight, and no node if the weight is 0.
LEMMA EdgeFields ==
    ASSUME NEW nodes, NEW edge
    PROVE  edge \in EdgesTo(nodes) <=>
              /\ edge = [p |-> edge.p, w |-> edge.w] /\ edge.p \in nodes /\ edge.w \in Weight
              /\ edge.w = Zero => edge.p = Null
BY WeightLaws DEF EdgesTo

\* A sequence that is listed is the same sequence.
LEMMA ListedSame ==
    ASSUME NEW S, NEW k \in Nat, NEW f \in [1..k -> S]
    PROVE  Listed(f) = f
<1>1. f \in Seq(S) /\ Len(f) = k
  OBVIOUS
<1>2. <<>> \o f = f
  BY <1>1
<1> QED BY <1>2 DEF Listed

\* The terminals.
LEMMA TerminalEdges ==
    ASSUME NEW arity, NEW norm, NEW nodes, Family(arity, norm, nodes), NEW n \in Nat
    PROVE  /\ \A w \in Weight : terminal(w) \in EdgesTo(nodes[n])
           /\ zero \in EdgesTo(nodes[n]) /\ identity \in EdgesTo(nodes[n])
<1>1. Null \in nodes[n]
  BY FamilyFacts
<1>2. \A w \in Weight : terminal(w) \in EdgesTo(nodes[n])
  BY <1>1, EdgeFields DEF terminal
<1> QED BY <1>2, WeightLaws DEF zero, identity, NonZero

\* An edge of a level is one of every higher level.
LEMMA HigherEdges ==
    ASSUME NEW arity, NEW norm, NEW nodes, Family(arity, norm, nodes),
           NEW n \in Nat, NEW k \in Nat, n <= k
    PROVE  EdgesTo(nodes[n]) \subseteq EdgesTo(nodes[k])
<1>1. nodes[n] \subseteq nodes[k]
  BY FamilyFacts
<1> QED BY <1>1 DEF EdgesTo

\* Rescaling keeps an edge on its level, unless the weight becomes 0.
LEMMA RescaledEdges ==
    ASSUME NEW arity, NEW norm, NEW nodes, Family(arity, norm, nodes), NEW n \in Nat,
           NEW c \in NonZero, NEW edge \in EdgesTo(nodes[n])
    PROVE  /\ Rescaled(c, edge) \in EdgesTo(nodes[n])
           /\ edge = zero <=> Rescaled(c, edge) = zero
           /\ edge.w = Zero <=> edge = zero
           /\ edge.w = Zero <=> Rescaled(c, edge).w = Zero
<1>1. edge = [p |-> edge.p, w |-> edge.w] /\ edge.p \in nodes[n] /\ edge.w \in Weight
      /\ (edge.w = Zero => edge.p = Null)
  BY EdgeFields
<1>2. zero = [p |-> Null, w |-> Zero]
  BY DEF zero, terminal
<1>3. edge.w = Zero <=> edge = zero
  BY <1>1, <1>2
<1>4. Rescaled(c, edge) = [p |-> edge.p, w |-> Multiply(c, edge.w)]
  BY DEF Rescaled
<1>5. Multiply(c, edge.w) \in Weight /\ (Multiply(c, edge.w) = Zero <=> edge.w = Zero)
  <2>1. c \in Weight
    BY DEF NonZero
  <2>2. edge.w # Zero => Multiply(c, edge.w) # Zero
    BY <1>1, NonZeroLaws DEF NonZero
  <2> QED BY <1>1, <2>1, <2>2, WeightLaws
<1>6. Rescaled(c, edge) \in EdgesTo(nodes[n])
  BY <1>1, <1>4, <1>5, EdgeFields
<1>7. Rescaled(c, edge).p = edge.p /\ Rescaled(c, edge).w = Multiply(c, edge.w)
  BY <1>4
<1>8. Rescaled(c, edge) = zero => Multiply(c, edge.w) = Zero
  BY <1>2, <1>7
<1>9. edge = zero => Rescaled(c, edge) = zero
  BY <1>2, <1>3, <1>4, <1>5
<1> QED BY <1>3, <1>5, <1>6, <1>7, <1>8, <1>9

\* Different edges stay different.
LEMMA RescaledInjective ==
    ASSUME NEW nodes, NEW c \in NonZero, NEW d \in EdgesTo(nodes), NEW edge \in EdgesTo(nodes),
           Rescaled(c, d) = Rescaled(c, edge)
    PROVE  d = edge
<1>1. /\ d = [p |-> d.p, w |-> d.w] /\ d.w \in Weight
      /\ edge = [p |-> edge.p, w |-> edge.w] /\ edge.w \in Weight
  BY EdgeFields
<1>2. d.p = edge.p /\ Multiply(c, d.w) = Multiply(c, edge.w)
  BY DEF Rescaled
<1>3. d.w = edge.w
  BY <1>1, <1>2, NonZeroLaws
<1> QED BY <1>1, <1>2, <1>3

\* The children of a node at a variable that is its own or that it skips.
LEMMA ChildrenEdges ==
    ASSUME NEW arity, NEW norm, NEW nodes, Family(arity, norm, nodes),
           NEW n \in Nat, NEW k \in Nat, NEW p \in nodes[k], p.var <= n
    PROVE  /\ childrenAt(arity, p, n) \in [1..arity -> EdgesTo(nodes[n])]
           /\ arity = V => childrenAt(arity, p, n) = vChildrenAt(p, n)
           /\ arity = M => childrenAt(arity, p, n) = mChildrenAt(p, n)
<1>1. arity \in {V, M} /\ V # M
  BY DEF Family, V, M
<1>2. NodeFacts(arity, norm, nodes, k, p)
  BY FamilyFacts
<1>3. arity = V => childrenAt(arity, p, n) = vChildrenAt(p, n)
  BY DEF childrenAt
<1>4. arity = M => childrenAt(arity, p, n) = mChildrenAt(p, n)
  BY <1>1 DEF childrenAt
<1>5. p.var = n => p.e \in [1..arity -> EdgesTo(nodes[n])]
  BY <1>2 DEF NodeFacts, KeptNodes, NodesOver
<1>6. p.var # n => Bare(p) \in EdgesTo(nodes[n])
  <2> SUFFICES ASSUME p.var # n PROVE Bare(p) \in EdgesTo(nodes[n])
    OBVIOUS
  <2>1. p.var + 1 \in Nat /\ p.var + 1 <= n /\ p \in nodes[p.var + 1]
    BY <1>2 DEF NodeFacts
  <2>2. p \in nodes[n]
    BY <2>1, FamilyFacts
  <2> QED BY <2>2, WeightLaws, EdgeFields DEF Bare, NonZero
<1>7. zero \in EdgesTo(nodes[n])
  BY TerminalEdges
<1>8. CASE arity = V
  <2>1. p.var # n => <<Bare(p), Bare(p)>> \in [1..V -> EdgesTo(nodes[n])]
    BY <1>6 DEF V
  <2> QED BY <1>3, <1>4, <1>5, <1>8, <2>1, <1>1 DEF vChildrenAt
<1>9. CASE arity = M
  <2>1. p.var # n => <<Bare(p), zero, zero, Bare(p)>> \in [1..M -> EdgesTo(nodes[n])]
    BY <1>6, <1>7 DEF M
  <2> QED BY <1>3, <1>4, <1>5, <1>9, <2>1, <1>1 DEF mChildrenAt
<1> QED BY <1>1, <1>8, <1>9

\* The first weight other than 0.
LEMMA LeftmostFacts ==
    ASSUME NEW S, NEW k \in Nat, NEW es \in [1..k -> S], \A e \in S : isZero(e.w) \in BOOLEAN,
           NEW i \in 1..k, ~isZero(es[i].w)
    PROVE  /\ Leftmost(es) \in 1..k /\ ~isZero(es[Leftmost(es)].w)
           /\ \A j \in 1..Leftmost(es) - 1 : isZero(es[j].w)
<1> DEFINE N == {n \in 1..k : ~isZero(es[n].w)}
<1>1. N \in SUBSET Nat /\ N # {}
  OBVIOUS
<1> HIDE DEF N
<1>2. PICK n \in N : \A j \in N : n <= j
  BY <1>1, LeastElement
<1>3. DOMAIN es = 1..k
  OBVIOUS
<1>4. n \in DOMAIN es /\ ~isZero(es[n].w) /\ \A j \in 1..n - 1 : isZero(es[j].w)
  <2>1. n \in 1..k /\ ~isZero(es[n].w)
    BY DEF N
  <2>2. \A j \in 1..n - 1 : j \in 1..k /\ ~(n <= j)
    BY <2>1
  <2>3. \A j \in 1..n - 1 : j \notin N
    BY <1>2, <2>2
  <2>4. \A j \in 1..n - 1 : isZero(es[j].w)
    BY <2>2, <2>3 DEF N
  <2> QED BY <1>3, <2>1, <2>4
<1>5. /\ Leftmost(es) \in DOMAIN es /\ ~isZero(es[Leftmost(es)].w)
      /\ \A j \in 1..Leftmost(es) - 1 : isZero(es[j].w)
  BY <1>4 DEF Leftmost
<1> QED BY <1>3, <1>5

\* It is where the same weights are 0.
LEMMA LeftmostSame ==
    ASSUME NEW es, NEW fs, DOMAIN es = DOMAIN fs, NEW k \in Nat, DOMAIN es = 1..k,
           \A i \in 1..k : isZero(es[i].w) <=> isZero(fs[i].w)
    PROVE  Leftmost(es) = Leftmost(fs)
<1> DEFINE Is(gs, i) == ~isZero(gs[i].w) /\ \A j \in 1..i - 1 : isZero(gs[j].w)
<1>1. \A i \in 1..k : Is(es, i) <=> Is(fs, i)
  <2> TAKE i \in 1..k
  <2>1. \A j \in 1..i - 1 : j \in 1..k
    OBVIOUS
  <2> QED BY <2>1
<1> HIDE DEF Is
<1>2. (CHOOSE i \in 1..k : Is(es, i)) = (CHOOSE i \in 1..k : Is(fs, i))
  BY <1>1
<1>3. Leftmost(es) = CHOOSE i \in 1..k : Is(es, i)
  BY DEF Leftmost, Is
<1>4. Leftmost(fs) = CHOOSE i \in 1..k : Is(fs, i)
  BY DEF Leftmost, Is
<1> QED BY <1>2, <1>3, <1>4

\* The gcd of weights that are not all 0 is not 0.
LEMMA GcdOfManyNonZero ==
    ASSUME NEW k \in Nat, NEW es, DOMAIN es = 1..k, Len(es) = k,
           \A i \in 1..k : es[i].w \in Weight,
           NEW first \in 1..k, first = Leftmost(es), es[first].w # Zero
    PROVE  gcdOfMany(es) \in NonZero
<1> DEFINE D == first..k
           mu == [i \in D |-> i - first]
           Good == [i \in D |-> NonZero]
           G == Selections(D, Good)
           comb == [ig \in D \X G |-> gcdStep(es, ig[2], ig[1])]
<1>1. mu \in [D -> Nat]
  OBVIOUS
<1>2. \A i \in D : Good[i] = NonZero
  OBVIOUS
<1>3. \A i \in D : i # first => i - 1 \in D /\ mu[i - 1] < mu[i]
  OBVIOUS
<1>4. k \in D /\ D \subseteq 1..k
  OBVIOUS
<1>5. \A g \in G : \A i \in D : comb[<<i, g>>] = gcdStep(es, g, i)
  <2> HIDE DEF D, Good, G
  <2> QED OBVIOUS
<1>6. \A g \in G : g = [i \in D |-> g[i]] /\ \A i \in D : g[i] \in NonZero
  <2> HIDE DEF D, Good
  <2> QED BY <1>2 DEF Selections
<1>7. ASSUME NEW i \in D, NEW g, i # first => g[i - 1] \in NonZero
      PROVE  gcdStep(es, g, i) \in NonZero
  <2>1. es[i].w \in Weight
    BY <1>4
  <2>2. i = first => es[i].w \in NonZero
    BY <2>1 DEF NonZero
  <2>3. i # first => gcd[<<g[i - 1], es[i].w>>] \in NonZero
    <3> SUFFICES ASSUME i # first PROVE gcd[<<g[i - 1], es[i].w>>] \in NonZero
      OBVIOUS
    <3> DEFINE d == g[i - 1]
               w == es[i].w
    <3>1. d \in Weight /\ d # Zero /\ w \in Weight
      BY <1>7, <2>1 DEF NonZero
    <3> HIDE DEF d, w
    <3>2. <<d, w>> \in Weight \X Weight /\ <<d, w>> # <<Zero, Zero>>
      BY <3>1
    <3>3. gcd[<<d, w>>] \in Weight \ {Zero}
      BY <3>2, GcdRecursion
    <3> QED BY <3>3 DEF d, w, NonZero
  <2> QED BY <1>7, <2>2, <2>3 DEF gcdStep
<1>8. ASSUME NEW i \in D, NEW g, NEW h, i # first => g[i - 1] = h[i - 1]
      PROVE  gcdStep(es, g, i) = gcdStep(es, h, i)
  BY <1>8 DEF gcdStep
<1> HIDE DEF D, mu, Good, G, comb
<1>9. WellFounded(D, mu, Good, comb)
  <2>1. \A i \in D : Good[i] # {}
    BY <1>2, UnitsAreNonZero
  <2>2. ASSUME NEW i \in D, NEW g \in G PROVE comb[<<i, g>>] \in Good[i]
    <3>1. i # first => g[i - 1] \in NonZero
      BY <1>3, <1>6
    <3> QED BY <1>2, <1>5, <1>7, <3>1
  <2>3. ASSUME NEW i \in D, NEW g \in G, NEW h \in G, \A j \in D : mu[j] < mu[i] => g[j] = h[j]
        PROVE  comb[<<i, g>>] = comb[<<i, h>>]
    <3>1. i # first => g[i - 1] = h[i - 1]
      BY <1>3, <2>3
    <3>2. gcdStep(es, g, i) = gcdStep(es, h, i)
      BY <1>8, <3>1
    <3>3. comb[<<i, g>>] = gcdStep(es, g, i) /\ comb[<<i, h>>] = gcdStep(es, h, i)
      BY <1>5
    <3> QED BY <3>2, <3>3
  <2> QED BY <1>1, <2>1, <2>2, <2>3 DEF WellFounded, G
<1>10. PICK f \in G : \A i \in D : f[i] = comb[<<i, f>>]
  BY <1>9, RecursionExists DEF G
<1>11. f = [i \in D |-> gcdStep(es, f, i)]
  BY <1>5, <1>6, <1>10
<1> DEFINE upTo == CHOOSE g : g = [i \in D |-> gcdStep(es, g, i)]
<1>12. upTo = [i \in D |-> gcdStep(es, upTo, i)]
  BY <1>11
<1>13. gcdOfMany(es) = upTo[k]
  BY DEF gcdOfMany, D
<1> HIDE DEF upTo
<1>14. \A i \in D : upTo[i] = gcdStep(es, upTo, i)
  BY <1>12
<1> DEFINE S == {i \in D : upTo[i] \in NonZero}
<1>15. ASSUME NEW i \in D, \A j \in D : mu[j] < mu[i] => j \in S PROVE i \in S
  <2>1. i # first => upTo[i - 1] \in NonZero
    BY <1>3, <1>15
  <2> QED BY <1>7, <1>14, <2>1
<1>16. D \subseteq S
  <2> HIDE DEF S
  <2> QED BY <1>1, <1>15, MeasureInduction
<1> QED BY <1>4, <1>13, <1>16

\* The normalization strategies.
Strategies == {"None", "Inverse", "Gcd"}

\* The strategies under which the nodes of a family are made.
Makes(norm) == norm = "Any" \/ norm = strategy

\* The factor that is moved to the edge is not 0.
LEMMA FactorNonZero ==
    ASSUME strategy \in Strategies, NEW k \in Nat, NEW nodes, NEW es \in [1..k -> EdgesTo(nodes)],
           NEW i \in 1..k, es[i].w # Zero
    PROVE  /\ Factor(es) \in NonZero
           /\ Leftmost(es) \in 1..k /\ es[Leftmost(es)].w \in NonZero
           /\ strategy = "Inverse" => Factor(es) = es[Leftmost(es)].w
<1>1. \A j \in 1..k : es[j].w \in Weight /\ (isZero(es[j].w) <=> es[j].w = Zero)
  BY EdgeFields, WeightLaws
<1>2. \A e \in EdgesTo(nodes) : isZero(e.w) \in BOOLEAN
  BY DEF isZero
<1>3. Leftmost(es) \in 1..k /\ ~isZero(es[Leftmost(es)].w)
  <2>1. ~isZero(es[i].w)
    BY <1>1
  <2> QED BY <1>2, <2>1, LeftmostFacts
<1>4. es[Leftmost(es)].w \in NonZero
  BY <1>1, <1>3 DEF NonZero
<1>5. DOMAIN es = 1..k /\ Len(es) = k
  OBVIOUS
<1>6. gcdOfMany(es) \in NonZero
  <2>1. es[Leftmost(es)].w # Zero
    BY <1>4 DEF NonZero
  <2> QED BY <1>1, <1>3, <1>5, <2>1, GcdOfManyNonZero
<1>7. reduceAssociate(gcdOfMany(es)) \in NonZero
  BY <1>6, AssociateNonZero
<1>8. strategy = "None" => Factor(es) = One
  BY DEF Factor
<1>9. strategy = "Inverse" => Factor(es) = es[Leftmost(es)].w
  BY DEF Factor
<1>10. strategy = "Gcd" => Factor(es) = reduceAssociate(gcdOfMany(es))
  BY DEF Factor
<1>11. One \in NonZero
  BY WeightLaws
<1> QED BY <1>3, <1>4, <1>7, <1>8, <1>9, <1>10, <1>11 DEF Strategies

\* The edges of a node, rescaled by the same factor, which is not 0.
LEMMA RescaledAllEdges ==
    ASSUME NEW arity, NEW norm, NEW nodes, Family(arity, norm, nodes), NEW n \in Nat,
           NEW es \in [1..arity -> EdgesTo(nodes[n])], NEW c \in NonZero
    PROVE  /\ RescaledAll(c, es) \in [1..arity -> EdgesTo(nodes[n])]
           /\ \A i \in 1..arity : RescaledAll(c, es)[i] = Rescaled(c, es[i])
           /\ Leftmost(RescaledAll(c, es)) = Leftmost(es)
           /\ Redundant(arity, RescaledAll(c, es)) <=> Redundant(arity, es)
<1> DEFINE fs == [i \in 1..arity |-> Rescaled(c, es[i])]
<1>1. arity \in Nat /\ arity \in {V, M} /\ V # M /\ V = 2 /\ M = 4
  BY DEF Family, V, M
<1>2. DOMAIN es = 1..arity
  OBVIOUS
<1>3. fs \in [1..arity -> EdgesTo(nodes[n])]
  BY RescaledEdges
<1>4. \A i \in 1..arity : fs[i] = Rescaled(c, es[i])
  OBVIOUS
<1>5. RescaledAll(c, es) = fs
  <2>1. RescaledAll(c, es) = Listed(fs)
    BY <1>2 DEF RescaledAll
  <2> HIDE DEF fs
  <2>2. Listed(fs) = fs
    BY <1>1, <1>3, ListedSame
  <2> QED BY <2>1, <2>2
<1> HIDE DEF fs
<1>6. \A i \in 1..arity : isZero(es[i].w) <=> isZero(fs[i].w)
  <2> TAKE i \in 1..arity
  <2>1. es[i] \in EdgesTo(nodes[n]) /\ fs[i] \in EdgesTo(nodes[n])
    BY <1>3
  <2>2. es[i].w \in Weight /\ fs[i].w \in Weight
    BY <2>1, EdgeFields
  <2>3. es[i].w = Zero <=> fs[i].w = Zero
    BY <1>4, <2>1, RescaledEdges
  <2> QED BY <2>2, <2>3, WeightLaws
<1>7. Leftmost(fs) = Leftmost(es)
  <2>1. DOMAIN fs = 1..arity
    BY <1>3
  <2> QED BY <1>1, <1>2, <1>6, <2>1, LeftmostSame
<1>8. ASSUME NEW i \in 1..arity, NEW j \in 1..arity PROVE fs[i] = fs[j] <=> es[i] = es[j]
  BY <1>4, RescaledInjective
<1>9. ASSUME NEW i \in 1..arity PROVE fs[i] = zero <=> es[i] = zero
  <2>1. es[i] \in EdgesTo(nodes[n])
    OBVIOUS
  <2> QED BY <1>4, <2>1, RescaledEdges
<1>10. Redundant(arity, fs) <=> Redundant(arity, es)
  <2>1. CASE arity = V
    BY <1>1, <1>8, <2>1 DEF Redundant
  <2>2. CASE arity = M
    <3>1. fs[1] = fs[4] <=> es[1] = es[4]
      BY <1>1, <1>8, <2>2
    <3>2. (fs[2] = zero <=> es[2] = zero) /\ (fs[3] = zero <=> es[3] = zero)
      BY <1>1, <1>9, <2>2
    <3> QED BY <1>1, <2>2, <3>1, <3>2 DEF Redundant, IdentityLike
  <2> QED BY <1>1, <2>1, <2>2
<1> QED BY <1>3, <1>4, <1>5, <1>7, <1>10

\* If all edges of a node are 0, it is redundant.
LEMMA AllZeroRedundant ==
    ASSUME NEW arity \in {V, M}, NEW nodes, NEW es \in [1..arity -> EdgesTo(nodes)],
           \A i \in 1..arity : es[i].w = Zero
    PROVE  Redundant(arity, es) /\ es[1] = zero
<1>1. V = 2 /\ M = 4
  BY DEF V, M
<1>2. \A i \in 1..arity : es[i] = zero
  BY EdgeFields DEF zero, terminal
<1> QED BY <1>1, <1>2 DEF Redundant, IdentityLike

\* A node that is not redundant, with its factor moved out, is kept.
LEMMA FactoredOutEdges ==
    ASSUME strategy \in Strategies, NEW arity, NEW norm, NEW nodes, Family(arity, norm, nodes),
           Makes(norm), NEW n \in Nat,
           NEW es \in [1..arity -> EdgesTo(nodes[n])], ~Redundant(arity, es)
    PROVE  /\ FactoredOut(n, es, Factor(es)) \in EdgesTo(nodes[n + 1])
           /\ Factor(es) \in NonZero
<1> DEFINE eta == Factor(es)
           fs == RescaledAll(inverse(eta), es)
           p == [var |-> n, e |-> fs]
<1>1. arity \in {V, M} /\ arity \in Nat /\ V = 2 /\ M = 4
  BY DEF Family, V, M
<1>2. PICK i \in 1..arity : es[i].w # Zero
  BY <1>1, AllZeroRedundant
<1>3. /\ eta \in NonZero
      /\ Leftmost(es) \in 1..arity /\ es[Leftmost(es)].w \in NonZero
      /\ strategy = "Inverse" => eta = es[Leftmost(es)].w
  BY <1>1, <1>2, FactorNonZero
<1> HIDE DEF eta
<1>4. inverse(eta) \in NonZero
  BY <1>3, NonZeroLaws
<1>5. /\ fs \in [1..arity -> EdgesTo(nodes[n])]
      /\ \A j \in 1..arity : fs[j] = Rescaled(inverse(eta), es[j])
      /\ Leftmost(fs) = Leftmost(es)
      /\ ~Redundant(arity, fs)
  <2> DEFINE c == inverse(eta)
  <2>1. c \in NonZero
    BY <1>4
  <2> HIDE DEF c
  <2>2. /\ RescaledAll(c, es) \in [1..arity -> EdgesTo(nodes[n])]
        /\ \A j \in 1..arity : RescaledAll(c, es)[j] = Rescaled(c, es[j])
        /\ Leftmost(RescaledAll(c, es)) = Leftmost(es)
        /\ Redundant(arity, RescaledAll(c, es)) <=> Redundant(arity, es)
    BY <2>1, RescaledAllEdges
  <2> QED BY <2>2 DEF c
<1> HIDE DEF fs
<1>6. strategy = "Inverse" => fs[Leftmost(fs)].w = One
  <2>1. fs[Leftmost(fs)].w = Multiply(inverse(eta), es[Leftmost(es)].w)
    BY <1>3, <1>5 DEF Rescaled
  <2> QED BY <1>3, <2>1, NonZeroLaws
<1>7. KeptUnder(arity, norm, p)
  <2>1. arity = V => fs[1] # fs[2]
    BY <1>5 DEF Redundant
  <2>2. arity = M => ~IdentityLike(fs)
    BY <1>5, <1>1 DEF Redundant
  <2>3. norm # "Any" => norm = strategy
    BY DEF Makes
  <2>4. p.e = fs
    OBVIOUS
  <2> HIDE DEF p
  <2>5. norm # "Any" => Kept(arity, p.e, norm)
    BY <1>6, <2>1, <2>2, <2>3, <2>4 DEF Kept
  <2> QED BY <2>5 DEF KeptUnder
<1>8. p \in NodesOver(arity, n, nodes[n])
  BY <1>5 DEF NodesOver
<1>9. p \in nodes[n + 1]
  BY <1>7, <1>8 DEF KeptNodes, Family
<1>10. [p |-> p, w |-> eta] \in EdgesTo(nodes[n + 1])
  <2> HIDE DEF p
  <2> QED BY <1>3, <1>9, EdgeFields DEF NonZero
<1> QED BY <1>3, <1>10 DEF FactoredOut, eta, fs

\* Children that may still have a node below a weight of 0.
Loose(nodes) == [p : nodes, w : Weight]

\* Cutting the node off below a weight of 0 gives an edge of the level.
LEMMA ZeroTerminatedEdges ==
    ASSUME NEW arity, NEW norm, NEW nodes, Family(arity, norm, nodes), NEW n \in Nat
    PROVE  /\ \A e \in Loose(nodes[n]) : ZeroTerminated(e) \in EdgesTo(nodes[n])
           /\ EdgesTo(nodes[n]) \subseteq Loose(nodes[n])
           /\ \A e \in EdgesTo(nodes[n]) : ZeroTerminated(e) = e
<1>1. zero \in EdgesTo(nodes[n])
  BY TerminalEdges
<1>2. \A e \in Loose(nodes[n]) : ZeroTerminated(e) \in EdgesTo(nodes[n])
  BY <1>1 DEF ZeroTerminated, Loose, EdgesTo
<1>3. \A e \in EdgesTo(nodes[n]) : ZeroTerminated(e) = e
  BY EdgeFields, WeightLaws DEF ZeroTerminated, zero, terminal
<1> QED BY <1>2, <1>3 DEF EdgesTo, Loose

\* makeVEdge and makeMEdge return an edge of the next level.
LEMMA MakeEdgeEdges ==
    ASSUME strategy \in Strategies, NEW arity, NEW norm, NEW nodes, Family(arity, norm, nodes),
           Makes(norm), NEW n \in Nat,
           NEW cs, \A i \in 1..arity : cs[i] \in Loose(nodes[n])
    PROVE  makeEdge(arity, n, cs) \in EdgesTo(nodes[n + 1])
<1> DEFINE es == [i \in 1..arity |-> ZeroTerminated(cs[i])]
<1>1. arity \in {V, M} /\ arity \in Nat /\ V = 2 /\ M = 4
  BY DEF Family, V, M
<1>2. es \in [1..arity -> EdgesTo(nodes[n])]
  BY ZeroTerminatedEdges
<1>3. makeEdge(arity, n, cs) = Normalized(arity, n, Listed(es))
  BY DEF makeEdge
<1> HIDE DEF es
<1>4. Listed(es) = es
  BY <1>1, <1>2, ListedSame
<1>5. ~Redundant(arity, es) => FactoredOut(n, es, Factor(es)) \in EdgesTo(nodes[n + 1])
  BY <1>2, FactoredOutEdges
<1>6. es[1] \in EdgesTo(nodes[n + 1])
  <2>1. EdgesTo(nodes[n]) \subseteq EdgesTo(nodes[n + 1])
    BY HigherEdges
  <2> QED BY <1>1, <1>2, <2>1
<1> QED BY <1>3, <1>4, <1>5, <1>6 DEF Normalized

\* Every family is one of diagrams.
LEMMA FamilyInNodes ==
    ASSUME NEW arity, NEW norm, NEW nodes, Family(arity, norm, nodes)
    PROVE  \A n \in Nat : /\ nodes[n] \subseteq Nodes(arity, 0)[n]
                          /\ EdgesTo(nodes[n]) \subseteq EdgesTo(Nodes(arity, 0)[n])
<1> DEFINE all == Nodes(arity, 0)
           S == {n \in Nat : nodes[n] \subseteq all[n]}
<1>1. Family(arity, "Any", all)
  <2>1. arity \in {V, M}
    BY DEF Family
  <2> QED BY <2>1, Families
<1> HIDE DEF all
<1>2. 0 \in S
  BY <1>1 DEF Family
<1>3. ASSUME NEW n \in Nat, n \in S PROVE n + 1 \in S
  <2>1. nodes[n + 1] = nodes[n] \cup KeptNodes(arity, norm, n, nodes[n])
    BY DEF Family
  <2>2. all[n + 1] = all[n] \cup KeptNodes(arity, "Any", n, all[n])
    BY <1>1 DEF Family
  <2>3. EdgesTo(nodes[n]) \subseteq EdgesTo(all[n])
    BY <1>3 DEF EdgesTo
  <2>4. KeptNodes(arity, norm, n, nodes[n]) \subseteq KeptNodes(arity, "Any", n, all[n])
    BY <2>3 DEF KeptNodes, KeptUnder, NodesOver
  <2> QED BY <1>3, <2>1, <2>2, <2>4
<1>4. Nat \subseteq S
  <2> HIDE DEF S
  <2> QED BY <1>2, <1>3, SetInduction
<1> QED BY <1>4 DEF EdgesTo, all

\* The level of an edge, and of a pair of edges.
Height(e) == e.p.var + 1
Top(d, e) == HigherVar(d.p, e.p) + 1

\* An edge is one of its own level.
LEMMA HeightFacts ==
    ASSUME NEW arity, NEW norm, NEW nodes, Family(arity, norm, nodes), NEW n \in Nat,
           NEW e \in EdgesTo(nodes[n])
    PROVE  /\ Height(e) \in Nat /\ Height(e) <= n /\ e \in EdgesTo(nodes[Height(e)])
           /\ e.p.var \in Int /\ e.p.var = Height(e) - 1
           /\ Height(e) = 0 <=> e.p = Null
<1>1. e = [p |-> e.p, w |-> e.w] /\ e.p \in nodes[n] /\ e.w \in Weight /\ (e.w = Zero => e.p = Null)
  BY EdgeFields
<1>2. NodeFacts(arity, norm, nodes, n, e.p)
  BY <1>1, FamilyFacts
<1>3. e.p.var \in Int /\ -1 <= e.p.var /\ e.p.var < n /\ (e.p.var = -1 <=> e.p = Null)
      /\ e.p \in nodes[e.p.var + 1]
  BY <1>2 DEF NodeFacts
<1>4. e \in EdgesTo(nodes[e.p.var + 1])
  BY <1>1, <1>3, EdgeFields
<1> QED BY <1>3, <1>4 DEF Height

\* Two edges are edges of the level of the higher of their nodes.
LEMMA TopFacts ==
    ASSUME NEW arity, NEW norm, NEW nodes, Family(arity, norm, nodes),
           NEW arity2, NEW norm2, NEW nodes2, Family(arity2, norm2, nodes2), NEW n \in Nat,
           NEW d \in EdgesTo(nodes[n]), NEW e \in EdgesTo(nodes2[n])
    PROVE  /\ Top(d, e) \in Nat /\ Top(d, e) <= n
           /\ d \in EdgesTo(nodes[Top(d, e)]) /\ e \in EdgesTo(nodes2[Top(d, e)])
           /\ HigherVar(d.p, e.p) = Top(d, e) - 1
           /\ d.p.var <= Top(d, e) - 1 /\ e.p.var <= Top(d, e) - 1
           /\ Top(d, e) = 0 <=> d.p = Null /\ e.p = Null
<1>1. /\ Height(d) \in Nat /\ Height(d) <= n /\ d \in EdgesTo(nodes[Height(d)])
      /\ d.p.var \in Int /\ d.p.var = Height(d) - 1
      /\ Height(d) = 0 <=> d.p = Null
  BY HeightFacts
<1>2. /\ Height(e) \in Nat /\ Height(e) <= n /\ e \in EdgesTo(nodes2[Height(e)])
      /\ e.p.var \in Int /\ e.p.var = Height(e) - 1
      /\ Height(e) = 0 <=> e.p = Null
  BY HeightFacts
<1>3. HigherVar(d.p, e.p) = IF d.p.var < e.p.var THEN e.p.var ELSE d.p.var
  BY DEF HigherVar, topVar
<1>4. Top(d, e) = IF Height(d) < Height(e) THEN Height(e) ELSE Height(d)
  BY <1>1, <1>2, <1>3 DEF Top
<1>5. Top(d, e) \in Nat /\ Height(d) <= Top(d, e) /\ Height(e) <= Top(d, e) /\ Top(d, e) <= n
  BY <1>1, <1>2, <1>4
<1>6. d \in EdgesTo(nodes[Top(d, e)])
  BY <1>1, <1>5, HigherEdges
<1>7. e \in EdgesTo(nodes2[Top(d, e)])
  BY <1>2, <1>5, HigherEdges
<1>8. HigherVar(d.p, e.p) = Top(d, e) - 1
  BY <1>1, <1>2, <1>3, <1>4
<1>9. Top(d, e) = 0 <=> d.p = Null /\ e.p = Null
  BY <1>1, <1>2, <1>4
<1> QED BY <1>1, <1>2, <1>5, <1>6, <1>7, <1>8, <1>9

\* The sum or product of weights of terminals.
LEMMA WeightClosure ==
    \A w \in Weight, z \in Weight : Multiply(w, z) \in Weight /\ Add(w, z) \in Weight
BY WeightLaws

\* One call of add: the edges it is called for, and what it returns.
AddCalls(arity, d, e, i) == <<Rescaled(d.w, childrenAt(arity, d.p, HigherVar(d.p, e.p))[i]),
                              Rescaled(e.w, childrenAt(arity, e.p, HigherVar(d.p, e.p))[i])>>
\* add calls itself unless an edge is 0 or both are terminal.
AddRecurs(d, e) == ~isZero(d.w) /\ ~isZero(e.w) /\ ~(d.p = Null /\ e.p = Null)

\* A step of add, in terms of its calls.
LEMMA AddStepAt ==
    ASSUME NEW arity, NEW sum, NEW d, NEW e
    PROVE  addStep(arity, sum, d, e) =
              IF isZero(d.w) THEN e
              ELSE IF isZero(e.w) THEN d
              ELSE IF d.p = Null /\ e.p = Null THEN terminal(Add(d.w, e.w))
              ELSE makeEdge(arity, HigherVar(d.p, e.p), [i \in 1..arity |-> sum[AddCalls(arity, d, e, i)]])
BY DEF addStep, AddCalls

\* add calls itself for edges of the level below.
LEMMA AddCallEdges ==
    ASSUME NEW arity, NEW norm, NEW nodes, Family(arity, norm, nodes), NEW n \in Nat,
           NEW d \in EdgesTo(nodes[n]), NEW e \in EdgesTo(nodes[n]), AddRecurs(d, e), NEW i \in 1..arity
    PROVE  /\ Top(d, e) - 1 \in Nat
           /\ \E c \in EdgesTo(nodes[Top(d, e) - 1]), f \in EdgesTo(nodes[Top(d, e) - 1]) :
                 AddCalls(arity, d, e, i) = <<c, f>>
<1> DEFINE var == HigherVar(d.p, e.p)
           l == Top(d, e)
           c == Rescaled(d.w, childrenAt(arity, d.p, var)[i])
           f == Rescaled(e.w, childrenAt(arity, e.p, var)[i])
<1>1. /\ l \in Nat /\ l <= n /\ d.p.var <= l - 1 /\ e.p.var <= l - 1 /\ var = l - 1
      /\ l = 0 <=> d.p = Null /\ e.p = Null
  BY TopFacts
<1>2. var \in Nat
  BY <1>1 DEF AddRecurs
<1>3. /\ d.p \in nodes[n] /\ e.p \in nodes[n] /\ d.w \in NonZero /\ e.w \in NonZero
  BY EdgeFields, WeightLaws DEF AddRecurs, NonZero
<1> HIDE DEF var, l
<1>4. childrenAt(arity, d.p, var) \in [1..arity -> EdgesTo(nodes[var])]
  BY <1>1, <1>2, <1>3, ChildrenEdges
<1>5. childrenAt(arity, e.p, var) \in [1..arity -> EdgesTo(nodes[var])]
  BY <1>1, <1>2, <1>3, ChildrenEdges
<1>6. c \in EdgesTo(nodes[var]) /\ f \in EdgesTo(nodes[var])
  BY <1>2, <1>3, <1>4, <1>5, RescaledEdges
<1>7. AddCalls(arity, d, e, i) = <<c, f>>
  BY DEF AddCalls, var
<1> HIDE DEF c, f
<1> QED BY <1>1, <1>2, <1>6, <1>7 DEF l

\* A step of add returns an edge of the level, if its calls do.
LEMMA AddStepEdges ==
    ASSUME strategy \in Strategies, NEW arity, NEW norm, NEW nodes, Family(arity, norm, nodes),
           Makes(norm), NEW n \in Nat,
           NEW d \in EdgesTo(nodes[n]), NEW e \in EdgesTo(nodes[n]), NEW sum,
           AddRecurs(d, e) => \A c \in EdgesTo(nodes[Top(d, e) - 1]), f \in EdgesTo(nodes[Top(d, e) - 1]) :
                                  sum[<<c, f>>] \in EdgesTo(nodes[Top(d, e) - 1])
    PROVE  addStep(arity, sum, d, e) \in EdgesTo(nodes[Top(d, e)])
<1> DEFINE l == Top(d, e)
           cs == [i \in 1..arity |-> sum[AddCalls(arity, d, e, i)]]
<1>1. /\ l \in Nat /\ d \in EdgesTo(nodes[l]) /\ e \in EdgesTo(nodes[l])
      /\ HigherVar(d.p, e.p) = l - 1
  BY TopFacts
<1>2. d.w \in Weight /\ e.w \in Weight
  BY EdgeFields
<1>3. terminal(Add(d.w, e.w)) \in EdgesTo(nodes[l])
  BY <1>1, <1>2, WeightClosure, TerminalEdges
<1>4. ASSUME AddRecurs(d, e) PROVE makeEdge(arity, l - 1, cs) \in EdgesTo(nodes[l])
  <2>1. Top(d, e) - 1 \in Nat
    <3>1. 1 \in 1..arity
      BY DEF Family, V, M
    <3> QED BY <1>4, <3>1, AddCallEdges
  <2>2. \A i \in 1..arity : cs[i] \in EdgesTo(nodes[l - 1])
    BY <1>4, AddCallEdges
  <2>3. \A i \in 1..arity : cs[i] \in Loose(nodes[l - 1])
    <3> HIDE DEF cs, l
    <3> QED BY <2>1, <2>2, ZeroTerminatedEdges DEF l
  <2> HIDE DEF cs, l
  <2>4. makeEdge(arity, l - 1, cs) \in EdgesTo(nodes[(l - 1) + 1])
    BY <2>1, <2>3, MakeEdgeEdges DEF l
  <2>5. (l - 1) + 1 = l
    BY <1>1
  <2> QED BY <2>4, <2>5
<1> HIDE DEF l
<1> QED BY <1>1, <1>3, <1>4, AddStepAt DEF AddRecurs, l

\* The recursion of add ends: it has a value for each pair of edges.
LEMMA AddEquation ==
    ASSUME strategy \in Strategies, NEW arity \in {V, M}, NEW d \in Edge(arity), NEW e \in Edge(arity)
    PROVE  addRec(arity)[<<d, e>>] = addStep(arity, addRec(arity), d, e)
<1> DEFINE all == Nodes(arity, 0)
           D == Edge(arity) \X Edge(arity)
           Least(de) == Top(de[1], de[2])
           mu == [de \in D |-> Least(de)]
           Good == [de \in D |-> EdgesTo(all[Least(de)])]
           G == Selections(D, Good)
           comb == [dg \in D \X G |-> addStep(arity, dg[2], dg[1][1], dg[1][2])]
<1>1. Family(arity, "Any", all) /\ NumQubits \in Nat /\ Makes("Any")
  BY Families, QubitsAssumption DEF Makes
<1>2. Edge(arity) = EdgesTo(all[NumQubits])
  BY DEF Edge
<1>3. D = Edge(arity) \X Edge(arity)
  OBVIOUS
<1>4. \A g \in G : \A de \in D : comb[<<de, g>>] = addStep(arity, g, de[1], de[2])
  <2> HIDE DEF D, G
  <2> QED OBVIOUS
<1>5. \A de \in D : mu[de] = Top(de[1], de[2]) /\ Good[de] = EdgesTo(all[mu[de]])
  OBVIOUS
<1>6. mu = [de \in D |-> mu[de]]
  OBVIOUS
<1>7. \A g \in G : g = [de \in D |-> g[de]] /\ \A de \in D : g[de] \in Good[de]
  <2> HIDE DEF D, Good
  <2> QED BY DEF Selections
<1>8. \A g : (\E f \in G : f = g) => g \in G
  OBVIOUS
<1> HIDE DEF all, D, mu, Good, G, comb
<1>9. ASSUME NEW de \in D
      PROVE  /\ de = <<de[1], de[2]>> /\ de[1] \in EdgesTo(all[NumQubits]) /\ de[2] \in EdgesTo(all[NumQubits])
             /\ mu[de] \in Nat /\ mu[de] <= NumQubits
  <2>1. de = <<de[1], de[2]>> /\ de[1] \in EdgesTo(all[NumQubits]) /\ de[2] \in EdgesTo(all[NumQubits])
    BY <1>2, <1>3
  <2>2. Top(de[1], de[2]) \in Nat /\ Top(de[1], de[2]) <= NumQubits
    BY <1>1, <2>1, TopFacts
  <2> QED BY <1>5, <2>1, <2>2
<1>10. mu \in [D -> Nat]
  BY <1>6, <1>9
\* The calls for a pair are for pairs of a lower level.
<1>11. ASSUME NEW de \in D, AddRecurs(de[1], de[2]), NEW k \in Nat, k = mu[de] - 1,
              NEW c \in EdgesTo(all[k]), NEW f \in EdgesTo(all[k])
       PROVE  <<c, f>> \in D /\ mu[<<c, f>>] <= k /\ mu[<<c, f>>] < mu[de]
  <2>1. k <= NumQubits
    BY <1>1, <1>9, <1>11
  <2>2. c \in EdgesTo(all[NumQubits]) /\ f \in EdgesTo(all[NumQubits])
    BY <1>1, <1>11, <2>1, HigherEdges
  <2>3. <<c, f>> \in D
    BY <1>2, <1>3, <2>2
  <2>4. Top(c, f) <= k
    BY <1>1, <1>11, TopFacts
  <2>5. mu[<<c, f>>] = Top(c, f)
    BY <1>5, <2>3
  <2> QED BY <1>9, <1>11, <2>3, <2>4, <2>5
<1>12. ASSUME NEW de \in D, AddRecurs(de[1], de[2]), NEW i \in 1..arity
       PROVE  \E c \in EdgesTo(all[mu[de] - 1]), f \in EdgesTo(all[mu[de] - 1]) :
                 AddCalls(arity, de[1], de[2], i) = <<c, f>> /\ mu[de] - 1 \in Nat
  <2>1. mu[de] = Top(de[1], de[2])
    BY <1>5
  <2> QED BY <1>1, <1>9, <1>12, <2>1, AddCallEdges
<1>13. ASSUME NEW de \in D, NEW g,
              AddRecurs(de[1], de[2]) => \A c \in EdgesTo(all[mu[de] - 1]), f \in EdgesTo(all[mu[de] - 1]) :
                                            g[<<c, f>>] \in EdgesTo(all[mu[de] - 1])
       PROVE  addStep(arity, g, de[1], de[2]) \in EdgesTo(all[mu[de]])
  <2>1. mu[de] = Top(de[1], de[2])
    BY <1>5
  <2> QED BY <1>1, <1>9, <1>13, <2>1, AddStepEdges
<1>14. WellFounded(D, mu, Good, comb)
  <2>1. \A de \in D : Good[de] # {}
    <3> TAKE de \in D
    <3>1. zero \in EdgesTo(all[mu[de]])
      BY <1>1, <1>9, TerminalEdges
    <3> QED BY <1>5, <3>1
  <2>2. ASSUME NEW de \in D, NEW g \in G PROVE comb[<<de, g>>] \in Good[de]
    <3>1. ASSUME AddRecurs(de[1], de[2]), NEW c \in EdgesTo(all[mu[de] - 1]), NEW f \in EdgesTo(all[mu[de] - 1])
          PROVE  g[<<c, f>>] \in EdgesTo(all[mu[de] - 1])
      <4>1. mu[de] - 1 \in Nat
        <5>1. 1 \in 1..arity
          BY DEF V, M
        <5> QED BY <1>12, <3>1, <5>1
      <4>2. <<c, f>> \in D /\ mu[<<c, f>>] <= mu[de] - 1
        BY <1>11, <3>1, <4>1
      <4>3. g[<<c, f>>] \in EdgesTo(all[mu[<<c, f>>]])
        BY <1>5, <1>7, <4>2
      <4>4. mu[<<c, f>>] \in Nat
        BY <1>9, <4>2
      <4>5. EdgesTo(all[mu[<<c, f>>]]) \subseteq EdgesTo(all[mu[de] - 1])
        BY <1>1, <4>1, <4>2, <4>4, HigherEdges
      <4> QED BY <4>3, <4>5
    <3>2. addStep(arity, g, de[1], de[2]) \in EdgesTo(all[mu[de]])
      BY <1>13, <3>1
    <3> QED BY <1>4, <1>5, <3>2
  <2>3. ASSUME NEW de \in D, NEW g \in G, NEW h \in G, \A ce \in D : mu[ce] < mu[de] => g[ce] = h[ce]
        PROVE  comb[<<de, g>>] = comb[<<de, h>>]
    <3>1. ASSUME AddRecurs(de[1], de[2]), NEW i \in 1..arity
          PROVE  g[AddCalls(arity, de[1], de[2], i)] = h[AddCalls(arity, de[1], de[2], i)]
      <4>1. PICK c \in EdgesTo(all[mu[de] - 1]), f \in EdgesTo(all[mu[de] - 1]) :
                 AddCalls(arity, de[1], de[2], i) = <<c, f>> /\ mu[de] - 1 \in Nat
        BY <1>12, <3>1
      <4>2. <<c, f>> \in D /\ mu[<<c, f>>] < mu[de]
        BY <1>11, <3>1, <4>1
      <4> QED BY <2>3, <4>1, <4>2
    <3>2. AddRecurs(de[1], de[2]) => [i \in 1..arity |-> g[AddCalls(arity, de[1], de[2], i)]]
                                       = [i \in 1..arity |-> h[AddCalls(arity, de[1], de[2], i)]]
      BY <3>1
    <3>3. addStep(arity, g, de[1], de[2]) = addStep(arity, h, de[1], de[2])
      BY <3>2, AddStepAt DEF AddRecurs
    <3> QED BY <1>4, <3>3
  <2> QED BY <1>10, <2>1, <2>2, <2>3 DEF WellFounded, G
<1>15. PICK f \in G : \A de \in D : f[de] = comb[<<de, f>>]
  BY <1>14, RecursionExists DEF G
<1>16. f = [de \in D |-> addStep(arity, f, de[1], de[2])]
  BY <1>4, <1>7, <1>15
<1>17. addRec(arity) = [de \in Edge(arity) \X Edge(arity) |-> addStep(arity, addRec(arity), de[1], de[2])]
  BY <1>3, <1>16 DEF addRec
<1> QED BY <1>17

\* The sum of edges of a family is one of it.
LEMMA AddEdges ==
    ASSUME strategy \in Strategies, NEW arity, NEW norm, NEW nodes, Family(arity, norm, nodes), Makes(norm),
           NEW n \in Nat, n <= NumQubits, NEW d \in EdgesTo(nodes[n]), NEW e \in EdgesTo(nodes[n])
    PROVE  addRec(arity)[<<d, e>>] \in EdgesTo(nodes[n])
<1> DEFINE E == EdgesTo(nodes[NumQubits])
           D == E \X E
           mu == [de \in D |-> Top(de[1], de[2])]
           S == {de \in D : addRec(arity)[de] \in EdgesTo(nodes[mu[de]])}
<1>1. NumQubits \in Nat /\ arity \in {V, M} /\ 1 \in 1..arity
  BY QubitsAssumption DEF Family, V, M
<1>2. E \subseteq Edge(arity)
  BY <1>1, FamilyInNodes DEF Edge
<1>3. ASSUME NEW c \in E, NEW f \in E PROVE Top(c, f) \in Nat /\ Top(c, f) <= NumQubits
  BY <1>1, TopFacts
<1>4. mu \in [D -> Nat] /\ \A c \in E, f \in E : <<c, f>> \in D /\ mu[<<c, f>>] = Top(c, f)
  BY <1>3
<1>5. \A de \in D : de[1] \in E /\ de[2] \in E /\ de = <<de[1], de[2]>>
  OBVIOUS
<1> HIDE DEF D, mu
<1>6. ASSUME NEW de \in D, \A ce \in D : mu[ce] < mu[de] => ce \in S PROVE de \in S
  <2>1. PICK b \in E, g \in E : de = <<b, g>>
    BY <1>5
  <2>2. mu[de] = Top(b, g) /\ Top(b, g) \in Nat /\ Top(b, g) <= NumQubits
    BY <1>3, <1>4, <2>1
  <2>3. ASSUME AddRecurs(b, g), NEW c \in EdgesTo(nodes[Top(b, g) - 1]), NEW f \in EdgesTo(nodes[Top(b, g) - 1])
        PROVE  addRec(arity)[<<c, f>>] \in EdgesTo(nodes[Top(b, g) - 1])
    <3> DEFINE k == Top(b, g) - 1
    <3>1. k \in Nat /\ k <= NumQubits
      <4>1. k \in Nat
        BY <1>1, <2>3, AddCallEdges
      <4> QED BY <1>1, <2>2, <4>1
    <3> HIDE DEF k
    <3>2. c \in E /\ f \in E
      BY <1>1, <2>3, <3>1, HigherEdges DEF k
    <3>3. Top(c, f) \in Nat /\ Top(c, f) <= k
      BY <2>3, <3>1, TopFacts DEF k
    <3>4. <<c, f>> \in D /\ mu[<<c, f>>] = Top(c, f) /\ mu[<<c, f>>] < mu[de]
      BY <1>4, <2>2, <3>2, <3>3 DEF k
    <3>5. addRec(arity)[<<c, f>>] \in EdgesTo(nodes[Top(c, f)])
      BY <1>6, <3>4
    <3>6. EdgesTo(nodes[Top(c, f)]) \subseteq EdgesTo(nodes[k])
      BY <3>1, <3>3, HigherEdges
    <3> QED BY <3>5, <3>6 DEF k
  <2>4. addStep(arity, addRec(arity), b, g) \in EdgesTo(nodes[Top(b, g)])
    BY <1>1, <2>3, AddStepEdges
  <2>5. addRec(arity)[<<b, g>>] = addStep(arity, addRec(arity), b, g)
    BY <1>1, <1>2, AddEquation
  <2> QED BY <2>1, <2>2, <2>4, <2>5
<1>7. D \subseteq S
  <2> HIDE DEF S
  <2> QED BY <1>4, <1>6, MeasureInduction
<1>8. d \in E /\ e \in E
  BY <1>1, HigherEdges
<1>9. addRec(arity)[<<d, e>>] \in EdgesTo(nodes[Top(d, e)])
  BY <1>4, <1>7, <1>8
<1>10. Top(d, e) \in Nat /\ Top(d, e) <= n
  BY TopFacts
<1>11. EdgesTo(nodes[Top(d, e)]) \subseteq EdgesTo(nodes[n])
  BY <1>10, HigherEdges
<1> QED BY <1>9, <1>11

\* One call of multiply: the pairs of edges whose products are added in a row
\* and a column, and what it returns.
MultiplyCall(arity, d, e, i, k) ==
    LET var == HigherVar(d.p, e.p)
        cols == arity \div 2
    IN  <<mChildrenAt(d.p, var)[2 * ((i - 1) \div cols) + 1 + k],
          childrenAt(arity, e.p, var)[cols * k + ((i - 1) % cols) + 1]>>

\* multiply calls itself unless an edge is 0 or both are terminal.
MultiplyRecurs(d, e) == ~(isZero(d.w) \/ isZero(e.w)) /\ ~(d.p = Null /\ e.p = Null)

\* The children of a product: sums of two products each.
MultiplyEntries(arity, product, d, e) ==
    [i \in 1..arity |-> addRec(arity)[<<product[MultiplyCall(arity, d, e, i, 0)],
                                        product[MultiplyCall(arity, d, e, i, 1)]>>]]

\* A step of multiply, in terms of its calls.
LEMMA MultiplyStepAt ==
    ASSUME NEW arity \in {V, M}, NEW product, NEW d, NEW e
    PROVE  multiplyStep(arity, product, d, e) =
              IF isZero(d.w) \/ isZero(e.w) THEN zero
              ELSE IF d.p = Null /\ e.p = Null THEN terminal(Multiply(d.w, e.w))
              ELSE Rescaled(Multiply(d.w, e.w),
                            makeEdge(arity, HigherVar(d.p, e.p), MultiplyEntries(arity, product, d, e)))
<1> DEFINE cols == arity \div 2
           xc == mChildrenAt(d.p, HigherVar(d.p, e.p))
           yc == childrenAt(arity, e.p, HigherVar(d.p, e.p))
<1>1. cols \in Nat /\ cols > 0 /\ (arity = V => cols = 1) /\ (arity = M => cols = 2)
  BY DEF V, M
<1>2. ASSUME NEW i \in 1..arity
      PROVE  RowByCol(arity, product, xc, yc, (i - 1) \div cols, (i - 1) % cols)
                = addRec(arity)[<<product[MultiplyCall(arity, d, e, i, 0)],
                                  product[MultiplyCall(arity, d, e, i, 1)]>>]
  <2> DEFINE row == (i - 1) \div cols
             col == (i - 1) % cols
  <2>1. row \in Int /\ col \in Int
    BY <1>1 DEF V, M
  <2>2. \A k : MultiplyCall(arity, d, e, i, k) = <<xc[2 * row + 1 + k], yc[cols * k + col + 1]>>
    BY DEF MultiplyCall
  <2> HIDE DEF row, col, xc, yc
  <2>3. RowByCol(arity, product, xc, yc, row, col)
           = addRec(arity)[<<product[<<xc[2 * row + 1], yc[col + 1]>>],
                             product[<<xc[2 * row + 2], yc[cols + col + 1]>>]>>]
    BY DEF RowByCol
  <2> HIDE DEF cols
  <2>4. /\ 2 * row + 1 + 0 = 2 * row + 1 /\ cols * 0 + col + 1 = col + 1
        /\ 2 * row + 1 + 1 = 2 * row + 2 /\ cols * 1 + col + 1 = cols + col + 1
    BY <1>1, <2>1
  <2> QED BY <2>2, <2>3, <2>4 DEF row, col
<1>3. [i \in 1..arity |-> RowByCol(arity, product, xc, yc, (i - 1) \div cols, (i - 1) % cols)]
         = MultiplyEntries(arity, product, d, e)
  BY <1>2 DEF MultiplyEntries
<1> QED BY <1>3 DEF multiplyStep

\* multiply calls itself for edges of the level below.
LEMMA MultiplyCallEdges ==
    ASSUME NEW norm1, NEW nodes1, Family(M, norm1, nodes1),
           NEW arity, NEW norm, NEW nodes, Family(arity, norm, nodes), NEW n \in Nat,
           NEW d \in EdgesTo(nodes1[n]), NEW e \in EdgesTo(nodes[n]), MultiplyRecurs(d, e),
           NEW i \in 1..arity, NEW k \in {0, 1}
    PROVE  /\ Top(d, e) - 1 \in Nat
           /\ \E c \in EdgesTo(nodes1[Top(d, e) - 1]), f \in EdgesTo(nodes[Top(d, e) - 1]) :
                 MultiplyCall(arity, d, e, i, k) = <<c, f>>
<1> DEFINE var == HigherVar(d.p, e.p)
           l == Top(d, e)
           cols == arity \div 2
           r == 2 * ((i - 1) \div cols) + 1 + k
           s == cols * k + ((i - 1) % cols) + 1
           c == mChildrenAt(d.p, var)[r]
           f == childrenAt(arity, e.p, var)[s]
<1>1. /\ l \in Nat /\ l <= n /\ d.p.var <= l - 1 /\ e.p.var <= l - 1 /\ var = l - 1
      /\ l = 0 <=> d.p = Null /\ e.p = Null
  BY TopFacts
<1>2. var \in Nat
  BY <1>1 DEF MultiplyRecurs
<1>3. d.p \in nodes1[n] /\ e.p \in nodes[n]
  BY EdgeFields
<1>4. r \in 1..M /\ s \in 1..arity
  <2>1. arity \in {V, M}
    BY DEF Family
  <2>2. CASE arity = V
    <3>1. i = 1 \/ i = 2
      BY <2>2 DEF V
    <3>2. cols = 1
      BY <2>2 DEF V
    <3> QED BY <2>2, <3>1, <3>2 DEF V, M
  <2>3. CASE arity = M
    <3>1. i = 1 \/ i = 2 \/ i = 3 \/ i = 4
      BY <2>3 DEF M
    <3>2. cols = 2
      BY <2>3 DEF M
    <3> QED BY <2>3, <3>1, <3>2 DEF V, M
  <2> QED BY <2>1, <2>2, <2>3
<1> HIDE DEF var, l, r, s
<1>5. childrenAt(M, d.p, var) \in [1..M -> EdgesTo(nodes1[var])] /\ childrenAt(M, d.p, var) = mChildrenAt(d.p, var)
  BY <1>1, <1>2, <1>3, ChildrenEdges
<1>6. childrenAt(arity, e.p, var) \in [1..arity -> EdgesTo(nodes[var])]
  BY <1>1, <1>2, <1>3, ChildrenEdges
<1>7. c \in EdgesTo(nodes1[var]) /\ f \in EdgesTo(nodes[var])
  BY <1>4, <1>5, <1>6
<1>8. MultiplyCall(arity, d, e, i, k) = <<c, f>>
  BY DEF MultiplyCall, var, r, s
<1> HIDE DEF c, f
<1> QED BY <1>1, <1>2, <1>7, <1>8 DEF l

\* A step of multiply returns an edge of the level, if its calls do.
LEMMA MultiplyStepEdges ==
    ASSUME strategy \in Strategies, NEW norm1, NEW nodes1, Family(M, norm1, nodes1),
           NEW arity, NEW norm, NEW nodes, Family(arity, norm, nodes),
           Makes(norm), NEW n \in Nat, n <= NumQubits,
           NEW d \in EdgesTo(nodes1[n]), NEW e \in EdgesTo(nodes[n]), NEW product,
           MultiplyRecurs(d, e) => \A c \in EdgesTo(nodes1[Top(d, e) - 1]), f \in EdgesTo(nodes[Top(d, e) - 1]) :
                                       product[<<c, f>>] \in EdgesTo(nodes[Top(d, e) - 1])
    PROVE  multiplyStep(arity, product, d, e) \in EdgesTo(nodes[Top(d, e)])
<1> DEFINE l == Top(d, e)
           scale == Multiply(d.w, e.w)
           cs == MultiplyEntries(arity, product, d, e)
<1>1. /\ l \in Nat /\ l <= n /\ d \in EdgesTo(nodes1[l]) /\ e \in EdgesTo(nodes[l])
      /\ HigherVar(d.p, e.p) = l - 1
  BY TopFacts
<1>2. d.w \in Weight /\ e.w \in Weight
  BY EdgeFields
<1>3. terminal(scale) \in EdgesTo(nodes[l]) /\ zero \in EdgesTo(nodes[l])
  BY <1>1, <1>2, WeightClosure, TerminalEdges
<1>4. ~(isZero(d.w) \/ isZero(e.w)) => scale \in NonZero
  BY <1>2, WeightLaws, NonZeroLaws DEF NonZero
<1>5. ASSUME MultiplyRecurs(d, e) PROVE makeEdge(arity, l - 1, cs) \in EdgesTo(nodes[l])
  <2>1. Top(d, e) - 1 \in Nat
    <3>1. 1 \in 1..arity
      BY DEF Family, V, M
    <3> QED BY <1>5, <3>1, MultiplyCallEdges
  <2>2. ASSUME NEW i \in 1..arity PROVE cs[i] \in EdgesTo(nodes[l - 1])
    <3> DEFINE b == product[MultiplyCall(arity, d, e, i, 0)]
               g == product[MultiplyCall(arity, d, e, i, 1)]
    <3>1. \A k \in {0, 1} : product[MultiplyCall(arity, d, e, i, k)] \in EdgesTo(nodes[l - 1])
      BY <1>5, MultiplyCallEdges
    <3>2. b \in EdgesTo(nodes[l - 1]) /\ g \in EdgesTo(nodes[l - 1])
      BY <3>1
    <3>3. cs[i] = addRec(arity)[<<b, g>>]
      BY DEF MultiplyEntries
    <3>4. l - 1 <= NumQubits
      BY <1>1, <2>1, QubitsAssumption
    <3> HIDE DEF b, g, cs, l
    <3> QED BY <2>1, <3>2, <3>3, <3>4, AddEdges DEF l
  <2>3. \A i \in 1..arity : cs[i] \in Loose(nodes[l - 1])
    <3> HIDE DEF cs, l
    <3> QED BY <2>1, <2>2, ZeroTerminatedEdges DEF l
  <2> HIDE DEF cs, l
  <2>4. makeEdge(arity, l - 1, cs) \in EdgesTo(nodes[(l - 1) + 1])
    BY <2>1, <2>3, MakeEdgeEdges DEF l
  <2>5. (l - 1) + 1 = l
    BY <1>1
  <2> QED BY <2>4, <2>5
<1> HIDE DEF l, scale, cs
<1>6. ASSUME MultiplyRecurs(d, e) PROVE Rescaled(scale, makeEdge(arity, l - 1, cs)) \in EdgesTo(nodes[l])
  BY <1>1, <1>4, <1>5, <1>6, RescaledEdges DEF MultiplyRecurs
<1>7. arity \in {V, M}
  BY DEF Family
<1>8. multiplyStep(arity, product, d, e) =
              IF isZero(d.w) \/ isZero(e.w) THEN zero
              ELSE IF d.p = Null /\ e.p = Null THEN terminal(scale)
              ELSE Rescaled(scale, makeEdge(arity, l - 1, cs))
  BY <1>1, <1>7, MultiplyStepAt DEF scale, cs
<1> QED BY <1>3, <1>6, <1>8 DEF MultiplyRecurs, l

\* The recursion of multiply ends: it has a value for each pair of edges.
LEMMA MultiplyEquation ==
    ASSUME strategy \in Strategies, NEW arity \in {V, M}, NEW d \in Edge(M), NEW e \in Edge(arity)
    PROVE  multiplyRec(arity)[<<d, e>>] = multiplyStep(arity, multiplyRec(arity), d, e)
<1> DEFINE all1 == Nodes(M, 0)
           all == Nodes(arity, 0)
           D == Edge(M) \X Edge(arity)
           Least(de) == Top(de[1], de[2])
           mu == [de \in D |-> Least(de)]
           Good == [de \in D |-> EdgesTo(all[Least(de)])]
           G == Selections(D, Good)
           comb == [dg \in D \X G |-> multiplyStep(arity, dg[2], dg[1][1], dg[1][2])]
<1>1. Family(arity, "Any", all) /\ NumQubits \in Nat /\ Makes("Any")
  BY Families, QubitsAssumption DEF Makes
<1>2. Family(M, "Any", all1)
  BY Families
<1>3. Edge(arity) = EdgesTo(all[NumQubits]) /\ Edge(M) = EdgesTo(all1[NumQubits])
  BY DEF Edge
<1>4. D = Edge(M) \X Edge(arity)
  OBVIOUS
<1>5. \A g \in G : \A de \in D : comb[<<de, g>>] = multiplyStep(arity, g, de[1], de[2])
  <2> HIDE DEF D, G
  <2> QED OBVIOUS
<1>6. \A de \in D : mu[de] = Top(de[1], de[2]) /\ Good[de] = EdgesTo(all[mu[de]])
  OBVIOUS
<1>7. mu = [de \in D |-> mu[de]]
  OBVIOUS
<1>8. \A g \in G : g = [de \in D |-> g[de]] /\ \A de \in D : g[de] \in Good[de]
  <2> HIDE DEF D, Good
  <2> QED BY DEF Selections
<1> HIDE DEF all1, all, D, mu, Good, G, comb
<1>9. ASSUME NEW de \in D
      PROVE  /\ de = <<de[1], de[2]>> /\ de[1] \in EdgesTo(all1[NumQubits]) /\ de[2] \in EdgesTo(all[NumQubits])
             /\ mu[de] \in Nat /\ mu[de] <= NumQubits
  <2>1. de = <<de[1], de[2]>> /\ de[1] \in EdgesTo(all1[NumQubits]) /\ de[2] \in EdgesTo(all[NumQubits])
    BY <1>3, <1>4
  <2>2. Top(de[1], de[2]) \in Nat /\ Top(de[1], de[2]) <= NumQubits
    BY <1>1, <1>2, <2>1, TopFacts
  <2> QED BY <1>6, <2>1, <2>2
<1>10. mu \in [D -> Nat]
  BY <1>7, <1>9
\* The calls for a pair are for pairs of a lower level.
<1>11. ASSUME NEW de \in D, MultiplyRecurs(de[1], de[2]), NEW k \in Nat, k = mu[de] - 1,
              NEW c \in EdgesTo(all1[k]), NEW f \in EdgesTo(all[k])
       PROVE  <<c, f>> \in D /\ mu[<<c, f>>] <= k /\ mu[<<c, f>>] < mu[de]
  <2>1. k <= NumQubits
    BY <1>1, <1>9, <1>11
  <2>2. c \in EdgesTo(all1[NumQubits])
    BY <1>1, <1>2, <1>11, <2>1, HigherEdges
  <2>3. f \in EdgesTo(all[NumQubits])
    BY <1>1, <1>11, <2>1, HigherEdges
  <2>4. <<c, f>> \in D
    BY <1>3, <1>4, <2>2, <2>3
  <2>5. Top(c, f) <= k
    BY <1>1, <1>2, <1>11, TopFacts
  <2>6. mu[<<c, f>>] = Top(c, f)
    BY <1>6, <2>4
  <2> QED BY <1>9, <1>11, <2>4, <2>5, <2>6
<1>12. ASSUME NEW de \in D, MultiplyRecurs(de[1], de[2]), NEW i \in 1..arity, NEW k \in {0, 1}
       PROVE  \E c \in EdgesTo(all1[mu[de] - 1]), f \in EdgesTo(all[mu[de] - 1]) :
                 MultiplyCall(arity, de[1], de[2], i, k) = <<c, f>> /\ mu[de] - 1 \in Nat
  <2>1. mu[de] = Top(de[1], de[2])
    BY <1>6
  <2> QED BY <1>1, <1>2, <1>9, <1>12, <2>1, MultiplyCallEdges
<1>13. ASSUME NEW de \in D, NEW g,
              MultiplyRecurs(de[1], de[2]) =>
                  \A c \in EdgesTo(all1[mu[de] - 1]), f \in EdgesTo(all[mu[de] - 1]) :
                      g[<<c, f>>] \in EdgesTo(all[mu[de] - 1])
       PROVE  multiplyStep(arity, g, de[1], de[2]) \in EdgesTo(all[mu[de]])
  <2>1. mu[de] = Top(de[1], de[2]) /\ NumQubits <= NumQubits
    BY <1>1, <1>6
  <2> QED BY <1>1, <1>2, <1>9, <1>13, <2>1, MultiplyStepEdges
<1>14. WellFounded(D, mu, Good, comb)
  <2>1. \A de \in D : Good[de] # {}
    <3> TAKE de \in D
    <3>1. zero \in EdgesTo(all[mu[de]])
      BY <1>1, <1>9, TerminalEdges
    <3> QED BY <1>6, <3>1
  <2>2. ASSUME NEW de \in D, NEW g \in G PROVE comb[<<de, g>>] \in Good[de]
    <3>1. ASSUME MultiplyRecurs(de[1], de[2]), NEW c \in EdgesTo(all1[mu[de] - 1]), NEW f \in EdgesTo(all[mu[de] - 1])
          PROVE  g[<<c, f>>] \in EdgesTo(all[mu[de] - 1])
      <4>1. mu[de] - 1 \in Nat
        <5>1. 1 \in 1..arity
          BY DEF V, M
        <5> QED BY <1>12, <3>1, <5>1
      <4>2. <<c, f>> \in D /\ mu[<<c, f>>] <= mu[de] - 1
        BY <1>11, <3>1, <4>1
      <4>3. g[<<c, f>>] \in EdgesTo(all[mu[<<c, f>>]])
        BY <1>6, <1>8, <4>2
      <4>4. mu[<<c, f>>] \in Nat
        BY <1>9, <4>2
      <4>5. EdgesTo(all[mu[<<c, f>>]]) \subseteq EdgesTo(all[mu[de] - 1])
        BY <1>1, <4>1, <4>2, <4>4, HigherEdges
      <4> QED BY <4>3, <4>5
    <3>2. multiplyStep(arity, g, de[1], de[2]) \in EdgesTo(all[mu[de]])
      BY <1>13, <3>1
    <3> QED BY <1>5, <1>6, <3>2
  <2>3. ASSUME NEW de \in D, NEW g \in G, NEW h \in G, \A ce \in D : mu[ce] < mu[de] => g[ce] = h[ce]
        PROVE  comb[<<de, g>>] = comb[<<de, h>>]
    <3>1. ASSUME MultiplyRecurs(de[1], de[2]), NEW i \in 1..arity, NEW k \in {0, 1}
          PROVE  g[MultiplyCall(arity, de[1], de[2], i, k)] = h[MultiplyCall(arity, de[1], de[2], i, k)]
      <4>1. PICK c \in EdgesTo(all1[mu[de] - 1]), f \in EdgesTo(all[mu[de] - 1]) :
                 MultiplyCall(arity, de[1], de[2], i, k) = <<c, f>> /\ mu[de] - 1 \in Nat
        BY <1>12, <3>1
      <4>2. <<c, f>> \in D /\ mu[<<c, f>>] < mu[de]
        BY <1>11, <3>1, <4>1
      <4> QED BY <2>3, <4>1, <4>2
    <3>2. ASSUME MultiplyRecurs(de[1], de[2])
          PROVE  MultiplyEntries(arity, g, de[1], de[2]) = MultiplyEntries(arity, h, de[1], de[2])
      BY <3>1, <3>2 DEF MultiplyEntries
    <3>3. multiplyStep(arity, g, de[1], de[2]) = multiplyStep(arity, h, de[1], de[2])
      BY <3>2, MultiplyStepAt DEF MultiplyRecurs
    <3> QED BY <1>5, <3>3
  <2> QED BY <1>10, <2>1, <2>2, <2>3 DEF WellFounded, G
<1>15. PICK f \in G : \A de \in D : f[de] = comb[<<de, f>>]
  BY <1>14, RecursionExists DEF G
<1>16. f = [de \in D |-> multiplyStep(arity, f, de[1], de[2])]
  BY <1>5, <1>8, <1>15
<1>17. multiplyRec(arity) = [de \in Edge(M) \X Edge(arity) |-> multiplyStep(arity, multiplyRec(arity), de[1], de[2])]
  BY <1>4, <1>16 DEF multiplyRec
<1> QED BY <1>17

\* The product of edges of families is one of the second.
LEMMA MultiplyEdges ==
    ASSUME strategy \in Strategies, NEW norm1, NEW nodes1, Family(M, norm1, nodes1),
           NEW arity, NEW norm, NEW nodes, Family(arity, norm, nodes), Makes(norm),
           NEW n \in Nat, n <= NumQubits, NEW d \in EdgesTo(nodes1[n]), NEW e \in EdgesTo(nodes[n])
    PROVE  multiply(arity, d, e) \in EdgesTo(nodes[n])
<1> DEFINE E1 == EdgesTo(nodes1[NumQubits])
           E == EdgesTo(nodes[NumQubits])
           D == E1 \X E
           mu == [de \in D |-> Top(de[1], de[2])]
           S == {de \in D : multiplyRec(arity)[de] \in EdgesTo(nodes[mu[de]])}
<1>1. NumQubits \in Nat /\ arity \in {V, M} /\ 1 \in 1..arity /\ NumQubits <= NumQubits
  BY QubitsAssumption DEF Family, V, M
<1>2. E1 \subseteq Edge(M) /\ E \subseteq Edge(arity)
  BY <1>1, FamilyInNodes DEF Edge
<1>3. ASSUME NEW c \in E1, NEW f \in E PROVE Top(c, f) \in Nat /\ Top(c, f) <= NumQubits
  BY <1>1, TopFacts
<1>4. mu \in [D -> Nat] /\ \A c \in E1, f \in E : <<c, f>> \in D /\ mu[<<c, f>>] = Top(c, f)
  BY <1>3
<1>5. \A de \in D : de[1] \in E1 /\ de[2] \in E /\ de = <<de[1], de[2]>>
  OBVIOUS
<1> HIDE DEF D, mu
<1>6. ASSUME NEW de \in D, \A ce \in D : mu[ce] < mu[de] => ce \in S PROVE de \in S
  <2>1. PICK b \in E1, g \in E : de = <<b, g>>
    BY <1>5
  <2>2. mu[de] = Top(b, g) /\ Top(b, g) \in Nat /\ Top(b, g) <= NumQubits
    BY <1>3, <1>4, <2>1
  <2>3. ASSUME MultiplyRecurs(b, g), NEW c \in EdgesTo(nodes1[Top(b, g) - 1]), NEW f \in EdgesTo(nodes[Top(b, g) - 1])
        PROVE  multiplyRec(arity)[<<c, f>>] \in EdgesTo(nodes[Top(b, g) - 1])
    <3> DEFINE k == Top(b, g) - 1
    <3>1. k \in Nat /\ k <= NumQubits
      <4>1. k \in Nat
        <5>1. 0 \in {0, 1}
          OBVIOUS
        <5> QED BY <1>1, <2>3, <5>1, MultiplyCallEdges
      <4> QED BY <1>1, <2>2, <4>1
    <3> HIDE DEF k
    <3>2. c \in E1
      BY <1>1, <2>3, <3>1, HigherEdges DEF k
    <3>3. f \in E
      BY <1>1, <2>3, <3>1, HigherEdges DEF k
    <3>4. Top(c, f) \in Nat /\ Top(c, f) <= k
      BY <2>3, <3>1, TopFacts DEF k
    <3>5. <<c, f>> \in D /\ mu[<<c, f>>] = Top(c, f) /\ mu[<<c, f>>] < mu[de]
      BY <1>4, <2>2, <3>2, <3>3, <3>4 DEF k
    <3>6. multiplyRec(arity)[<<c, f>>] \in EdgesTo(nodes[Top(c, f)])
      BY <1>6, <3>5
    <3>7. EdgesTo(nodes[Top(c, f)]) \subseteq EdgesTo(nodes[k])
      BY <3>1, <3>4, HigherEdges
    <3> QED BY <3>6, <3>7 DEF k
  <2>4. multiplyStep(arity, multiplyRec(arity), b, g) \in EdgesTo(nodes[Top(b, g)])
    BY <1>1, <2>3, MultiplyStepEdges
  <2>5. multiplyRec(arity)[<<b, g>>] = multiplyStep(arity, multiplyRec(arity), b, g)
    BY <1>1, <1>2, MultiplyEquation
  <2> QED BY <2>1, <2>2, <2>4, <2>5
<1>7. D \subseteq S
  <2> HIDE DEF S
  <2> QED BY <1>4, <1>6, MeasureInduction
<1>8. d \in E1
  BY <1>1, HigherEdges
<1>9. e \in E
  BY <1>1, HigherEdges
<1>10. multiplyRec(arity)[<<d, e>>] \in EdgesTo(nodes[Top(d, e)])
  BY <1>4, <1>7, <1>8, <1>9
<1>11. Top(d, e) \in Nat /\ Top(d, e) <= n
  BY TopFacts
<1>12. EdgesTo(nodes[Top(d, e)]) \subseteq EdgesTo(nodes[n])
  BY <1>11, HigherEdges
<1> QED BY <1>10, <1>12 DEF multiply

\* A node for the qubits from k on is Null or has a variable from k on, and its
\* edges are for them too.
LEMMA NodesFrom ==
    ASSUME NEW arity \in {V, M}, NEW k \in Nat
    PROVE  \A n \in Nat : \A p \in Nodes(arity, k)[n] :
              /\ p = Null => p.var = -1
              /\ p # Null => /\ p.var \in Nat /\ k <= p.var /\ p.var < n
                             /\ p.e \in [1..arity -> EdgesTo(Nodes(arity, k)[p.var])]
<1> DEFINE K == Nodes(arity, k)
           Facts(n, p) == /\ p = Null => p.var = -1
                          /\ p # Null => /\ p.var \in Nat /\ k <= p.var /\ p.var < n
                                         /\ p.e \in [1..arity -> EdgesTo(K[p.var])]
           S == {n \in Nat : \A p \in K[n] : Facts(n, p)}
<1>1. \A n \in Nat : K[n] = Level(arity, k, "Any", K, n)
  BY NodesLevels
<1> HIDE DEF K
<1>2. ASSUME NEW n \in Nat, n <= k PROVE n \in S
  <2>1. K[n] = {Null}
    BY <1>1, <1>2 DEF Level
  <2>2. Null.var = -1
    BY DEF Null
  <2> QED BY <2>1, <2>2
<1>3. 0 \in S
  BY <1>2
<1>4. ASSUME NEW n \in Nat, n \in S PROVE n + 1 \in S
  <2>1. CASE n + 1 <= k
    BY <1>2, <2>1
  <2>2. CASE ~(n + 1 <= k)
    <3>1. n + 1 \in Nat /\ (n + 1) - 1 = n
      OBVIOUS
    <3>2. K[n + 1] = K[n] \cup KeptNodes(arity, "Any", n, K[n])
      <4>1. K[n + 1] = Level(arity, k, "Any", K, n + 1)
        BY <1>1, <3>1
      <4> QED BY <2>2, <3>1, <4>1 DEF Level
    <3>3. ASSUME NEW p \in K[n] PROVE Facts(n + 1, p)
      BY <1>4
    <3>4. ASSUME NEW p \in KeptNodes(arity, "Any", n, K[n]) PROVE Facts(n + 1, p)
      <4>1. p.var = n /\ p.e \in [1..arity -> EdgesTo(K[n])]
        BY DEF KeptNodes, NodesOver
      <4>2. p # Null
        BY <4>1 DEF Null
      <4> QED BY <2>2, <4>1, <4>2
    <3> HIDE DEF Facts
    <3> QED BY <3>1, <3>2, <3>3, <3>4
  <2> QED BY <2>1, <2>2
<1>5. Nat \subseteq S
  <2> HIDE DEF S
  <2> QED BY <1>3, <1>4, SetInduction
<1> QED BY <1>5 DEF K

\* Such a node is one for all qubits.
LEMMA NodesFromAll ==
    ASSUME NEW arity \in {V, M}, NEW k \in Nat
    PROVE  /\ \A n \in Nat : \A j \in Nat : n <= j => Nodes(arity, k)[n] \subseteq Nodes(arity, k)[j]
           /\ \A n \in Nat : Null \in Nodes(arity, k)[n]
<1> DEFINE K == Nodes(arity, k)
<1>1. \A n \in Nat : K[n] = Level(arity, k, "Any", K, n)
  BY NodesLevels
<1> HIDE DEF K
<1>2. ASSUME NEW n \in Nat PROVE K[n] \subseteq K[n + 1] /\ (n = 0 => Null \in K[n])
  <2>1. n + 1 \in Nat /\ (n + 1) - 1 = n
    OBVIOUS
  <2>2. K[n + 1] = Level(arity, k, "Any", K, n + 1) /\ K[n] = Level(arity, k, "Any", K, n)
    BY <1>1, <2>1
  <2>3. n + 1 <= k => n <= k
    OBVIOUS
  <2>4. n = 0 => n <= k
    OBVIOUS
  <2> QED BY <2>1, <2>2, <2>3, <2>4 DEF Level
<1>3. ASSUME NEW n \in Nat PROVE \A j \in Nat : n <= j => K[n] \subseteq K[j]
  <2> DEFINE S == {j \in Nat : n <= j => K[n] \subseteq K[j]}
  <2>1. 0 \in S
    OBVIOUS
  <2>2. ASSUME NEW j \in Nat, j \in S PROVE j + 1 \in S
    <3>1. n <= j + 1 => n <= j \/ n = j + 1
      OBVIOUS
    <3>2. n <= j + 1 => K[n] \subseteq K[j + 1]
      BY <1>2, <2>2, <3>1
    <3> QED BY <3>2
  <2>3. Nat \subseteq S
    <3> HIDE DEF S
    <3> QED BY <2>1, <2>2, SetInduction
  <2> QED BY <2>3
<1>4. \A n \in Nat : Null \in K[n]
  <2>1. 0 \in Nat /\ \A n \in Nat : 0 <= n
    OBVIOUS
  <2> QED BY <1>2, <1>3, <2>1
<1> QED BY <1>3, <1>4 DEF K

\* The level that the node of e has once f is grafted below it.
Grafted(e, k, shift) == IF e.p = Null THEN k ELSE Height(e) + shift

\* kronecker calls itself unless an edge is 0 or the first is terminal.
KroneckerRecurs(e, f) == ~(isZero(e.w) \/ isZero(f.w)) /\ e.p # Null

\* One call of kronecker: f is for the qubits below k, and the variables
\* of e come to lie above it.
LEMMA KroneckerCalls ==
    ASSUME NEW arity \in {V, M}, NEW k \in Nat, NEW shift \in {0, k},
           NEW n \in Nat, NEW e \in EdgesTo(Nodes(arity, k - shift)[n])
    PROVE  /\ k - shift \in Nat
           /\ Height(e) \in Nat /\ Height(e) <= n /\ Grafted(e, k, shift) \in Nat
           /\ e.p # Null =>
                 /\ e.p.var \in Nat /\ e.p.var + shift \in Nat
                 /\ Grafted(e, k, shift) = e.p.var + shift + 1
                 /\ k <= e.p.var + shift
                 /\ \A i \in 1..arity :
                       /\ e.p.e[i] \in EdgesTo(Nodes(arity, k - shift)[n])
                       /\ Height(e.p.e[i]) < Height(e)
                       /\ Grafted(e.p.e[i], k, shift) <= e.p.var + shift
<1> DEFINE K == Nodes(arity, k - shift)
<1>1. k - shift \in Nat /\ shift \in Nat /\ (shift = 0 => k - shift = k)
  OBVIOUS
<1>2. \A d : d \in EdgesTo(K[n]) => d.p \in K[n]
  BY DEF EdgesTo
<1>3. ASSUME NEW j \in Nat, NEW d \in EdgesTo(K[j])
      PROVE  /\ d.p = Null => d.p.var = -1
             /\ d.p # Null => /\ d.p.var \in Nat /\ k - shift <= d.p.var /\ d.p.var < j
                              /\ d.p.e \in [1..arity -> EdgesTo(K[d.p.var])]
  <2>1. d.p \in K[j]
    BY DEF EdgesTo
  <2> QED BY <1>1, <2>1, NodesFrom
<1>4. ASSUME NEW j \in Nat, j <= n PROVE EdgesTo(K[j]) \subseteq EdgesTo(K[n])
  <2>1. K[j] \subseteq K[n]
    BY <1>1, <1>4, NodesFromAll
  <2> QED BY <2>1 DEF EdgesTo
<1> HIDE DEF K
<1>5. e \in EdgesTo(K[n])
  BY DEF K
<1>6. Height(e) \in Nat /\ Height(e) <= n /\ Grafted(e, k, shift) \in Nat
  BY <1>1, <1>3, <1>5 DEF Height, Grafted
<1>7. ASSUME e.p # Null
      PROVE  /\ e.p.var \in Nat /\ e.p.var + shift \in Nat
             /\ Grafted(e, k, shift) = e.p.var + shift + 1
             /\ k <= e.p.var + shift
  BY <1>1, <1>3, <1>5, <1>7 DEF Height, Grafted
<1>8. ASSUME e.p # Null, NEW i \in 1..arity
      PROVE  /\ e.p.e[i] \in EdgesTo(K[n])
             /\ Height(e.p.e[i]) < Height(e)
             /\ Grafted(e.p.e[i], k, shift) <= e.p.var + shift
  <2> DEFINE d == e.p.e[i]
  <2>1. e.p.var \in Nat /\ e.p.var < n /\ d \in EdgesTo(K[e.p.var])
    BY <1>3, <1>5, <1>8
  <2>2. e.p.var <= n
    BY <2>1
  <2> HIDE DEF d
  <2>3. d \in EdgesTo(K[n])
    BY <1>4, <2>1, <2>2
  <2>4. d.p = Null => d.p.var = -1
    BY <1>3, <2>1
  <2>5. d.p # Null => d.p.var \in Nat /\ d.p.var < e.p.var
    BY <1>3, <2>1
  <2>6. Height(d) < Height(e)
    BY <2>1, <2>4, <2>5 DEF Height
  <2>7. Grafted(d, k, shift) <= e.p.var + shift
    BY <1>1, <1>7, <1>8, <2>1, <2>5 DEF Height, Grafted
  <2> QED BY <2>3, <2>6, <2>7 DEF d
<1> QED BY <1>1, <1>6, <1>7, <1>8 DEF K

\* A step of kronecker returns an edge of the grafted level, if its calls do.
LEMMA KroneckerStepEdges ==
    ASSUME strategy \in Strategies, NEW arity, NEW norm, NEW nodes, Family(arity, norm, nodes), Makes(norm),
           NEW k \in Nat, NEW shift \in {0, k}, NEW f \in EdgesTo(nodes[k]), NEW n \in Nat,
           NEW e \in EdgesTo(Nodes(arity, k - shift)[n]), NEW graft,
           KroneckerRecurs(e, f) => \A i \in 1..arity : graft[e.p.e[i]] \in EdgesTo(nodes[Grafted(e.p.e[i], k, shift)])
    PROVE  kroneckerStep(arity, graft, e, f, shift) \in EdgesTo(nodes[Grafted(e, k, shift)])
<1> DEFINE cs == [i \in 1..arity |-> graft[e.p.e[i]]]
           l == e.p.var + shift
           g == Grafted(e, k, shift)
<1>1. arity \in {V, M}
  BY DEF Family
<1>2. e.w \in Weight /\ f.w \in Weight /\ (~isZero(e.w) => e.w \in NonZero)
  BY WeightLaws DEF EdgesTo, NonZero
<1>3. /\ k - shift \in Nat
      /\ Height(e) \in Nat /\ Height(e) <= n /\ g \in Nat
      /\ e.p # Null =>
                 /\ e.p.var \in Nat /\ l \in Nat /\ g = l + 1 /\ k <= l
                 /\ \A i \in 1..arity :
                       /\ e.p.e[i] \in EdgesTo(Nodes(arity, k - shift)[n])
                       /\ Grafted(e.p.e[i], k, shift) <= l
  BY <1>1, KroneckerCalls
<1>4. kroneckerStep(arity, graft, e, f, shift) =
         IF isZero(e.w) \/ isZero(f.w) THEN zero
         ELSE IF e.p = Null THEN Rescaled(e.w, f)
         ELSE Rescaled(e.w, makeEdge(arity, l, cs))
  BY DEF kroneckerStep
<1>5. zero \in EdgesTo(nodes[g])
  BY <1>3, TerminalEdges
<1>6. ASSUME e.p = Null, ~isZero(e.w) PROVE Rescaled(e.w, f) \in EdgesTo(nodes[g])
  <2>1. g = k
    BY <1>6 DEF Grafted
  <2> QED BY <1>2, <1>6, <2>1, RescaledEdges
<1>7. ASSUME KroneckerRecurs(e, f) PROVE Rescaled(e.w, makeEdge(arity, l, cs)) \in EdgesTo(nodes[g])
  <2>1. l \in Nat /\ g = l + 1
    BY <1>3, <1>7 DEF KroneckerRecurs
  <2>2. ASSUME NEW i \in 1..arity PROVE cs[i] \in Loose(nodes[l])
    <3> DEFINE j == Grafted(e.p.e[i], k, shift)
    <3>1. cs[i] \in EdgesTo(nodes[j])
      BY <1>7
    <3>2. j \in Nat /\ j <= l
      <4>1. e.p.e[i] \in EdgesTo(Nodes(arity, k - shift)[n]) /\ j <= l
        BY <1>3, <1>7 DEF KroneckerRecurs
      <4>2. j \in Nat
        BY <1>1, <4>1, KroneckerCalls
      <4> QED BY <4>1, <4>2
    <3> HIDE DEF j, l, cs
    <3>3. cs[i] \in EdgesTo(nodes[l])
      BY <2>1, <3>1, <3>2, HigherEdges
    <3> QED BY <2>1, <3>3, ZeroTerminatedEdges
  <2> HIDE DEF l, cs, g
  <2>3. makeEdge(arity, l, cs) \in EdgesTo(nodes[g])
    BY <2>1, <2>2, MakeEdgeEdges
  <2>4. g \in Nat
    BY <2>1
  <2> QED BY <1>2, <1>7, <2>3, <2>4, RescaledEdges DEF KroneckerRecurs
<1> HIDE DEF l, cs, g
<1> QED BY <1>4, <1>5, <1>6, <1>7 DEF KroneckerRecurs, g

\* The recursion of kronecker ends.
LEMMA KroneckerEquation ==
    ASSUME strategy \in Strategies, NEW arity \in {V, M}, NEW k \in Nat, NEW shift \in {0, k},
           NEW y0 \in EdgesTo(Nodes(arity, 0)[k]), NEW e \in EdgesTo(Nodes(arity, k - shift)[NumQubits])
    PROVE  kroneckerRec(arity, y0, k, shift)[e]
              = kroneckerStep(arity, kroneckerRec(arity, y0, k, shift), e, y0, shift)
<1> DEFINE all == Nodes(arity, 0)
           K == Nodes(arity, k - shift)
           D == EdgesTo(K[NumQubits])
           Least(d) == Height(d)
           mu == [d \in D |-> Least(d)]
           Place(d) == Grafted(d, k, shift)
           Good == [d \in D |-> EdgesTo(all[Place(d)])]
           G == Selections(D, Good)
           comb == [dg \in D \X G |-> kroneckerStep(arity, dg[2], dg[1], y0, shift)]
<1>1. Family(arity, "Any", all) /\ NumQubits \in Nat /\ Makes("Any") /\ y0 \in EdgesTo(all[k])
  BY Families, QubitsAssumption DEF Makes
<1>2. \A g \in G : \A d \in D : comb[<<d, g>>] = kroneckerStep(arity, g, d, y0, shift)
  <2> HIDE DEF D, G
  <2> QED OBVIOUS
<1>3. \A d \in D : mu[d] = Height(d) /\ Good[d] = EdgesTo(all[Grafted(d, k, shift)])
  OBVIOUS
<1>4. mu = [d \in D |-> mu[d]]
  OBVIOUS
<1>5. \A g \in G : g = [d \in D |-> g[d]] /\ \A d \in D : g[d] \in Good[d]
  <2> HIDE DEF D, Good
  <2> QED BY DEF Selections
<1>6. D = EdgesTo(K[NumQubits])
  OBVIOUS
<1> HIDE DEF all, D, mu, Good, G, comb
<1>7. ASSUME NEW d \in D
      PROVE  /\ mu[d] \in Nat /\ Grafted(d, k, shift) \in Nat
             /\ d.p # Null => \A i \in 1..arity : d.p.e[i] \in D /\ mu[d.p.e[i]] < mu[d]
  <2>1. d \in EdgesTo(Nodes(arity, k - shift)[NumQubits])
    BY <1>6
  <2>2. /\ Height(d) \in Nat /\ Grafted(d, k, shift) \in Nat
        /\ d.p # Null => \A i \in 1..arity : /\ d.p.e[i] \in EdgesTo(Nodes(arity, k - shift)[NumQubits])
                                             /\ Height(d.p.e[i]) < Height(d)
    BY <1>1, <2>1, KroneckerCalls
  <2> HIDE DEF K
  <2> QED BY <1>3, <1>6, <2>2 DEF K
<1>8. mu \in [D -> Nat]
  BY <1>4, <1>7
<1>9. ASSUME NEW d \in D, NEW g \in G
      PROVE  kroneckerStep(arity, g, d, y0, shift) \in EdgesTo(all[Grafted(d, k, shift)])
  <2>1. d \in EdgesTo(Nodes(arity, k - shift)[NumQubits])
    BY <1>6
  <2>2. KroneckerRecurs(d, y0) => \A i \in 1..arity : g[d.p.e[i]] \in EdgesTo(all[Grafted(d.p.e[i], k, shift)])
    BY <1>3, <1>5, <1>7 DEF KroneckerRecurs
  <2> QED BY <1>1, <2>1, <2>2, KroneckerStepEdges
<1>10. WellFounded(D, mu, Good, comb)
  <2>1. \A d \in D : Good[d] # {}
    <3> TAKE d \in D
    <3>1. zero \in EdgesTo(all[Grafted(d, k, shift)])
      BY <1>1, <1>7, TerminalEdges
    <3> QED BY <1>3, <3>1
  <2>2. \A d \in D : \A g \in G : comb[<<d, g>>] \in Good[d]
    BY <1>2, <1>3, <1>9
  <2>3. ASSUME NEW d \in D, NEW g \in G, NEW h \in G, \A c \in D : mu[c] < mu[d] => g[c] = h[c]
        PROVE  comb[<<d, g>>] = comb[<<d, h>>]
    <3>1. d.p # Null => [i \in 1..arity |-> g[d.p.e[i]]] = [i \in 1..arity |-> h[d.p.e[i]]]
      BY <1>7, <2>3
    <3>2. kroneckerStep(arity, g, d, y0, shift) = kroneckerStep(arity, h, d, y0, shift)
      BY <3>1 DEF kroneckerStep
    <3> QED BY <1>2, <3>2
  <2> QED BY <1>8, <2>1, <2>2, <2>3 DEF WellFounded, G
<1>11. PICK f \in G : \A d \in D : f[d] = comb[<<d, f>>]
  BY <1>10, RecursionExists DEF G
<1>12. f = [d \in D |-> kroneckerStep(arity, f, d, y0, shift)]
  BY <1>2, <1>5, <1>11
<1>13. D = EdgesTo(Nodes(arity, k - shift)[NumQubits])
  BY <1>6
<1>14. kroneckerRec(arity, y0, k, shift)
          = [d \in D |-> kroneckerStep(arity, kroneckerRec(arity, y0, k, shift), d, y0, shift)]
  BY <1>12, <1>13 DEF kroneckerRec
<1> QED BY <1>13, <1>14

\* The product is an edge of the family of y.
LEMMA KroneckerEdges ==
    ASSUME strategy \in Strategies, NEW arity, NEW norm, NEW nodes, Family(arity, norm, nodes), Makes(norm),
           NEW k \in Nat, NEW shift \in {0, k},
           NEW y0 \in EdgesTo(nodes[k]), NEW e \in EdgesTo(Nodes(arity, k - shift)[NumQubits])
    PROVE  kroneckerRec(arity, y0, k, shift)[e] \in EdgesTo(nodes[Grafted(e, k, shift)])
<1> DEFINE K == Nodes(arity, k - shift)
           D == EdgesTo(K[NumQubits])
           mu == [d \in D |-> Height(d)]
           graft == kroneckerRec(arity, y0, k, shift)
           S == {d \in D : graft[d] \in EdgesTo(nodes[Grafted(d, k, shift)])}
<1>1. arity \in {V, M} /\ NumQubits \in Nat
  BY QubitsAssumption DEF Family
<1>2. y0 \in EdgesTo(Nodes(arity, 0)[k])
  BY FamilyInNodes
<1>3. ASSUME NEW d \in D
      PROVE  /\ Height(d) \in Nat
             /\ d.p # Null => \A i \in 1..arity : d.p.e[i] \in D /\ Height(d.p.e[i]) < Height(d)
  BY <1>1, KroneckerCalls
<1>4. mu \in [D -> Nat] /\ \A d \in D : mu[d] = Height(d)
  BY <1>3
<1>5. ASSUME NEW d \in D, \A c \in D : mu[c] < mu[d] => c \in S PROVE d \in S
  <2>1. KroneckerRecurs(d, y0) => \A i \in 1..arity : graft[d.p.e[i]] \in EdgesTo(nodes[Grafted(d.p.e[i], k, shift)])
    BY <1>3, <1>4, <1>5 DEF KroneckerRecurs
  <2> HIDE DEF graft
  <2>2. kroneckerStep(arity, graft, d, y0, shift) \in EdgesTo(nodes[Grafted(d, k, shift)])
    BY <1>1, <2>1, KroneckerStepEdges
  <2>3. graft[d] = kroneckerStep(arity, graft, d, y0, shift)
    BY <1>1, <1>2, KroneckerEquation DEF graft
  <2> QED BY <2>2, <2>3
<1>6. D \subseteq S
  <2> HIDE DEF S, D, mu
  <2> QED BY <1>4, <1>5, MeasureInduction
<1> QED BY <1>6

\* The children of a node are edges, also at a variable below its own.
LEMMA AnyChildren ==
    ASSUME NEW arity \in {V, M}, NEW e \in Edge(arity), NEW n \in Nat
    PROVE  /\ childrenAt(arity, e.p, n) \in [1..arity -> Edge(arity)]
           /\ arity = V => childrenAt(arity, e.p, n) = vChildrenAt(e.p, n)
           /\ arity = M => childrenAt(arity, e.p, n) = mChildrenAt(e.p, n)
           /\ e.w \in Weight
<1> DEFINE all == Nodes(arity, 0)
<1>1. Family(arity, "Any", all) /\ NumQubits \in Nat /\ V # M
  BY Families, QubitsAssumption DEF V, M
<1>2. Edge(arity) = EdgesTo(all[NumQubits])
  BY DEF Edge
<1> HIDE DEF all
<1>3. e.p \in all[NumQubits] /\ e.w \in Weight
  BY <1>2, EdgeFields
<1>4. NodeFacts(arity, "Any", all, NumQubits, e.p)
  BY <1>1, <1>3, FamilyFacts
<1>5. arity = V => childrenAt(arity, e.p, n) = vChildrenAt(e.p, n)
  BY DEF childrenAt
<1>6. arity = M => childrenAt(arity, e.p, n) = mChildrenAt(e.p, n)
  BY <1>1 DEF childrenAt
<1>7. e.p.var >= 0 => e.p.e \in [1..arity -> EdgesTo(all[e.p.var])]
  BY <1>4 DEF NodeFacts, KeptNodes, NodesOver
<1>8. e.p.var >= 0 => e.p.e \in [1..arity -> Edge(arity)]
  <2> SUFFICES ASSUME e.p.var >= 0 PROVE e.p.e \in [1..arity -> Edge(arity)]
    OBVIOUS
  <2>1. e.p.var \in Nat /\ e.p.var <= NumQubits
    BY <1>1, <1>4 DEF NodeFacts
  <2>2. EdgesTo(all[e.p.var]) \subseteq Edge(arity)
    BY <1>1, <1>2, <2>1, HigherEdges
  <2> QED BY <1>7, <2>2
<1>9. Bare(e.p) \in Edge(arity)
  BY <1>2, <1>3, WeightLaws, EdgeFields DEF Bare, NonZero
<1>10. zero \in Edge(arity)
  BY <1>1, <1>2, TerminalEdges
<1>11. e.p.var = n => childrenAt(arity, e.p, n) \in [1..arity -> Edge(arity)]
  <2>1. e.p.var = n => e.p.var >= 0
    OBVIOUS
  <2>2. arity = V => vChildrenAt(e.p, n) = IF e.p.var = n THEN e.p.e ELSE <<Bare(e.p), Bare(e.p)>>
    BY DEF vChildrenAt
  <2>3. arity = M => mChildrenAt(e.p, n) = IF e.p.var = n THEN e.p.e ELSE <<Bare(e.p), zero, zero, Bare(e.p)>>
    BY DEF mChildrenAt
  <2> QED BY <1>5, <1>6, <1>8, <2>1, <2>2, <2>3
<1>12. ASSUME e.p.var # n PROVE childrenAt(arity, e.p, n) \in [1..arity -> Edge(arity)]
  <2>1. CASE arity = V
    <3>1. <<Bare(e.p), Bare(e.p)>> \in [1..V -> Edge(V)]
      BY <1>9, <2>1 DEF V
    <3> QED BY <1>1, <1>3, <1>5, <1>12, <2>1, <3>1 DEF vChildrenAt
  <2>2. CASE arity = M
    <3>1. <<Bare(e.p), zero, zero, Bare(e.p)>> \in [1..M -> Edge(M)]
      BY <1>9, <1>10, <2>2 DEF M
    <3> QED BY <1>1, <1>3, <1>6, <1>12, <2>2, <3>1 DEF mChildrenAt
  <2> QED BY <2>1, <2>2
<1> QED BY <1>3, <1>5, <1>6, <1>11, <1>12

\* The calls of outerProduct, of amplitude and of matrixEntry go down a level
\* each, also where no edge has a node for it.
OuterCall(d, e, i, l) == <<vChildrenAt(d.p, l - 1)[Row(i) + 1], vChildrenAt(e.p, l - 1)[Col(i) + 1], l - 1>>
OuterEntries(joint, d, e, l) == [i \in 1..M |-> joint[OuterCall(d, e, i, l)]]

\* Row and column of a matrix entry are 0 or 1.
LEMMA RowCol == \A i \in 1..M : /\ Row(i) \in {0, 1} /\ Col(i) \in {0, 1}
                                /\ Row(i) + 1 \in 1..V /\ Col(i) + 1 \in 1..V
<1> SUFFICES ASSUME NEW i \in 1..M
             PROVE  Row(i) \in {0, 1} /\ Col(i) \in {0, 1} /\ Row(i) + 1 \in 1..V /\ Col(i) + 1 \in 1..V
  OBVIOUS
<1>1. i = 1 \/ i = 2 \/ i = 3 \/ i = 4
  BY DEF M
<1> QED BY <1>1 DEF Row, Col, V

\* The outer product of two vectors is an edge of the level, for any function
\* that gives edges of the level below.
LEMMA OuterStepEdges ==
    ASSUME strategy \in Strategies, NEW norm, NEW nodes, Family(M, norm, nodes), Makes(norm),
           NEW d \in Edge(V), NEW e \in Edge(V), NEW l \in Nat, NEW joint,
           l > 0 => \A i \in 1..M : joint[OuterCall(d, e, i, l)] \in EdgesTo(nodes[l - 1])
    PROVE  outerStep(joint, d, e, l) \in EdgesTo(nodes[l])
<1> DEFINE scale == Multiply(d.w, conjugate(e.w))
           cs == OuterEntries(joint, d, e, l)
<1>1. d.w \in Weight /\ e.w \in Weight
  BY DEF Edge, EdgesTo
<1>2. conjugate(e.w) \in Weight /\ (e.w # Zero => conjugate(e.w) # Zero)
  BY <1>1, ConjugateLaws
<1>3. scale \in Weight /\ (~(isZero(d.w) \/ isZero(e.w)) => scale \in NonZero)
  BY <1>1, <1>2, WeightLaws, NonZeroLaws DEF NonZero
<1>4. terminal(scale) \in EdgesTo(nodes[l]) /\ zero \in EdgesTo(nodes[l])
  BY <1>3, TerminalEdges
<1>5. ASSUME l > 0 PROVE makeEdge(M, l - 1, cs) \in EdgesTo(nodes[l])
  <2>1. l - 1 \in Nat /\ (l - 1) + 1 = l
    BY <1>5
  <2>2. \A i \in 1..M : cs[i] \in EdgesTo(nodes[l - 1])
    BY <1>5 DEF OuterEntries
  <2> HIDE DEF cs
  <2>3. \A i \in 1..M : cs[i] \in Loose(nodes[l - 1])
    BY <2>1, <2>2, ZeroTerminatedEdges
  <2>4. makeEdge(M, l - 1, cs) \in EdgesTo(nodes[(l - 1) + 1])
    BY <2>1, <2>3, MakeEdgeEdges
  <2> QED BY <2>1, <2>4
<1>6. outerStep(joint, d, e, l) =
         IF isZero(d.w) \/ isZero(e.w) THEN zero
         ELSE IF l = 0 THEN terminal(scale)
         ELSE Rescaled(scale, makeEdge(M, l - 1, cs))
  BY DEF outerStep, BottomReached, makeMEdge, OuterEntries, OuterCall
<1> HIDE DEF scale, cs
<1>7. ASSUME l > 0, ~(isZero(d.w) \/ isZero(e.w))
      PROVE  Rescaled(scale, makeEdge(M, l - 1, cs)) \in EdgesTo(nodes[l])
  BY <1>3, <1>5, <1>7, RescaledEdges
<1> QED BY <1>4, <1>6, <1>7

\* The recursive function of outerProduct satisfies its equation.
LEMMA OuterEquation ==
    ASSUME strategy \in Strategies, NEW d \in Edge(V), NEW e \in Edge(V), NEW l \in 0..NumQubits
    PROVE  outerProductRec[<<d, e, l>>] = outerStep(outerProductRec, d, e, l)
<1> DEFINE all == Nodes(M, 0)
           D == PairAtLevel
           mu == [de \in D |-> de[3]]
           Good == [de \in D |-> EdgesTo(all[de[3]])]
           G == Selections(D, Good)
           comb == [dg \in D \X G |-> outerStep(dg[2], dg[1][1], dg[1][2], dg[1][3])]
<1>1. Family(M, "Any", all) /\ NumQubits \in Nat /\ Makes("Any")
  BY Families, QubitsAssumption DEF Makes
<1>2. D = Edge(V) \X Edge(V) \X (0..NumQubits)
  BY DEF PairAtLevel
<1>3. \A g \in G : \A de \in D : comb[<<de, g>>] = outerStep(g, de[1], de[2], de[3])
  <2> HIDE DEF D, G
  <2> QED OBVIOUS
<1>4. \A de \in D : mu[de] = de[3] /\ Good[de] = EdgesTo(all[de[3]])
  OBVIOUS
<1>5. mu = [de \in D |-> mu[de]]
  OBVIOUS
<1>6. \A g \in G : g = [de \in D |-> g[de]] /\ \A de \in D : g[de] \in Good[de]
  <2> HIDE DEF D, Good
  <2> QED BY DEF Selections
<1>7. D = PairAtLevel
  OBVIOUS
<1> HIDE DEF all, D, mu, Good, G, comb
<1>8. ASSUME NEW de \in D
      PROVE  /\ de = <<de[1], de[2], de[3]>> /\ de[1] \in Edge(V) /\ de[2] \in Edge(V) /\ de[3] \in 0..NumQubits
             /\ de[3] \in Nat
  BY <1>1, <1>2
<1>9. mu \in [D -> Nat]
  BY <1>4, <1>5, <1>8
<1>10. ASSUME NEW de \in D, de[3] > 0, NEW i \in 1..M
       PROVE  LET c == OuterCall(de[1], de[2], i, de[3]) IN c \in D /\ c[3] = de[3] - 1
  <2> DEFINE k == de[3] - 1
  <2>1. k \in Nat /\ k \in 0..NumQubits
    BY <1>1, <1>8, <1>10
  <2> HIDE DEF k
  <2>2. vChildrenAt(de[1].p, k) \in [1..V -> Edge(V)] /\ vChildrenAt(de[2].p, k) \in [1..V -> Edge(V)]
    BY <1>8, <2>1, AnyChildren
  <2>3. vChildrenAt(de[1].p, k)[Row(i) + 1] \in Edge(V) /\ vChildrenAt(de[2].p, k)[Col(i) + 1] \in Edge(V)
    BY <2>2, RowCol
  <2>4. OuterCall(de[1], de[2], i, de[3])
           = <<vChildrenAt(de[1].p, k)[Row(i) + 1], vChildrenAt(de[2].p, k)[Col(i) + 1], k>>
    BY DEF OuterCall, k
  <2> QED BY <1>2, <2>1, <2>3, <2>4 DEF k
<1>11. ASSUME NEW de \in D, NEW g \in G PROVE outerStep(g, de[1], de[2], de[3]) \in EdgesTo(all[de[3]])
  <2>1. ASSUME de[3] > 0, NEW i \in 1..M
        PROVE  g[OuterCall(de[1], de[2], i, de[3])] \in EdgesTo(all[de[3] - 1])
    BY <1>4, <1>6, <1>10, <2>1
  <2> QED BY <1>1, <1>8, <2>1, OuterStepEdges
<1>12. WellFounded(D, mu, Good, comb)
  <2>1. \A de \in D : Good[de] # {}
    <3> TAKE de \in D
    <3>1. zero \in EdgesTo(all[de[3]])
      BY <1>1, <1>8, TerminalEdges
    <3> QED BY <1>4, <3>1
  <2>2. \A de \in D : \A g \in G : comb[<<de, g>>] \in Good[de]
    BY <1>3, <1>4, <1>11
  <2>3. ASSUME NEW de \in D, NEW g \in G, NEW h \in G, \A c \in D : mu[c] < mu[de] => g[c] = h[c]
        PROVE  comb[<<de, g>>] = comb[<<de, h>>]
    <3>1. de[3] > 0 => \A i \in 1..M : g[OuterCall(de[1], de[2], i, de[3])] = h[OuterCall(de[1], de[2], i, de[3])]
      BY <1>4, <1>8, <1>10, <2>3
    <3>2. de[3] # 0 => OuterEntries(g, de[1], de[2], de[3]) = OuterEntries(h, de[1], de[2], de[3])
      BY <1>8, <3>1 DEF OuterEntries
    <3>3. outerStep(g, de[1], de[2], de[3]) = outerStep(h, de[1], de[2], de[3])
      BY <3>2 DEF outerStep, BottomReached, makeMEdge, OuterEntries, OuterCall
    <3> QED BY <1>3, <3>3
  <2> QED BY <1>9, <2>1, <2>2, <2>3 DEF WellFounded, G
<1>13. PICK f \in G : \A de \in D : f[de] = comb[<<de, f>>]
  BY <1>12, RecursionExists DEF G
<1>14. f = [de \in D |-> outerStep(f, de[1], de[2], de[3])]
  BY <1>3, <1>6, <1>13
<1>15. outerProductRec = [de \in PairAtLevel |-> outerStep(outerProductRec, de[1], de[2], de[3])]
  BY <1>7, <1>14 DEF outerProductRec
<1> QED BY <1>2, <1>7, <1>15

\* The outer product of two vectors is an edge of a level of matrices.
LEMMA OuterEdges ==
    ASSUME strategy \in Strategies, NEW norm, NEW nodes, Family(M, norm, nodes), Makes(norm),
           NEW d \in Edge(V), NEW e \in Edge(V)
    PROVE  outerProduct(d, e) \in EdgesTo(nodes[NumQubits])
<1> DEFINE S == {l \in Nat : l <= NumQubits => \A b \in Edge(V), c \in Edge(V) :
                                outerProductRec[<<b, c, l>>] \in EdgesTo(nodes[l])}
<1>1. NumQubits \in Nat
  BY QubitsAssumption
<1>2. ASSUME NEW l \in Nat, l <= NumQubits, NEW b \in Edge(V), NEW c \in Edge(V), l > 0 => l - 1 \in S
      PROVE  outerProductRec[<<b, c, l>>] \in EdgesTo(nodes[l])
  <2>1. ASSUME l > 0, NEW i \in 1..M PROVE outerProductRec[OuterCall(b, c, i, l)] \in EdgesTo(nodes[l - 1])
    <3> DEFINE k == l - 1
    <3>1. k \in Nat /\ k <= NumQubits /\ k \in S
      BY <1>1, <1>2, <2>1
    <3> HIDE DEF k
    <3>2. \A f \in Edge(V) : vChildrenAt(f.p, k) \in [1..V -> Edge(V)]
      <4>1. k \in Nat /\ V \in {V, M}
        BY <3>1
      <4> SUFFICES ASSUME NEW f \in Edge(V) PROVE vChildrenAt(f.p, k) \in [1..V -> Edge(V)]
        OBVIOUS
      <4> HIDE DEF S
      <4> QED BY <4>1, AnyChildren
    <3>3. vChildrenAt(b.p, k) \in [1..V -> Edge(V)] /\ vChildrenAt(c.p, k) \in [1..V -> Edge(V)]
      BY <3>2
    <3>4. vChildrenAt(b.p, k)[Row(i) + 1] \in Edge(V) /\ vChildrenAt(c.p, k)[Col(i) + 1] \in Edge(V)
      BY <3>3, RowCol
    <3>5. OuterCall(b, c, i, l) = <<vChildrenAt(b.p, k)[Row(i) + 1], vChildrenAt(c.p, k)[Col(i) + 1], k>>
      BY DEF OuterCall, k
    <3> QED BY <3>1, <3>4, <3>5 DEF k
  <2>2. outerStep(outerProductRec, b, c, l) \in EdgesTo(nodes[l])
    BY <1>2, <2>1, OuterStepEdges
  <2>3. l \in 0..NumQubits
    BY <1>1, <1>2
  <2>4. outerProductRec[<<b, c, l>>] = outerStep(outerProductRec, b, c, l)
    BY <2>3, OuterEquation
  <2> QED BY <2>2, <2>4
<1> HIDE DEF S
<1>3. 0 \in S
  <2>1. \A b \in Edge(V), c \in Edge(V) : 0 <= NumQubits => outerProductRec[<<b, c, 0>>] \in EdgesTo(nodes[0])
    BY <1>2
  <2> QED BY <2>1 DEF S
<1>4. ASSUME NEW l \in Nat, l \in S PROVE l + 1 \in S
  <2>1. l + 1 \in Nat /\ (l + 1) - 1 = l
    OBVIOUS
  <2>2. \A b \in Edge(V), c \in Edge(V) : l + 1 <= NumQubits => outerProductRec[<<b, c, l + 1>>] \in EdgesTo(nodes[l + 1])
    BY <1>2, <1>4, <2>1
  <2> QED BY <2>1, <2>2 DEF S
<1>5. Nat \subseteq S
  BY <1>3, <1>4, SetInduction
<1> QED BY <1>1, <1>5 DEF outerProduct, S

\* The halves of a block are blocks.
LEMMA HalfBlocks ==
    ASSUME NEW j \in Nat, NEW l \in Nat \ {0}, (j + 1) * Pow2[l] <= Pow2[NumQubits], NEW b \in {0, 1}
    PROVE  2 * j + b \in Nat /\ (2 * j + b + 1) * Pow2[l - 1] <= Pow2[NumQubits]
<1> DEFINE k == l - 1
           q == Pow2[k]
           total == Pow2[NumQubits]
<1>1. k \in Nat /\ k + 1 = l
  OBVIOUS
<1> HIDE DEF k
<1>2. q \in Nat /\ Pow2[l] = 2 * q /\ total \in Nat
  BY <1>1, Pow2Def, QubitsAssumption
<1> HIDE DEF q, total
<1>3. 2 * j + b + 1 \in Nat /\ 2 * j + b + 1 <= 2 * j + 2
  OBVIOUS
<1>4. (2 * j + b + 1) * q <= (2 * j + 2) * q
  <2> DEFINE c == 2 * j + b + 1
             d == 2 * j + 2
  <2>1. c \in Nat /\ d \in Nat /\ c <= d
    BY <1>3
  <2> HIDE DEF c, d
  <2>2. c * q <= d * q
    BY <1>2, <2>1
  <2> QED BY <2>2 DEF c, d
<1>5. (2 * j + 2) * q = (j + 1) * (2 * q)
  BY <1>2
<1>6. (j + 1) * (2 * q) <= total
  BY <1>2 DEF total
<1> QED BY <1>2, <1>3, <1>4, <1>5, <1>6 DEF k, q, total

\* The vector of amplitudes, as a block of 2^l of them.
LEMMA VectorStepEdges ==
    ASSUME strategy \in Strategies, NEW norm, NEW nodes, Family(V, norm, nodes), Makes(norm),
           NEW amplitudes \in [1..Pow2[NumQubits] -> Weight],
           NEW j \in Nat, NEW l \in Nat, (j + 1) * Pow2[l] <= Pow2[NumQubits], NEW rec,
           l > 0 => /\ rec[<<2 * j, l - 1>>] \in EdgesTo(nodes[l - 1])
                    /\ rec[<<2 * j + 1, l - 1>>] \in EdgesTo(nodes[l - 1])
    PROVE  vectorStep(amplitudes, rec, j, l) \in EdgesTo(nodes[l])
<1>1. Pow2[0] = 1 /\ Pow2[NumQubits] \in Nat
  BY Pow2Def, QubitsAssumption
<1>2. CASE l = 0
  <2>1. j + 1 \in 1..Pow2[NumQubits]
    BY <1>1, <1>2
  <2> QED BY <1>2, <2>1, TerminalEdges DEF vectorStep
<1>3. CASE l > 0
  <2> DEFINE cs == <<rec[<<2 * j, l - 1>>], rec[<<2 * j + 1, l - 1>>]>>
  <2>1. l - 1 \in Nat /\ (l - 1) + 1 = l
    BY <1>3
  <2>2. \A i \in 1..V : cs[i] \in EdgesTo(nodes[l - 1])
    BY <1>3 DEF V
  <2>3. vectorStep(amplitudes, rec, j, l) = makeEdge(V, l - 1, cs)
    BY <1>3 DEF vectorStep, makeVEdge
  <2> HIDE DEF cs
  <2>4. \A i \in 1..V : cs[i] \in Loose(nodes[l - 1])
    BY <2>1, <2>2, ZeroTerminatedEdges
  <2>5. makeEdge(V, l - 1, cs) \in EdgesTo(nodes[(l - 1) + 1])
    BY <2>1, <2>4, MakeEdgeEdges
  <2> QED BY <2>1, <2>3, <2>5
<1> QED BY <1>2, <1>3

\* The recursive function of makeStateFromVector satisfies its equation.
LEMMA VectorEquation ==
    ASSUME strategy \in Strategies, NEW amplitudes \in [1..Pow2[NumQubits] -> Weight],
           NEW j \in Nat, NEW l \in 0..NumQubits, (j + 1) * Pow2[l] <= Pow2[NumQubits]
    PROVE  makeStateFromVectorRec(amplitudes)[<<j, l>>]
              = vectorStep(amplitudes, makeStateFromVectorRec(amplitudes), j, l)
<1> DEFINE all == Nodes(V, 0)
           D == Block
           mu == [b \in D |-> b[2]]
           Good == [b \in D |-> EdgesTo(all[b[2]])]
           G == Selections(D, Good)
           comb == [bg \in D \X G |-> vectorStep(amplitudes, bg[2], bg[1][1], bg[1][2])]
<1>1. Family(V, "Any", all) /\ NumQubits \in Nat /\ Makes("Any")
  BY Families, QubitsAssumption DEF Makes
<1>2. D = {b \in Nat \X (0..NumQubits) : (b[1] + 1) * Pow2[b[2]] <= Pow2[NumQubits]}
  BY DEF Block
<1>3. \A g \in G : \A b \in D : comb[<<b, g>>] = vectorStep(amplitudes, g, b[1], b[2])
  <2> HIDE DEF D, G
  <2> QED OBVIOUS
<1>4. \A b \in D : mu[b] = b[2] /\ Good[b] = EdgesTo(all[b[2]])
  OBVIOUS
<1>5. mu = [b \in D |-> mu[b]]
  OBVIOUS
<1>6. \A g \in G : g = [b \in D |-> g[b]] /\ \A b \in D : g[b] \in Good[b]
  <2> HIDE DEF D, Good
  <2> QED BY DEF Selections
<1>7. D = Block
  OBVIOUS
<1> HIDE DEF all, D, mu, Good, G, comb
<1>8. ASSUME NEW b \in D
      PROVE  /\ b = <<b[1], b[2]>> /\ b[1] \in Nat /\ b[2] \in Nat /\ b[2] \in 0..NumQubits
             /\ (b[1] + 1) * Pow2[b[2]] <= Pow2[NumQubits]
  BY <1>1, <1>2
<1>9. mu \in [D -> Nat]
  BY <1>4, <1>5, <1>8
<1>10. ASSUME NEW b \in D, b[2] > 0, NEW c \in {0, 1}
       PROVE  <<2 * b[1] + c, b[2] - 1>> \in D /\ <<2 * b[1] + c, b[2] - 1>>[2] = b[2] - 1
  <2>1. 2 * b[1] + c \in Nat /\ (2 * b[1] + c + 1) * Pow2[b[2] - 1] <= Pow2[NumQubits]
    <3> DEFINE i == b[1]
               k == b[2]
    <3>1. i \in Nat /\ k \in Nat \ {0} /\ (i + 1) * Pow2[k] <= Pow2[NumQubits]
      BY <1>8, <1>10
    <3> HIDE DEF i, k
    <3>2. 2 * i + c \in Nat /\ (2 * i + c + 1) * Pow2[k - 1] <= Pow2[NumQubits]
      BY <3>1, HalfBlocks
    <3> QED BY <3>2 DEF i, k
  <2>2. b[2] - 1 \in 0..NumQubits
    BY <1>1, <1>8, <1>10
  <2> QED BY <1>2, <2>1, <2>2
<1>11. ASSUME NEW b \in D, b[2] > 0
       PROVE  <<2 * b[1], b[2] - 1>> \in D /\ <<2 * b[1] + 1, b[2] - 1>> \in D
  <2>1. 2 * b[1] + 0 = 2 * b[1]
    BY <1>8
  <2> QED BY <1>10, <1>11, <2>1
<1>12. ASSUME NEW b \in D, NEW g \in G PROVE vectorStep(amplitudes, g, b[1], b[2]) \in EdgesTo(all[b[2]])
  <2>1. b[2] > 0 => /\ g[<<2 * b[1], b[2] - 1>>] \in EdgesTo(all[b[2] - 1])
                    /\ g[<<2 * b[1] + 1, b[2] - 1>>] \in EdgesTo(all[b[2] - 1])
    BY <1>4, <1>6, <1>11
  <2> QED BY <1>1, <1>8, <2>1, VectorStepEdges
<1>13. WellFounded(D, mu, Good, comb)
  <2>1. \A b \in D : Good[b] # {}
    <3> TAKE b \in D
    <3>1. zero \in EdgesTo(all[b[2]])
      BY <1>1, <1>8, TerminalEdges
    <3> QED BY <1>4, <3>1
  <2>2. \A b \in D : \A g \in G : comb[<<b, g>>] \in Good[b]
    BY <1>3, <1>4, <1>12
  <2>3. ASSUME NEW b \in D, NEW g \in G, NEW h \in G, \A c \in D : mu[c] < mu[b] => g[c] = h[c]
        PROVE  comb[<<b, g>>] = comb[<<b, h>>]
    <3>1. b[2] # 0 => /\ g[<<2 * b[1], b[2] - 1>>] = h[<<2 * b[1], b[2] - 1>>]
                      /\ g[<<2 * b[1] + 1, b[2] - 1>>] = h[<<2 * b[1] + 1, b[2] - 1>>]
      BY <1>4, <1>8, <1>11, <2>3
    <3>2. vectorStep(amplitudes, g, b[1], b[2]) = vectorStep(amplitudes, h, b[1], b[2])
      BY <3>1 DEF vectorStep
    <3> QED BY <1>3, <3>2
  <2> QED BY <1>9, <2>1, <2>2, <2>3 DEF WellFounded, G
<1>14. PICK f \in G : \A b \in D : f[b] = comb[<<b, f>>]
  BY <1>13, RecursionExists DEF G
<1>15. f = [b \in D |-> vectorStep(amplitudes, f, b[1], b[2])]
  BY <1>3, <1>6, <1>14
<1>16. makeStateFromVectorRec(amplitudes)
          = [b \in Block |-> vectorStep(amplitudes, makeStateFromVectorRec(amplitudes), b[1], b[2])]
  BY <1>7, <1>15 DEF makeStateFromVectorRec
<1>17. <<j, l>> \in Block
  BY DEF Block
<1> QED BY <1>16, <1>17

\* A vector's edge is of the family of the strategy.
LEMMA VectorEdges ==
    ASSUME strategy \in Strategies, NEW norm, NEW nodes, Family(V, norm, nodes), Makes(norm),
           NEW amplitudes \in [1..Pow2[NumQubits] -> Weight]
    PROVE  /\ \A l \in 0..NumQubits : \A j \in Nat : (j + 1) * Pow2[l] <= Pow2[NumQubits] =>
                  makeStateFromVectorRec(amplitudes)[<<j, l>>] \in EdgesTo(nodes[l])
           /\ makeStateFromVector(amplitudes) \in EdgesTo(nodes[NumQubits])
<1> DEFINE rec == makeStateFromVectorRec(amplitudes)
           S == {l \in Nat : l <= NumQubits =>
                    \A j \in Nat : (j + 1) * Pow2[l] <= Pow2[NumQubits] => rec[<<j, l>>] \in EdgesTo(nodes[l])}
<1>1. NumQubits \in Nat
  BY QubitsAssumption
<1> HIDE DEF rec
<1>2. ASSUME NEW l \in Nat, l <= NumQubits, NEW j \in Nat, (j + 1) * Pow2[l] <= Pow2[NumQubits],
             l > 0 => l - 1 \in S
      PROVE  rec[<<j, l>>] \in EdgesTo(nodes[l])
  <2>1. l > 0 => /\ rec[<<2 * j, l - 1>>] \in EdgesTo(nodes[l - 1])
                 /\ rec[<<2 * j + 1, l - 1>>] \in EdgesTo(nodes[l - 1])
    <3> SUFFICES ASSUME l > 0
                 PROVE  /\ rec[<<2 * j, l - 1>>] \in EdgesTo(nodes[l - 1])
                        /\ rec[<<2 * j + 1, l - 1>>] \in EdgesTo(nodes[l - 1])
      OBVIOUS
    <3>1. l - 1 \in S /\ l - 1 <= NumQubits
      BY <1>1, <1>2
    <3>2. \A c \in {0, 1} : 2 * j + c \in Nat /\ (2 * j + c + 1) * Pow2[l - 1] <= Pow2[NumQubits]
      BY <1>2, HalfBlocks
    <3>3. \A c \in {0, 1} : rec[<<2 * j + c, l - 1>>] \in EdgesTo(nodes[l - 1])
      BY <3>1, <3>2
    <3>4. 2 * j + 0 = 2 * j
      OBVIOUS
    <3> QED BY <3>3, <3>4
  <2>2. vectorStep(amplitudes, rec, j, l) \in EdgesTo(nodes[l])
    BY <1>2, <2>1, VectorStepEdges
  <2>3. l \in 0..NumQubits
    BY <1>1, <1>2
  <2> QED BY <1>2, <2>2, <2>3, VectorEquation DEF rec
<1> HIDE DEF S
<1>3. 0 \in S
  <2>1. 0 <= NumQubits => \A j \in Nat : (j + 1) * Pow2[0] <= Pow2[NumQubits] => rec[<<j, 0>>] \in EdgesTo(nodes[0])
    BY <1>2
  <2> QED BY <2>1 DEF S
<1>4. ASSUME NEW l \in Nat, l \in S PROVE l + 1 \in S
  <2>1. l + 1 \in Nat /\ (l + 1) - 1 = l
    OBVIOUS
  <2>2. l + 1 <= NumQubits => \A j \in Nat : (j + 1) * Pow2[l + 1] <= Pow2[NumQubits] => rec[<<j, l + 1>>] \in EdgesTo(nodes[l + 1])
    BY <1>2, <1>4, <2>1
  <2> QED BY <2>1, <2>2 DEF S
<1>5. Nat \subseteq S
  BY <1>3, <1>4, SetInduction
<1>6. \A l \in 0..NumQubits : \A j \in Nat : (j + 1) * Pow2[l] <= Pow2[NumQubits] => rec[<<j, l>>] \in EdgesTo(nodes[l])
  BY <1>1, <1>5 DEF S
<1>7. rec[<<0, NumQubits>>] \in EdgesTo(nodes[NumQubits])
  <2>1. (0 + 1) * Pow2[NumQubits] <= Pow2[NumQubits] /\ NumQubits \in 0..NumQubits
    BY <1>1, Pow2Def
  <2> QED BY <1>6, <2>1
<1> QED BY <1>6, <1>7 DEF rec, makeStateFromVector

\* The matrices that makeDDFromMatrix is called with.
SquareMatrix == [1..Pow2[NumQubits] -> [1..Pow2[NumQubits] -> Weight]]

\* The quarter of a block that an edge of a node stands for.
Quarter(j, k, l, i) == <<2 * j + Row(i), 2 * k + Col(i), l - 1>>
Quarters(rec, j, k, l) == [i \in 1..M |-> rec[Quarter(j, k, l, i)]]

\* The matrix, as a block of 2^l rows and columns.
LEMMA MatrixStepEdges ==
    ASSUME strategy \in Strategies, NEW norm, NEW nodes, Family(M, norm, nodes), Makes(norm),
           NEW matrix \in SquareMatrix, NEW j \in Nat, NEW k \in Nat, NEW l \in Nat,
           (j + 1) * Pow2[l] <= Pow2[NumQubits], (k + 1) * Pow2[l] <= Pow2[NumQubits], NEW rec,
           l > 0 => \A i \in 1..M : rec[Quarter(j, k, l, i)] \in EdgesTo(nodes[l - 1])
    PROVE  matrixStep(matrix, rec, j, k, l) \in EdgesTo(nodes[l])
<1>1. Pow2[0] = 1 /\ Pow2[NumQubits] \in Nat
  BY Pow2Def, QubitsAssumption
<1>2. CASE l = 0
  <2>1. j + 1 \in 1..Pow2[NumQubits] /\ k + 1 \in 1..Pow2[NumQubits]
    BY <1>1, <1>2
  <2>2. matrix[j + 1][k + 1] \in Weight
    BY <2>1 DEF SquareMatrix
  <2> QED BY <1>2, <2>2, TerminalEdges DEF matrixStep
<1>3. CASE l > 0
  <2> DEFINE cs == Quarters(rec, j, k, l)
  <2>1. l - 1 \in Nat /\ (l - 1) + 1 = l
    BY <1>3
  <2>2. \A i \in 1..M : cs[i] \in EdgesTo(nodes[l - 1])
    BY <1>3 DEF Quarters
  <2>3. matrixStep(matrix, rec, j, k, l) = makeEdge(M, l - 1, cs)
    BY <1>3 DEF matrixStep, makeMEdge, Quarters, Quarter
  <2> HIDE DEF cs
  <2>4. \A i \in 1..M : cs[i] \in Loose(nodes[l - 1])
    BY <2>1, <2>2, ZeroTerminatedEdges
  <2>5. makeEdge(M, l - 1, cs) \in EdgesTo(nodes[(l - 1) + 1])
    BY <2>1, <2>4, MakeEdgeEdges
  <2> QED BY <2>1, <2>3, <2>5
<1> QED BY <1>2, <1>3

\* The quarters of a block are blocks.
LEMMA QuarterBlocks ==
    ASSUME NEW j \in Nat, NEW k \in Nat, NEW l \in Nat \ {0}, NEW i \in 1..M,
           (j + 1) * Pow2[l] <= Pow2[NumQubits], (k + 1) * Pow2[l] <= Pow2[NumQubits]
    PROVE  /\ 2 * j + Row(i) \in Nat /\ (2 * j + Row(i) + 1) * Pow2[l - 1] <= Pow2[NumQubits]
           /\ 2 * k + Col(i) \in Nat /\ (2 * k + Col(i) + 1) * Pow2[l - 1] <= Pow2[NumQubits]
<1>1. Row(i) \in {0, 1} /\ Col(i) \in {0, 1}
  BY RowCol
<1>2. 2 * j + Row(i) \in Nat /\ (2 * j + Row(i) + 1) * Pow2[l - 1] <= Pow2[NumQubits]
  BY <1>1, HalfBlocks
<1>3. 2 * k + Col(i) \in Nat /\ (2 * k + Col(i) + 1) * Pow2[l - 1] <= Pow2[NumQubits]
  BY <1>1, HalfBlocks
<1> QED BY <1>2, <1>3

\* The recursive function of makeDDFromMatrix satisfies its equation.
LEMMA MatrixEquation ==
    ASSUME strategy \in Strategies, NEW matrix \in SquareMatrix,
           NEW j \in Nat, NEW k \in Nat, NEW l \in 0..NumQubits,
           (j + 1) * Pow2[l] <= Pow2[NumQubits], (k + 1) * Pow2[l] <= Pow2[NumQubits]
    PROVE  makeDDFromMatrixRec(matrix)[<<j, k, l>>]
              = matrixStep(matrix, makeDDFromMatrixRec(matrix), j, k, l)
<1> DEFINE all == Nodes(M, 0)
           D == SquareBlock
           mu == [b \in D |-> b[3]]
           Good == [b \in D |-> EdgesTo(all[b[3]])]
           G == Selections(D, Good)
           comb == [bg \in D \X G |-> matrixStep(matrix, bg[2], bg[1][1], bg[1][2], bg[1][3])]
<1>1. Family(M, "Any", all) /\ NumQubits \in Nat /\ Makes("Any")
  BY Families, QubitsAssumption DEF Makes
<1>2. D = {b \in Nat \X Nat \X (0..NumQubits) : /\ (b[1] + 1) * Pow2[b[3]] <= Pow2[NumQubits]
                                                /\ (b[2] + 1) * Pow2[b[3]] <= Pow2[NumQubits]}
  BY DEF SquareBlock
<1>3. \A g \in G : \A b \in D : comb[<<b, g>>] = matrixStep(matrix, g, b[1], b[2], b[3])
  <2> HIDE DEF D, G
  <2> QED OBVIOUS
<1>4. \A b \in D : mu[b] = b[3] /\ Good[b] = EdgesTo(all[b[3]])
  OBVIOUS
<1>5. mu = [b \in D |-> mu[b]]
  OBVIOUS
<1>6. \A g \in G : g = [b \in D |-> g[b]] /\ \A b \in D : g[b] \in Good[b]
  <2> HIDE DEF D, Good
  <2> QED BY DEF Selections
<1>7. D = SquareBlock
  OBVIOUS
<1> HIDE DEF all, D, mu, Good, G, comb
<1>8. ASSUME NEW b \in D
      PROVE  /\ b = <<b[1], b[2], b[3]>> /\ b[1] \in Nat /\ b[2] \in Nat /\ b[3] \in Nat /\ b[3] \in 0..NumQubits
             /\ (b[1] + 1) * Pow2[b[3]] <= Pow2[NumQubits]
             /\ (b[2] + 1) * Pow2[b[3]] <= Pow2[NumQubits]
  BY <1>1, <1>2
<1>9. mu \in [D -> Nat]
  BY <1>4, <1>5, <1>8
<1>10. ASSUME NEW b \in D, b[3] > 0, NEW i \in 1..M
       PROVE  LET c == Quarter(b[1], b[2], b[3], i) IN c \in D /\ c[3] = b[3] - 1
  <2> DEFINE j1 == b[1]
             k1 == b[2]
             l1 == b[3]
  <2>1. /\ j1 \in Nat /\ k1 \in Nat /\ l1 \in Nat \ {0} /\ l1 - 1 \in 0..NumQubits
        /\ (j1 + 1) * Pow2[l1] <= Pow2[NumQubits] /\ (k1 + 1) * Pow2[l1] <= Pow2[NumQubits]
    BY <1>1, <1>8, <1>10
  <2> HIDE DEF j1, k1, l1
  <2>2. /\ 2 * j1 + Row(i) \in Nat /\ (2 * j1 + Row(i) + 1) * Pow2[l1 - 1] <= Pow2[NumQubits]
        /\ 2 * k1 + Col(i) \in Nat /\ (2 * k1 + Col(i) + 1) * Pow2[l1 - 1] <= Pow2[NumQubits]
    BY <2>1, QuarterBlocks
  <2>3. Quarter(j1, k1, l1, i) \in D /\ Quarter(j1, k1, l1, i)[3] = l1 - 1
    BY <1>2, <2>1, <2>2 DEF Quarter
  <2> QED BY <2>3 DEF j1, k1, l1
<1>11. ASSUME NEW b \in D, NEW g \in G PROVE matrixStep(matrix, g, b[1], b[2], b[3]) \in EdgesTo(all[b[3]])
  <2>1. b[3] > 0 => \A i \in 1..M : g[Quarter(b[1], b[2], b[3], i)] \in EdgesTo(all[b[3] - 1])
    BY <1>4, <1>6, <1>10
  <2> QED BY <1>1, <1>8, <2>1, MatrixStepEdges
<1>12. WellFounded(D, mu, Good, comb)
  <2>1. \A b \in D : Good[b] # {}
    <3> TAKE b \in D
    <3>1. zero \in EdgesTo(all[b[3]])
      BY <1>1, <1>8, TerminalEdges
    <3> QED BY <1>4, <3>1
  <2>2. \A b \in D : \A g \in G : comb[<<b, g>>] \in Good[b]
    BY <1>3, <1>4, <1>11
  <2>3. ASSUME NEW b \in D, NEW g \in G, NEW h \in G, \A c \in D : mu[c] < mu[b] => g[c] = h[c]
        PROVE  comb[<<b, g>>] = comb[<<b, h>>]
    <3>1. b[3] # 0 => \A i \in 1..M : g[Quarter(b[1], b[2], b[3], i)] = h[Quarter(b[1], b[2], b[3], i)]
      BY <1>4, <1>8, <1>10, <2>3
    <3>2. b[3] # 0 => Quarters(g, b[1], b[2], b[3]) = Quarters(h, b[1], b[2], b[3])
      BY <3>1 DEF Quarters
    <3>3. matrixStep(matrix, g, b[1], b[2], b[3]) = matrixStep(matrix, h, b[1], b[2], b[3])
      BY <3>2 DEF matrixStep, Quarters, Quarter
    <3> QED BY <1>3, <3>3
  <2> QED BY <1>9, <2>1, <2>2, <2>3 DEF WellFounded, G
<1>13. PICK f \in G : \A b \in D : f[b] = comb[<<b, f>>]
  BY <1>12, RecursionExists DEF G
<1>14. f = [b \in D |-> matrixStep(matrix, f, b[1], b[2], b[3])]
  BY <1>3, <1>6, <1>13
<1>15. makeDDFromMatrixRec(matrix)
          = [b \in SquareBlock |-> matrixStep(matrix, makeDDFromMatrixRec(matrix), b[1], b[2], b[3])]
  BY <1>7, <1>14 DEF makeDDFromMatrixRec
<1>16. <<j, k, l>> \in SquareBlock
  BY DEF SquareBlock
<1> QED BY <1>15, <1>16

\* A matrix's edge is of the family of the strategy.
LEMMA MatrixEdges ==
    ASSUME strategy \in Strategies, NEW norm, NEW nodes, Family(M, norm, nodes), Makes(norm),
           NEW matrix \in SquareMatrix
    PROVE  /\ \A l \in 0..NumQubits : \A j \in Nat, k \in Nat :
                  (j + 1) * Pow2[l] <= Pow2[NumQubits] /\ (k + 1) * Pow2[l] <= Pow2[NumQubits] =>
                      makeDDFromMatrixRec(matrix)[<<j, k, l>>] \in EdgesTo(nodes[l])
           /\ makeDDFromMatrix(matrix) \in EdgesTo(nodes[NumQubits])
<1> DEFINE rec == makeDDFromMatrixRec(matrix)
           S == {l \in Nat : l <= NumQubits => \A j \in Nat, k \in Nat :
                    (j + 1) * Pow2[l] <= Pow2[NumQubits] /\ (k + 1) * Pow2[l] <= Pow2[NumQubits] =>
                        rec[<<j, k, l>>] \in EdgesTo(nodes[l])}
<1>1. NumQubits \in Nat
  BY QubitsAssumption
<1> HIDE DEF rec
<1>2. ASSUME NEW l \in Nat, l <= NumQubits, NEW j \in Nat, NEW k \in Nat,
             (j + 1) * Pow2[l] <= Pow2[NumQubits], (k + 1) * Pow2[l] <= Pow2[NumQubits], l > 0 => l - 1 \in S
      PROVE  rec[<<j, k, l>>] \in EdgesTo(nodes[l])
  <2>1. ASSUME l > 0, NEW i \in 1..M PROVE rec[Quarter(j, k, l, i)] \in EdgesTo(nodes[l - 1])
    <3>1. l - 1 \in S /\ l - 1 <= NumQubits
      BY <1>1, <1>2, <2>1
    <3>2. l \in Nat \ {0}
      BY <2>1
    <3>3. /\ 2 * j + Row(i) \in Nat /\ (2 * j + Row(i) + 1) * Pow2[l - 1] <= Pow2[NumQubits]
          /\ 2 * k + Col(i) \in Nat /\ (2 * k + Col(i) + 1) * Pow2[l - 1] <= Pow2[NumQubits]
      BY <1>2, <3>2, QuarterBlocks
    <3> QED BY <3>1, <3>3 DEF Quarter
  <2>2. matrixStep(matrix, rec, j, k, l) \in EdgesTo(nodes[l])
    BY <1>2, <2>1, MatrixStepEdges
  <2>3. l \in 0..NumQubits
    BY <1>1, <1>2
  <2> QED BY <1>2, <2>2, <2>3, MatrixEquation DEF rec
<1> HIDE DEF S
<1>3. 0 \in S
  <2>1. 0 <= NumQubits => \A j \in Nat, k \in Nat :
            (j + 1) * Pow2[0] <= Pow2[NumQubits] /\ (k + 1) * Pow2[0] <= Pow2[NumQubits] =>
                rec[<<j, k, 0>>] \in EdgesTo(nodes[0])
    BY <1>2
  <2> QED BY <2>1 DEF S
<1>4. ASSUME NEW l \in Nat, l \in S PROVE l + 1 \in S
  <2>1. l + 1 \in Nat /\ (l + 1) - 1 = l
    OBVIOUS
  <2>2. l + 1 <= NumQubits => \A j \in Nat, k \in Nat :
            (j + 1) * Pow2[l + 1] <= Pow2[NumQubits] /\ (k + 1) * Pow2[l + 1] <= Pow2[NumQubits] =>
                rec[<<j, k, l + 1>>] \in EdgesTo(nodes[l + 1])
    BY <1>2, <1>4, <2>1
  <2> QED BY <2>1, <2>2 DEF S
<1>5. Nat \subseteq S
  BY <1>3, <1>4, SetInduction
<1>6. \A l \in 0..NumQubits : \A j \in Nat, k \in Nat :
            (j + 1) * Pow2[l] <= Pow2[NumQubits] /\ (k + 1) * Pow2[l] <= Pow2[NumQubits] =>
                rec[<<j, k, l>>] \in EdgesTo(nodes[l])
  BY <1>1, <1>5 DEF S
<1>7. rec[<<0, 0, NumQubits>>] \in EdgesTo(nodes[NumQubits])
  <2>1. (0 + 1) * Pow2[NumQubits] <= Pow2[NumQubits] /\ NumQubits \in 0..NumQubits
    BY <1>1, Pow2Def
  <2> QED BY <1>6, <2>1
<1> QED BY <1>6, <1>7 DEF rec, makeDDFromMatrix

\* A recursion that counts from lo to hi.
CountsUp(lo, hi, Good, base, step) ==
    /\ lo \in Nat /\ hi \in Nat /\ lo <= hi /\ base \in Good[lo]
    /\ \A n \in lo..hi : n # lo => \A s \in Good[n - 1] : step[<<n, s>>] \in Good[n]

\* Values that are made one from the other, counting up from lo.
LEMMA CountUp ==
    ASSUME NEW lo, NEW hi, NEW Good, NEW base, NEW step, CountsUp(lo, hi, Good, base, step)
    PROVE  \E f : /\ f = [n \in lo..hi |-> f[n]]
                  /\ \A n \in lo..hi : f[n] \in Good[n] /\ f[n] = IF n = lo THEN base ELSE step[<<n, f[n - 1]>>]
<1> DEFINE Upto(f, n) == /\ f = [i \in lo..n |-> f[i]]
                         /\ \A i \in lo..n : f[i] \in Good[i] /\ f[i] = IF i = lo THEN base ELSE step[<<i, f[i - 1]>>]
           S == {k \in Nat : lo + k <= hi => \E f : Upto(f, lo + k)}
<1>1. /\ lo \in Nat /\ hi \in Nat /\ lo <= hi /\ base \in Good[lo]
      /\ \A n \in lo..hi : n # lo => \A s \in Good[n - 1] : step[<<n, s>>] \in Good[n]
  BY DEF CountsUp
<1>2. 0 \in S
  <2> DEFINE f == [i \in lo..lo |-> base]
  <2>1. \A i \in lo..lo : i = lo
    BY <1>1
  <2>2. f = [i \in lo..lo |-> f[i]] /\ \A i \in lo..lo : f[i] = base
    OBVIOUS
  <2> HIDE DEF f
  <2>3. Upto(f, lo)
    BY <1>1, <2>1, <2>2
  <2>4. lo + 0 = lo
    BY <1>1
  <2> HIDE DEF Upto
  <2> QED BY <2>3, <2>4
<1>3. ASSUME NEW k \in Nat, k \in S PROVE k + 1 \in S
  <2> SUFFICES ASSUME lo + (k + 1) <= hi PROVE \E f : Upto(f, lo + (k + 1))
    OBVIOUS
  <2> DEFINE n == lo + k
  <2>1. n \in Nat /\ n + 1 <= hi /\ n <= hi /\ lo <= n /\ lo + (k + 1) = n + 1
    BY <1>1
  <2>2. PICK g : Upto(g, n)
    <3> HIDE DEF Upto
    <3> QED BY <1>3, <2>1
  <2> HIDE DEF n
  <2> DEFINE f == [i \in lo..n + 1 |-> IF i = n + 1 THEN step[<<i, g[n]>>] ELSE g[i]]
  <2>3. /\ f = [i \in lo..n + 1 |-> f[i]]
        /\ \A i \in lo..n + 1 : f[i] = IF i = n + 1 THEN step[<<i, g[n]>>] ELSE g[i]
    OBVIOUS
  <2> HIDE DEF f
  <2>4. ASSUME NEW i \in lo..n + 1
        PROVE  f[i] \in Good[i] /\ f[i] = IF i = lo THEN base ELSE step[<<i, f[i - 1]>>]
    <3>1. CASE i = n + 1
      <4>1. n \in lo..n /\ n \in lo..n + 1 /\ n # n + 1 /\ i - 1 = n /\ i # lo /\ i \in lo..hi
        BY <1>1, <2>1, <3>1
      <4>2. f[n] = g[n] /\ g[n] \in Good[n]
        BY <2>2, <2>3, <4>1
      <4> QED BY <1>1, <2>3, <3>1, <4>1, <4>2
    <3>2. CASE i # n + 1
      <4>1. i \in lo..n /\ (i # lo => i - 1 \in lo..n + 1 /\ i - 1 # n + 1)
        BY <1>1, <2>1, <3>2
      <4>2. f[i] = g[i] /\ (i # lo => f[i - 1] = g[i - 1])
        BY <2>3, <3>2, <4>1
      <4>3. g[i] \in Good[i] /\ g[i] = IF i = lo THEN base ELSE step[<<i, g[i - 1]>>]
        BY <2>2, <4>1
      <4> QED BY <4>2, <4>3
    <3> QED BY <3>1, <3>2
  <2>5. Upto(f, n + 1)
    BY <2>3, <2>4
  <2> HIDE DEF Upto
  <2> QED BY <2>1, <2>5
<1>4. Nat \subseteq S
  <2> HIDE DEF S
  <2> QED BY <1>2, <1>3, SetInduction
<1>5. hi - lo \in Nat /\ lo + (hi - lo) = hi
  BY <1>1
<1>6. \E f : Upto(f, hi)
  <2> HIDE DEF Upto
  <2> QED BY <1>1, <1>4, <1>5
<1> QED BY <1>6

\* What holds at lo, and at n if it does at n - 1, holds up to hi.
LEMMA CountInduction ==
    ASSUME NEW lo \in Nat, NEW hi \in Nat, lo <= hi, NEW S, lo \in S,
           \A n \in lo..hi : n # lo /\ n - 1 \in S => n \in S
    PROVE  lo..hi \subseteq S
<1> DEFINE T == {k \in Nat : lo + k <= hi => lo + k \in S}
<1>1. 0 \in T
  OBVIOUS
<1>2. ASSUME NEW k \in Nat, k \in T PROVE k + 1 \in T
  <2>1. ASSUME lo + (k + 1) <= hi PROVE lo + (k + 1) \in S
    <3>1. lo + (k + 1) \in lo..hi /\ lo + (k + 1) # lo /\ (lo + (k + 1)) - 1 = lo + k /\ lo + k <= hi
      BY <2>1
    <3> QED BY <1>2, <3>1
  <2> QED BY <2>1
<1>3. Nat \subseteq T
  <2> HIDE DEF T
  <2> QED BY <1>1, <1>2, SetInduction
<1>4. ASSUME NEW n \in lo..hi PROVE n \in S
  <2>1. n - lo \in Nat /\ lo + (n - lo) = n
    OBVIOUS
  <2> QED BY <1>3, <2>1
<1> QED BY <1>4

\* The constants are weights.
LEMMA ConstantWeights ==
    /\ halfSqrt2 \in Weight /\ invSqrt2PlusI \in Weight /\ invSqrt2 \in Weight
    /\ iUnit \in Weight /\ omega \in Weight /\ One \in Weight /\ Zero \in Weight
    /\ \A z \in Weight : Negate(z) \in Weight
<1>1. /\ <<0, 1, 0, -1>> \in Tuple /\ <<1, 0, 1, 0>> \in Tuple
  BY DEF Tuple
<1>2. Canonical(halfSqrt2)
  BY <1>1, CanonicalizeIsExact DEF halfSqrt2
<1>3. Canonical(invSqrt2PlusI)
  BY <1>1, CanonicalizeIsExact DEF invSqrt2PlusI
<1>4. sqrt2 \in NonZero
  <2>1. Canonical(sqrt2) /\ SameValue(Element(sqrt2), Value(<<0, 1, 0, -1>>, 0, 1))
    BY <1>1, CanonicalizeIsExact DEF sqrt2, Integral
  <2>2. ASSUME sqrt2 = Zero PROVE FALSE
    <3>1. Element(sqrt2).n = ZeroTuple /\ Element(sqrt2).d = 1
      BY <2>2, Constants
    <3>2. Value(<<0, 1, 0, -1>>, 0, 1).n = <<0, 1, 0, -1>> /\ Value(<<0, 1, 0, -1>>, 0, 1).d = 1
      BY <1>1, IntegralValue
    <3>3. Scale(1, ZeroTuple) = Scale(1, <<0, 1, 0, -1>>)
      BY <2>1, <3>1, <3>2 DEF SameValue
    <3> QED BY <3>3 DEF Scale, ZeroTuple
  <2> QED BY <2>1, <2>2, WeightIsCanonical DEF NonZero
<1>5. invSqrt2 \in Weight
  BY <1>4, NonZeroLaws DEF invSqrt2, NonZero
<1>6. \A z \in Weight : Negate(z) \in Weight
  BY WeightIsCanonical, CanonicalClosure
<1> QED BY <1>2, <1>3, <1>5, <1>6, WeightIsCanonical, UnitsAreNonZero, WeightLaws DEF NonZero

\* The weights of a basis state.
LEMMA BasisWeightsType ==
    \A s \in BasisState : BasisWeights(s)[1] \in Weight /\ BasisWeights(s)[2] \in Weight
<1>1. Negate(invSqrt2) \in Weight /\ Multiply(invSqrt2, iUnit) \in Weight
  BY ConstantWeights, WeightLaws
<1>2. Negate(Multiply(invSqrt2, iUnit)) \in Weight
  BY <1>1, ConstantWeights
<1> QED BY <1>1, <1>2, ConstantWeights DEF BasisWeights, BasisState

\* An edge times any weight, before the node is taken from a weight of 0.
LEMMA RescaledLoose ==
    ASSUME NEW nodes, NEW edge \in EdgesTo(nodes), NEW w \in Weight
    PROVE  Rescaled(w, edge) \in Loose(nodes)
<1>1. edge.p \in nodes /\ edge.w \in Weight
  BY EdgeFields
<1> QED BY <1>1, WeightLaws DEF Rescaled, Loose

\* A basis state on the qubits from start on, made one qubit after the other.
BasisInSteps(nodes, state, start) ==
    \E upTo : /\ \A n \in 0..Len(state) : upTo[n] = basisStep(state, start, upTo, n)
              /\ \A n \in 0..Len(state) : upTo[n] \in EdgesTo(nodes[start + n])
              /\ makeBasisState(state, start) = upTo[Len(state)]

\* makeBasisState makes them so, each of its level.
LEMMA BasisSteps ==
    ASSUME strategy \in Strategies, NEW norm, NEW nodes, Family(V, norm, nodes), Makes(norm),
           NEW state \in Seq(BasisState), NEW start \in Nat
    PROVE  BasisInSteps(nodes, state, start)
<1> DEFINE hi == Len(state)
           Good == [n \in 0..hi |-> EdgesTo(nodes[start + n])]
           States == UNION {Good[n] : n \in 0..hi}
           Next1(n, s) == basisStep(state, start, [i \in {n - 1} |-> s], n)
           step == [ns \in (0..hi) \X States |-> Next1(ns[1], ns[2])]
<1>1. hi \in Nat /\ \A n \in 1..hi : state[n] \in BasisState
  OBVIOUS
<1>2. \A n \in 0..hi : Good[n] = EdgesTo(nodes[start + n])
  OBVIOUS
<1>3. \A n \in 0..hi : \A k \in 0..hi : \A s \in Good[k] : step[<<n, s>>] = Next1(n, s)
  <2> HIDE DEF Good, Next1
  <2> QED OBVIOUS
<1> HIDE DEF hi, Good, States, step
<1>4. ASSUME NEW f, NEW n \in 0..hi, n # 0 => f[n - 1] \in EdgesTo(nodes[start + (n - 1)])
      PROVE  basisStep(state, start, f, n) \in EdgesTo(nodes[start + n])
  <2>1. CASE n = 0
    BY <1>1, <2>1, TerminalEdges DEF basisStep
  <2>2. CASE n # 0
    <3> DEFINE w == BasisWeights(state[n])
               cs == <<Rescaled(w[1], f[n - 1]), Rescaled(w[2], f[n - 1])>>
               l == start + n - 1
    <3>1. n \in 1..hi /\ l \in Nat /\ l + 1 = start + n /\ l = start + (n - 1)
      BY <1>1, <2>2
    <3>2. w[1] \in Weight /\ w[2] \in Weight
      BY <1>1, <3>1, BasisWeightsType
    <3>3. basisStep(state, start, f, n) = makeEdge(V, l, cs)
      BY <2>2 DEF basisStep, Weighted, makeVEdge
    <3> HIDE DEF w, l
    <3>4. Rescaled(w[1], f[n - 1]) \in Loose(nodes[l]) /\ Rescaled(w[2], f[n - 1]) \in Loose(nodes[l])
      BY <1>4, <2>2, <3>1, <3>2, RescaledLoose
    <3>5. \A i \in 1..V : cs[i] \in Loose(nodes[l])
      BY <3>4 DEF V
    <3> HIDE DEF cs
    <3>6. makeEdge(V, l, cs) \in EdgesTo(nodes[l + 1])
      BY <3>1, <3>5, MakeEdgeEdges
    <3> QED BY <3>1, <3>3, <3>6
  <2> QED BY <2>1, <2>2
<1>5. ASSUME NEW f, NEW g, NEW n \in 0..hi, n # 0 => f[n - 1] = g[n - 1]
      PROVE  basisStep(state, start, f, n) = basisStep(state, start, g, n)
  BY <1>5 DEF basisStep, Weighted
<1>6. CountsUp(0, hi, Good, identity, step)
  <2>1. identity \in Good[0]
    <3>1. identity \in EdgesTo(nodes[start + 0])
      BY TerminalEdges
    <3> QED BY <1>1, <1>2, <3>1
  <2>2. ASSUME NEW n \in 0..hi, n # 0, NEW s \in Good[n - 1] PROVE step[<<n, s>>] \in Good[n]
    <3> DEFINE f == [i \in {n - 1} |-> s]
    <3>1. f[n - 1] = s
      OBVIOUS
    <3>2. Next1(n, s) = basisStep(state, start, f, n)
      OBVIOUS
    <3>3. n - 1 \in 0..hi
      BY <1>1, <2>2
    <3>4. s \in EdgesTo(nodes[start + (n - 1)])
      BY <1>2, <3>3
    <3> HIDE DEF f
    <3>5. basisStep(state, start, f, n) \in EdgesTo(nodes[start + n])
      BY <1>4, <3>1, <3>4
    <3> HIDE DEF Next1
    <3>6. step[<<n, s>>] = Next1(n, s)
      BY <1>3, <3>3
    <3> QED BY <1>2, <3>2, <3>5, <3>6
  <2> QED BY <1>1, <2>1, <2>2 DEF CountsUp
<1>7. PICK f : /\ f = [n \in 0..hi |-> f[n]]
               /\ \A n \in 0..hi : f[n] \in Good[n] /\ f[n] = IF n = 0 THEN identity ELSE step[<<n, f[n - 1]>>]
  BY <1>6, CountUp
<1>8. ASSUME NEW n \in 0..hi PROVE f[n] = basisStep(state, start, f, n)
  <2>1. CASE n = 0
    BY <1>7, <2>1 DEF basisStep
  <2>2. CASE n # 0
    <3> DEFINE g == [i \in {n - 1} |-> f[n - 1]]
    <3>1. g[n - 1] = f[n - 1]
      OBVIOUS
    <3>2. Next1(n, f[n - 1]) = basisStep(state, start, g, n)
      OBVIOUS
    <3> HIDE DEF g, Next1
    <3>3. n - 1 \in 0..hi
      BY <1>1, <2>2
    <3>4. f[n] = Next1(n, f[n - 1])
      BY <1>3, <1>7, <2>2, <3>3
    <3> QED BY <1>5, <3>1, <3>2, <3>4
  <2> QED BY <2>1, <2>2
<1>9. f = [n \in 0..hi |-> basisStep(state, start, f, n)]
  BY <1>7, <1>8
<1> DEFINE upTo == CHOOSE g : g = [n \in 0..hi |-> basisStep(state, start, g, n)]
<1>10. upTo = [n \in 0..hi |-> basisStep(state, start, upTo, n)]
  BY <1>9
<1>11. makeBasisState(state, start) = upTo[hi]
  BY DEF makeBasisState, hi
<1> HIDE DEF upTo
<1> DEFINE S == {n \in 0..hi : upTo[n] \in EdgesTo(nodes[start + n])}
<1>12. 0 \in S
  BY <1>1, <1>4, <1>10
<1>13. ASSUME NEW n \in 0..hi, n # 0, n - 1 \in S PROVE n \in S
  BY <1>4, <1>10, <1>13
<1>14. 0..hi \subseteq S
  <2> HIDE DEF S
  <2>1. 0 \in Nat /\ 0 <= hi /\ \A n \in 0..hi : n # 0 /\ n - 1 \in S => n \in S
    BY <1>1, <1>13
  <2> QED BY <1>1, <1>12, <2>1, CountInduction
<1>15. \A n \in 0..hi : upTo[n] \in EdgesTo(nodes[start + n])
  BY <1>14
<1>16. \A n \in 0..hi : upTo[n] = basisStep(state, start, upTo, n)
  BY <1>10
<1> QED BY <1>11, <1>15, <1>16 DEF hi, BasisInSteps

\* It is an edge of the level above its qubits.
LEMMA BasisEdges ==
    ASSUME strategy \in Strategies, NEW norm, NEW nodes, Family(V, norm, nodes), Makes(norm),
           NEW state \in Seq(BasisState), NEW start \in Nat
    PROVE  makeBasisState(state, start) \in EdgesTo(nodes[start + Len(state)])
<1> DEFINE hi == Len(state)
<1>1. PICK upTo : /\ \A n \in 0..hi : upTo[n] \in EdgesTo(nodes[start + n])
                  /\ makeBasisState(state, start) = upTo[hi]
  <2>1. BasisInSteps(nodes, state, start)
    BY BasisSteps
  <2> QED BY <2>1 DEF BasisInSteps
<1>2. hi \in 0..hi
  OBVIOUS
<1> QED BY <1>1, <1>2

\* A block wrapped with a control is one of the next level.
LEMMA WrapEdges ==
    ASSUME strategy \in Strategies, NEW norm, NEW nodes, Family(M, norm, nodes), Makes(norm),
           NEW ctrl \in Nat, NEW active \in EdgesTo(nodes[ctrl]), NEW diagonal
    PROVE  wrapWithControl(ctrl, active, diagonal) \in EdgesTo(nodes[ctrl + 1])
<1> DEFINE corner == IF diagonal THEN identity ELSE zero
           cs == <<corner, zero, zero, active>>
<1>1. corner \in EdgesTo(nodes[ctrl]) /\ zero \in EdgesTo(nodes[ctrl])
  BY TerminalEdges
<1>2. wrapWithControl(ctrl, active, diagonal) = makeEdge(M, ctrl, cs)
  BY DEF wrapWithControl, makeMEdge
<1> HIDE DEF corner
<1>3. \A i \in 1..M : cs[i] \in EdgesTo(nodes[ctrl])
  BY <1>1 DEF M
<1> HIDE DEF cs
<1>4. \A i \in 1..M : cs[i] \in Loose(nodes[ctrl])
  BY <1>3, ZeroTerminatedEdges
<1> QED BY <1>2, <1>4, MakeEdgeEdges

\* All blocks wrapped with the controls from lo to hi - 1, one after the other.
WrapsInSteps(nodes, len, blocks, diagonal, controls, lo, hi) ==
    \E upTo : /\ upTo = [q \in lo..hi |-> wrapStep(blocks, diagonal, controls, lo, upTo, q)]
              /\ \A q \in lo..hi : upTo[q] \in [1..len -> EdgesTo(nodes[q])]
              /\ Wrapped(blocks, diagonal, controls, lo, hi) = upTo[hi]

\* Wrapped makes them so, each of its level.
LEMMA WrappedSteps ==
    ASSUME strategy \in Strategies, NEW norm, NEW nodes, Family(M, norm, nodes), Makes(norm),
           NEW lo \in Nat, NEW hi \in Nat, lo <= hi, NEW len \in Nat,
           NEW blocks \in [1..len -> EdgesTo(nodes[lo])], NEW diagonal, NEW controls
    PROVE  WrapsInSteps(nodes, len, blocks, diagonal, controls, lo, hi)
<1> DEFINE Good == [q \in lo..hi |-> [1..len -> EdgesTo(nodes[q])]]
           States == UNION {Good[q] : q \in lo..hi}
           Next1(q, s) == wrapStep(blocks, diagonal, controls, lo, [i \in {q - 1} |-> s], q)
           step == [qs \in (lo..hi) \X States |-> Next1(qs[1], qs[2])]
<1>1. \A q \in lo..hi : Good[q] = [1..len -> EdgesTo(nodes[q])]
  OBVIOUS
<1>2. \A q \in lo..hi : \A k \in lo..hi : \A s \in Good[k] : step[<<q, s>>] = Next1(q, s)
  <2> HIDE DEF Good, Next1
  <2> QED OBVIOUS
<1> HIDE DEF Good, States, step
<1>3. ASSUME NEW f, NEW q \in lo..hi, q # lo => f[q - 1] \in [1..len -> EdgesTo(nodes[q - 1])]
      PROVE  wrapStep(blocks, diagonal, controls, lo, f, q) \in [1..len -> EdgesTo(nodes[q])]
  <2>1. CASE q = lo
    BY <2>1 DEF wrapStep
  <2>2. CASE q # lo
    <3> DEFINE em == f[q - 1]
               k == q - 1
               ws == [i \in 1..len |-> wrapWithControl(k, em[i], i \in diagonal)]
    <3>1. em \in [1..len -> EdgesTo(nodes[k])] /\ k \in Nat /\ k + 1 = q /\ k <= q /\ q \in Nat
      BY <1>3, <2>2
    <3>2. DOMAIN em = 1..len
      BY <3>1
    <3>3. wrapStep(blocks, diagonal, controls, lo, f, q) =
             IF k \in Range(controls) THEN Listed([i \in DOMAIN em |-> wrapWithControl(k, em[i], i \in diagonal)]) ELSE em
      BY <2>2 DEF wrapStep
    <3>4. wrapStep(blocks, diagonal, controls, lo, f, q) = IF k \in Range(controls) THEN Listed(ws) ELSE em
      BY <3>2, <3>3
    <3> HIDE DEF em, k
    <3>5. EdgesTo(nodes[k]) \subseteq EdgesTo(nodes[q])
      BY <3>1, HigherEdges
    <3>6. \A i \in 1..len : wrapWithControl(k, em[i], i \in diagonal) \in EdgesTo(nodes[q])
      <4> TAKE i \in 1..len
      <4>1. em[i] \in EdgesTo(nodes[k])
        BY <3>1
      <4>2. wrapWithControl(k, em[i], i \in diagonal) \in EdgesTo(nodes[k + 1])
        BY <3>1, <4>1, WrapEdges
      <4> QED BY <3>1, <4>2
    <3>7. ws \in [1..len -> EdgesTo(nodes[q])]
      BY <3>6
    <3> HIDE DEF ws
    <3>8. Listed(ws) = ws
      BY <3>7, ListedSame
    <3> QED BY <3>1, <3>4, <3>5, <3>7, <3>8
  <2> QED BY <2>1, <2>2
<1>4. ASSUME NEW f, NEW g, NEW q \in lo..hi, q # lo => f[q - 1] = g[q - 1]
      PROVE  wrapStep(blocks, diagonal, controls, lo, f, q) = wrapStep(blocks, diagonal, controls, lo, g, q)
  BY <1>4 DEF wrapStep
<1>5. CountsUp(lo, hi, Good, blocks, step)
  <2>1. blocks \in Good[lo]
    BY <1>1
  <2>2. ASSUME NEW q \in lo..hi, q # lo, NEW s \in Good[q - 1] PROVE step[<<q, s>>] \in Good[q]
    <3> DEFINE f == [i \in {q - 1} |-> s]
    <3>1. f[q - 1] = s
      OBVIOUS
    <3>2. Next1(q, s) = wrapStep(blocks, diagonal, controls, lo, f, q)
      OBVIOUS
    <3>3. q - 1 \in lo..hi
      BY <2>2
    <3>4. s \in [1..len -> EdgesTo(nodes[q - 1])]
      BY <1>1, <3>3
    <3> HIDE DEF f
    <3>5. wrapStep(blocks, diagonal, controls, lo, f, q) \in [1..len -> EdgesTo(nodes[q])]
      BY <1>3, <3>1, <3>4
    <3> HIDE DEF Next1
    <3>6. step[<<q, s>>] = Next1(q, s)
      BY <1>2, <3>3
    <3> QED BY <1>1, <3>2, <3>5, <3>6
  <2> QED BY <2>1, <2>2 DEF CountsUp
<1>6. PICK f : /\ f = [q \in lo..hi |-> f[q]]
               /\ \A q \in lo..hi : f[q] \in Good[q] /\ f[q] = IF q = lo THEN blocks ELSE step[<<q, f[q - 1]>>]
  BY <1>5, CountUp
<1>7. ASSUME NEW q \in lo..hi PROVE f[q] = wrapStep(blocks, diagonal, controls, lo, f, q)
  <2>1. CASE q = lo
    BY <1>6, <2>1 DEF wrapStep
  <2>2. CASE q # lo
    <3> DEFINE g == [i \in {q - 1} |-> f[q - 1]]
    <3>1. g[q - 1] = f[q - 1]
      OBVIOUS
    <3>2. Next1(q, f[q - 1]) = wrapStep(blocks, diagonal, controls, lo, g, q)
      OBVIOUS
    <3> HIDE DEF g, Next1
    <3>3. q - 1 \in lo..hi
      BY <2>2
    <3>4. f[q] = Next1(q, f[q - 1])
      BY <1>2, <1>6, <2>2, <3>3
    <3> QED BY <1>4, <3>1, <3>2, <3>4
  <2> QED BY <2>1, <2>2
<1>8. f = [q \in lo..hi |-> wrapStep(blocks, diagonal, controls, lo, f, q)]
  BY <1>6, <1>7
<1> DEFINE upTo == CHOOSE g : g = [q \in lo..hi |-> wrapStep(blocks, diagonal, controls, lo, g, q)]
<1>9. upTo = [q \in lo..hi |-> wrapStep(blocks, diagonal, controls, lo, upTo, q)]
  BY <1>8
<1>10. Wrapped(blocks, diagonal, controls, lo, hi) = upTo[hi]
  BY DEF Wrapped
<1> HIDE DEF upTo
<1> DEFINE S == {q \in lo..hi : upTo[q] \in [1..len -> EdgesTo(nodes[q])]}
<1>11. lo \in S
  <2>1. lo \in lo..hi
    OBVIOUS
  <2> QED BY <1>3, <1>9, <2>1
<1>12. ASSUME NEW q \in lo..hi, q # lo, q - 1 \in S PROVE q \in S
  BY <1>3, <1>9, <1>12
<1>13. lo..hi \subseteq S
  <2> HIDE DEF S
  <2>1. \A q \in lo..hi : q # lo /\ q - 1 \in S => q \in S
    BY <1>12
  <2> QED BY <1>11, <2>1, CountInduction
<1>14. \A q \in lo..hi : upTo[q] \in [1..len -> EdgesTo(nodes[q])]
  BY <1>13
<1> QED BY <1>9, <1>10, <1>14 DEF WrapsInSteps

\* They are edges of the upper level.
LEMMA WrappedEdges ==
    ASSUME strategy \in Strategies, NEW norm, NEW nodes, Family(M, norm, nodes), Makes(norm),
           NEW lo \in Nat, NEW hi \in Nat, lo <= hi, NEW len \in Nat,
           NEW blocks \in [1..len -> EdgesTo(nodes[lo])], NEW diagonal, NEW controls
    PROVE  Wrapped(blocks, diagonal, controls, lo, hi) \in [1..len -> EdgesTo(nodes[hi])]
<1>1. PICK upTo : /\ \A q \in lo..hi : upTo[q] \in [1..len -> EdgesTo(nodes[q])]
                  /\ Wrapped(blocks, diagonal, controls, lo, hi) = upTo[hi]
  <2>1. WrapsInSteps(nodes, len, blocks, diagonal, controls, lo, hi)
    BY WrappedSteps
  <2> QED BY <2>1 DEF WrapsInSteps
<1>2. hi \in lo..hi
  OBVIOUS
<1> QED BY <1>1, <1>2

\* The terminals of a matrix.
LEMMA TerminalsEdges ==
    ASSUME NEW arity, NEW norm, NEW nodes, Family(arity, norm, nodes), NEW len \in Nat, NEW matrix \in [1..len -> Weight]
    PROVE  Terminals(matrix) \in [1..len -> EdgesTo(nodes[0])]
<1>1. \A i \in 1..len : terminal(matrix[i]) \in EdgesTo(nodes[0])
  BY TerminalEdges
<1>2. Terminals(matrix) = [i \in 1..len |-> terminal(matrix[i])]
  BY DEF Terminals
<1> QED BY <1>1, <1>2

\* The gate, wrapped with its upper controls.
LEMMA WrappedGateEdges ==
    ASSUME strategy \in Strategies, NEW norm, NEW nodes, Family(M, norm, nodes), Makes(norm),
           NEW lo \in Nat, lo <= NumQubits, NEW edge \in EdgesTo(nodes[lo]), NEW controls
    PROVE  WrappedGate(edge, controls, lo) \in EdgesTo(nodes[NumQubits])
<1> DEFINE blocks == <<edge>>
<1>1. blocks \in [1..1 -> EdgesTo(nodes[lo])] /\ NumQubits \in Nat
  BY QubitsAssumption
<1>2. WrappedGate(edge, controls, lo) = Wrapped(blocks, {1}, controls, lo, NumQubits)[1]
  BY DEF WrappedGate
<1> HIDE DEF blocks
<1>3. Wrapped(blocks, {1}, controls, lo, NumQubits) \in [1..1 -> EdgesTo(nodes[NumQubits])]
  BY <1>1, WrappedEdges
<1>4. 1 \in 1..1
  OBVIOUS
<1> QED BY <1>2, <1>3, <1>4

\* makeMEdge of four edges.
LEMMA MakeMEdges ==
    ASSUME strategy \in Strategies, NEW norm, NEW nodes, Family(M, norm, nodes), Makes(norm),
           NEW n \in Nat, NEW cs \in [1..4 -> EdgesTo(nodes[n])]
    PROVE  makeMEdge(n, cs) \in EdgesTo(nodes[n + 1])
<1>1. \A i \in 1..M : cs[i] \in Loose(nodes[n])
  BY ZeroTerminatedEdges DEF M
<1> QED BY <1>1, MakeEdgeEdges DEF makeMEdge

\* A gate on one qubit, with any controls.
LEMMA SingleQubitGateEdges ==
    ASSUME strategy \in Strategies, NEW norm, NEW nodes, Family(M, norm, nodes), Makes(norm),
           NEW target \in Nat, target < NumQubits, NEW matrix \in [1..4 -> Weight], NEW controls
    PROVE  makeControlledSingleQubitGateDD(controls, target, matrix) \in EdgesTo(nodes[NumQubits])
<1> DEFINE ts == Terminals(matrix)
           corners == {1, 4}
           blocks == Wrapped(ts, corners, controls, 0, target)
           edge == makeMEdge(target, blocks)
<1>1. ts \in [1..4 -> EdgesTo(nodes[0])]
  BY TerminalsEdges
<1>2. makeControlledSingleQubitGateDD(controls, target, matrix) = WrappedGate(edge, controls, target + 1)
  BY DEF makeControlledSingleQubitGateDD
<1> HIDE DEF ts, corners
<1>3. blocks \in [1..4 -> EdgesTo(nodes[target])]
  <2>1. 0 \in Nat /\ 4 \in Nat /\ 0 <= target
    OBVIOUS
  <2> QED BY <1>1, <2>1, WrappedEdges
<1> HIDE DEF blocks
<1>4. edge \in EdgesTo(nodes[target + 1])
  BY <1>3, MakeMEdges
<1> HIDE DEF edge
<1>5. target + 1 \in Nat /\ target + 1 <= NumQubits
  BY QubitsAssumption
<1> QED BY <1>2, <1>4, <1>5, WrappedGateEdges

\* The nodes of the lower target.
LEMMA LowerBlocksEdges ==
    ASSUME strategy \in Strategies, NEW norm, NEW nodes, Family(M, norm, nodes), Makes(norm),
           NEW low \in Nat, NEW em \in [1..16 -> EdgesTo(nodes[low])], NEW highFirst \in BOOLEAN
    PROVE  CollapsedBy(em, low, highFirst) \in [1..4 -> EdgesTo(nodes[low + 1])]
<1> DEFINE Index(h, l) == IF highFirst THEN 2 * h + l ELSE 2 * l + h
           At(i, j) == 4 * Index(Row(i), Row(j)) + Index(Col(i), Col(j)) + 1
           cs(i) == [j \in 1..M |-> em[At(i, j)]]
<1>1. M = 4
  BY DEF M
<1>2. ASSUME NEW i \in 1..4, NEW j \in 1..4 PROVE At(i, j) \in 1..16
  <2>1. /\ Row(i) \in {0, 1} /\ Col(i) \in {0, 1} /\ Row(j) \in {0, 1} /\ Col(j) \in {0, 1}
    BY <1>1, RowCol
  <2>2. Index(Row(i), Row(j)) \in 0..3 /\ Index(Col(i), Col(j)) \in 0..3
    BY <2>1
  <2> HIDE DEF Index
  <2> QED BY <2>2
<1>3. CollapsedBy(em, low, highFirst) = [i \in 1..4 |-> makeMEdge(low, cs(i))]
  BY <1>1 DEF CollapsedBy
<1> HIDE DEF At
<1>4. \A i \in 1..4 : cs(i) \in [1..4 -> EdgesTo(nodes[low])]
  BY <1>1, <1>2
<1> HIDE DEF cs
<1>5. \A i \in 1..4 : makeMEdge(low, cs(i)) \in EdgesTo(nodes[low + 1])
  BY <1>4, MakeMEdges
<1> QED BY <1>3, <1>5

\* A gate on two qubits, with any controls.
LEMMA TwoQubitGateEdges ==
    ASSUME strategy \in Strategies, NEW norm, NEW nodes, Family(M, norm, nodes), Makes(norm),
           NEW target0 \in Nat, target0 < NumQubits, NEW target1 \in Nat, target1 < NumQubits, target0 # target1,
           NEW matrix \in [1..16 -> Weight], NEW controls
    PROVE  makeControlledTwoQubitGateDD(controls, target0, target1, matrix) \in EdgesTo(nodes[NumQubits])
<1> DEFINE low == Lower(target0, target1)
           high == Higher(target0, target1)
           ts == Terminals(matrix)
           squares == {1, 6, 11, 16}
           corners == {1, 4}
           first == target1 < target0
           grid == Wrapped(ts, squares, controls, 0, low)
           collapsed == LowerBlocks(grid, target0, target1)
           blocks == Wrapped(collapsed, corners, controls, low + 1, high)
           edge == makeMEdge(high, blocks)
<1>1. low \in Nat /\ high \in Nat /\ low + 1 <= high /\ high < NumQubits
  BY DEF Lower, Higher
<1>2. makeControlledTwoQubitGateDD(controls, target0, target1, matrix) = WrappedGate(edge, controls, high + 1)
  BY DEF makeControlledTwoQubitGateDD
<1>3. collapsed = CollapsedBy(grid, low, first) /\ first \in BOOLEAN
  BY DEF LowerBlocks
<1>4. ts \in [1..16 -> EdgesTo(nodes[0])]
  BY TerminalsEdges
<1> HIDE DEF low, high, ts, squares, corners, first
<1>5. grid \in [1..16 -> EdgesTo(nodes[low])]
  <2>1. 0 \in Nat /\ 16 \in Nat /\ 0 <= low
    BY <1>1
  <2> QED BY <1>1, <1>4, <2>1, WrappedEdges
<1> HIDE DEF grid
<1>6. collapsed \in [1..4 -> EdgesTo(nodes[low + 1])]
  BY <1>1, <1>3, <1>5, LowerBlocksEdges
<1> HIDE DEF collapsed
<1>7. blocks \in [1..4 -> EdgesTo(nodes[high])]
  <2>1. low + 1 \in Nat /\ 4 \in Nat
    BY <1>1
  <2> QED BY <1>1, <1>6, <2>1, WrappedEdges
<1> HIDE DEF blocks
<1>8. edge \in EdgesTo(nodes[high + 1])
  BY <1>1, <1>7, MakeMEdges
<1> HIDE DEF edge
<1>9. high + 1 \in Nat /\ high + 1 <= NumQubits
  BY <1>1, QubitsAssumption
<1> QED BY <1>2, <1>8, <1>9, WrappedGateEdges

\* A gate that a builder accepts.
LEMMA GateEdges ==
    ASSUME strategy \in Strategies, NEW norm, NEW nodes, Family(M, norm, nodes), Makes(norm),
           NEW r \in Request, Accepted(r)
    PROVE  Gate(r) \in EdgesTo(nodes[NumQubits])
<1> DEFINE ts == r.targets
           cs == r.controls
           matrix == r.matrix
<1>1. /\ ts \in Seq(Nat)
      /\ \/ Len(ts) = 1 /\ matrix \in [1..4 -> Weight]
         \/ Len(ts) = 2 /\ matrix \in [1..16 -> Weight]
  BY RequestAssumption
<1>2. /\ \A i \in DOMAIN ts : ts[i] < NumQubits
      /\ \A i, j \in DOMAIN ts : i # j => ts[i] # ts[j]
  BY DEF Accepted, TargetsAccepted
<1>3. Gate(r) = IF Len(ts) = 1 THEN makeControlledSingleQubitGateDD(cs, ts[1], matrix)
                ELSE makeControlledTwoQubitGateDD(cs, ts[1], ts[2], matrix)
  BY DEF Gate
<1> HIDE DEF ts, cs, matrix
<1>4. DOMAIN ts = 1..Len(ts) /\ \A i \in DOMAIN ts : ts[i] \in Nat
  <2>1. ts \in Seq(Nat)
    BY <1>1
  <2> QED BY <2>1
<1>5. CASE Len(ts) = 1
  <2> DEFINE t == ts[1]
  <2>1. t \in Nat /\ t < NumQubits /\ matrix \in [1..4 -> Weight]
    <3>1. 1 \in DOMAIN ts /\ ts[1] \in Nat
      BY <1>4, <1>5
    <3>2. matrix \in [1..4 -> Weight]
      BY <1>1, <1>5
    <3> QED BY <1>2, <3>1, <3>2
  <2>2. Gate(r) = makeControlledSingleQubitGateDD(cs, t, matrix)
    BY <1>3, <1>5
  <2> HIDE DEF t
  <2> QED BY <2>1, <2>2, SingleQubitGateEdges
<1>6. CASE Len(ts) = 2
  <2> DEFINE s == ts[1]
             t == ts[2]
  <2>1. s \in Nat /\ s < NumQubits /\ t \in Nat /\ t < NumQubits /\ s # t /\ matrix \in [1..16 -> Weight]
    <3>1. 1 \in DOMAIN ts /\ ts[1] \in Nat /\ 2 \in DOMAIN ts /\ ts[2] \in Nat /\ 1 # 2
      BY <1>4, <1>6
    <3>2. matrix \in [1..16 -> Weight]
      BY <1>1, <1>6
    <3> QED BY <1>2, <3>1, <3>2
  <2>2. Gate(r) = makeControlledTwoQubitGateDD(cs, s, t, matrix)
    BY <1>3, <1>6
  <2> HIDE DEF s, t
  <2> QED BY <2>1, <2>2, TwoQubitGateEdges
<1> QED BY <1>1, <1>5, <1>6

\* The matrix of a gate that has a name.
LEMMA GateMatrix ==
    ASSUME NEW name \in DOMAIN byName
    PROVE  byName[name] \in [1..4 -> Weight]
<1> DEFINE root == conjugate(invSqrt2PlusI)
           offDiag == Multiply(Negate(iUnit), halfSqrt2)
<1>1. One \in Weight /\ iUnit \in Weight /\ Negate(iUnit) \in Weight
  BY ConstantWeights
<1>2. halfSqrt2 \in Weight /\ invSqrt2PlusI \in Weight /\ Negate(halfSqrt2) \in Weight /\ Zero \in Weight
  BY ConstantWeights
<1>3. root \in Weight
  BY <1>2, ConjugateLaws
<1>4. offDiag \in Weight
  BY <1>1, <1>2, WeightLaws
<1>5. Negate(offDiag) \in Weight
  BY <1>4, ConstantWeights
<1>6. omega \in Weight /\ conjugate(omega) \in Weight /\ Negate(One) \in Weight
  BY ConstantWeights, ConjugateLaws
<1> DEFINE bn == byName
<1>7. bn = [i    |-> <<One, Zero, Zero, One>>,
            x    |-> <<Zero, One, One, Zero>>,
            y    |-> <<Zero, Negate(iUnit), iUnit, Zero>>,
            z    |-> <<One, Zero, Zero, Negate(One)>>,
            h    |-> <<halfSqrt2, halfSqrt2, halfSqrt2, Negate(halfSqrt2)>>,
            s    |-> <<One, Zero, Zero, iUnit>>,
            sdg  |-> <<One, Zero, Zero, Negate(iUnit)>>,
            t    |-> <<One, Zero, Zero, omega>>,
            tdg  |-> <<One, Zero, Zero, conjugate(omega)>>,
            v    |-> <<halfSqrt2, offDiag, offDiag, halfSqrt2>>,
            vdg  |-> <<halfSqrt2, Negate(offDiag), Negate(offDiag), halfSqrt2>>,
            sx   |-> <<invSqrt2PlusI, root, root, invSqrt2PlusI>>,
            sxdg |-> <<root, invSqrt2PlusI, invSqrt2PlusI, root>>]
  BY DEF byName
<1> HIDE DEF bn, root, offDiag
<1>8. DOMAIN bn = {"i", "x", "y", "z", "h", "s", "sdg", "t", "tdg", "v", "vdg", "sx", "sxdg"}
  BY <1>7
<1>9. ASSUME NEW b \in {bn.i, bn.x, bn.y, bn.z, bn.h, bn.s, bn.sdg, bn.t, bn.tdg, bn.v, bn.vdg, bn.sx, bn.sxdg}
      PROVE  b \in [1..4 -> Weight]
  BY <1>1, <1>2, <1>3, <1>4, <1>5, <1>6, <1>7
<1>10. bn[name] \in {bn.i, bn.x, bn.y, bn.z, bn.h, bn.s, bn.sdg, bn.t, bn.tdg, bn.v, bn.vdg, bn.sx, bn.sxdg}
  BY <1>8 DEF bn
<1> QED BY <1>9, <1>10 DEF bn

\* A gate on one qubit without controls, applied.
LEMMA AppliedEdges ==
    ASSUME strategy \in Strategies, NEW norm, NEW nodes, Family(V, norm, nodes), Makes(norm),
           NEW target \in Nat, target < NumQubits, NEW matrix \in [1..4 -> Weight],
           NEW e \in EdgesTo(nodes[NumQubits])
    PROVE  multiply(V, makeSingleQubitGateDD(target, matrix), e) \in EdgesTo(nodes[NumQubits])
<1> DEFINE all == Nodes(M, 0)
           none == <<>>
           g == makeControlledSingleQubitGateDD(none, target, matrix)
<1>1. Family(M, "Any", all) /\ Makes("Any")
  BY Families DEF Makes
<1>2. makeSingleQubitGateDD(target, matrix) = g
  BY DEF makeSingleQubitGateDD
<1> HIDE DEF all, none
<1>3. g \in EdgesTo(all[NumQubits])
  BY <1>1, SingleQubitGateEdges
<1> HIDE DEF g
<1>4. NumQubits \in Nat /\ NumQubits <= NumQubits
  BY QubitsAssumption
<1>5. multiply(V, g, e) \in EdgesTo(nodes[NumQubits])
  BY <1>1, <1>3, <1>4, MultiplyEdges
<1> QED BY <1>2, <1>5

\* The state after a measurement.
LEMMA MeasuredEdges ==
    ASSUME strategy \in Strategies, NEW norm, NEW nodes, Family(V, norm, nodes), Makes(norm),
           NEW qubit \in Qubit, NEW outcome \in BOOLEAN, NEW e \in EdgesTo(nodes[NumQubits])
    PROVE  measureOneQubit(e, qubit, outcome).state \in EdgesTo(nodes[NumQubits])
<1>1. Projector(outcome) \in [1..4 -> Weight]
  BY ConstantWeights DEF Projector
<1>2. qubit \in Nat /\ qubit < NumQubits
  BY QubitsAssumption DEF Qubit
<1>3. measureOneQubit(e, qubit, outcome).state = multiply(V, makeSingleQubitGateDD(qubit, Projector(outcome)), e)
  BY DEF measureOneQubit, Measured
<1> QED BY <1>1, <1>2, <1>3, AppliedEdges

\* A random state of one qubit, made one gate after the other.
RandomInSteps(nodes, names) ==
    \E after : /\ \A n \in 0..Len(names) : after[n] = randomStep(0, names, after, n)
               /\ \A n \in 0..Len(names) : after[n] \in EdgesTo(nodes[NumQubits])
               /\ makeRandomSingleQubitState(0, names) = after[Len(names)]

\* makeRandomSingleQubitState makes it so, each of the level of all qubits.
LEMMA RandomSteps ==
    ASSUME strategy \in Strategies, NEW norm, NEW nodes, Family(V, norm, nodes), Makes(norm),
           NEW names \in Seq(DOMAIN byName), NumQubits > 0
    PROVE  RandomInSteps(nodes, names)
<1> DEFINE hi == Len(names)
           Target == EdgesTo(nodes[NumQubits])
           Good == [n \in 0..hi |-> Target]
           Next1(n, s) == randomStep(0, names, [i \in {n - 1} |-> s], n)
           step == [ns \in (0..hi) \X Target |-> Next1(ns[1], ns[2])]
           base == makeBasisState(<<"Zero">>, 0)
<1>1. hi \in Nat /\ \A n \in 1..hi : names[n] \in DOMAIN byName
  OBVIOUS
<1>2. \A n \in 0..hi : Good[n] = Target
  OBVIOUS
<1>3. \A n \in 0..hi : \A s \in Target : step[<<n, s>>] = Next1(n, s)
  <2> HIDE DEF Next1, Target
  <2> QED OBVIOUS
<1>4. base \in Target
  <2> DEFINE st == <<"Zero">>
  <2>1. st \in Seq(BasisState) /\ Len(st) = 1 /\ 0 \in Nat /\ NumQubits \in Nat
    BY QubitsAssumption DEF BasisState
  <2>2. base = makeBasisState(st, 0)
    OBVIOUS
  <2> HIDE DEF st
  <2>3. makeBasisState(st, 0) \in EdgesTo(nodes[0 + Len(st)])
    BY <2>1, BasisEdges
  <2>4. makeBasisState(st, 0) \in EdgesTo(nodes[1])
    BY <2>1, <2>3
  <2>5. EdgesTo(nodes[1]) \subseteq EdgesTo(nodes[NumQubits])
    BY <2>1, HigherEdges
  <2> QED BY <2>2, <2>4, <2>5
<1> HIDE DEF hi, Good, step, base
<1>5. ASSUME NEW f, NEW n \in 0..hi, n # 0 => f[n - 1] \in Target
      PROVE  randomStep(0, names, f, n) \in Target
  <2>1. CASE n = 0
    BY <1>4, <2>1 DEF randomStep, base
  <2>2. CASE n # 0
    <3> DEFINE matrix == byName[names[n]]
               e == f[n - 1]
    <3>1. n \in 1..hi
      BY <1>1, <2>2
    <3>2. matrix \in [1..4 -> Weight]
      BY <1>1, <3>1, GateMatrix
    <3>3. randomStep(0, names, f, n) = multiply(V, makeSingleQubitGateDD(0, matrix), e)
      BY <2>2 DEF randomStep
    <3>4. e \in Target /\ 0 \in Nat /\ 0 < NumQubits
      BY <1>5, <2>2
    <3> HIDE DEF matrix, e
    <3> QED BY <3>2, <3>3, <3>4, AppliedEdges
  <2> QED BY <2>1, <2>2
<1> HIDE DEF Target
<1>6. ASSUME NEW f, NEW g, NEW n \in 0..hi, n # 0 => f[n - 1] = g[n - 1]
      PROVE  randomStep(0, names, f, n) = randomStep(0, names, g, n)
  BY <1>6 DEF randomStep
<1>7. CountsUp(0, hi, Good, base, step)
  <2>1. base \in Good[0]
    BY <1>1, <1>2, <1>4
  <2>2. ASSUME NEW n \in 0..hi, n # 0, NEW s \in Good[n - 1] PROVE step[<<n, s>>] \in Good[n]
    <3> DEFINE f == [i \in {n - 1} |-> s]
    <3>1. f[n - 1] = s
      OBVIOUS
    <3>2. Next1(n, s) = randomStep(0, names, f, n)
      OBVIOUS
    <3>3. n - 1 \in 0..hi
      BY <1>1, <2>2
    <3>4. s \in Target
      BY <1>2, <3>3
    <3> HIDE DEF f
    <3>5. randomStep(0, names, f, n) \in Target
      BY <1>5, <3>1, <3>4
    <3> HIDE DEF Next1
    <3>6. step[<<n, s>>] = Next1(n, s)
      BY <1>3, <3>4
    <3> QED BY <1>2, <3>2, <3>5, <3>6
  <2> QED BY <1>1, <2>1, <2>2 DEF CountsUp
<1>8. PICK f : /\ f = [n \in 0..hi |-> f[n]]
               /\ \A n \in 0..hi : f[n] \in Good[n] /\ f[n] = IF n = 0 THEN base ELSE step[<<n, f[n - 1]>>]
  BY <1>7, CountUp
<1>9. ASSUME NEW n \in 0..hi PROVE f[n] = randomStep(0, names, f, n)
  <2>1. CASE n = 0
    BY <1>8, <2>1 DEF randomStep, base
  <2>2. CASE n # 0
    <3> DEFINE g == [i \in {n - 1} |-> f[n - 1]]
    <3>1. g[n - 1] = f[n - 1]
      OBVIOUS
    <3>2. Next1(n, f[n - 1]) = randomStep(0, names, g, n)
      OBVIOUS
    <3> HIDE DEF g, Next1
    <3>3. n - 1 \in 0..hi
      BY <1>1, <2>2
    <3>4. f[n - 1] \in Target
      BY <1>2, <1>8, <3>3
    <3>5. f[n] = Next1(n, f[n - 1])
      BY <1>3, <1>8, <2>2, <3>4
    <3> QED BY <1>6, <3>1, <3>2, <3>5
  <2> QED BY <2>1, <2>2
<1>10. f = [n \in 0..hi |-> randomStep(0, names, f, n)]
  BY <1>8, <1>9
<1> DEFINE after == CHOOSE g : g = [n \in 0..hi |-> randomStep(0, names, g, n)]
<1>11. after = [n \in 0..hi |-> randomStep(0, names, after, n)]
  BY <1>10
<1>12. makeRandomSingleQubitState(0, names) = after[hi]
  BY DEF makeRandomSingleQubitState, hi
<1> HIDE DEF after
<1> DEFINE S == {n \in 0..hi : after[n] \in Target}
<1>13. 0 \in S
  BY <1>1, <1>5, <1>11
<1>14. ASSUME NEW n \in 0..hi, n # 0, n - 1 \in S PROVE n \in S
  BY <1>5, <1>11, <1>14
<1>15. 0..hi \subseteq S
  <2> HIDE DEF S
  <2>1. 0 \in Nat /\ 0 <= hi /\ \A n \in 0..hi : n # 0 /\ n - 1 \in S => n \in S
    BY <1>1, <1>14
  <2> QED BY <1>1, <1>13, <2>1, CountInduction
<1>16. \A n \in 0..hi : after[n] \in EdgesTo(nodes[NumQubits])
  BY <1>15 DEF Target
<1>17. \A n \in 0..hi : after[n] = randomStep(0, names, after, n)
  BY <1>11
<1> QED BY <1>12, <1>16, <1>17 DEF hi, RandomInSteps

\* It is an edge for all qubits.
LEMMA RandomEdges ==
    ASSUME strategy \in Strategies, NEW norm, NEW nodes, Family(V, norm, nodes), Makes(norm),
           NEW names \in Seq(DOMAIN byName), NumQubits > 0
    PROVE  makeRandomSingleQubitState(0, names) \in EdgesTo(nodes[NumQubits])
<1> DEFINE hi == Len(names)
<1>1. PICK after : /\ \A n \in 0..hi : after[n] \in EdgesTo(nodes[NumQubits])
                   /\ makeRandomSingleQubitState(0, names) = after[hi]
  <2>1. RandomInSteps(nodes, names)
    BY RandomSteps
  <2> QED BY <2>1 DEF RandomInSteps
<1>2. hi \in 0..hi
  OBVIOUS
<1> QED BY <1>1, <1>2

(***************************************************************************)
(* The inductive invariant of AlwaysReduced: the edges that the client     *)
(* holds are reduced under the strategy that the package was constructed   *)
(* with, and u, v and a are what they represent.                           *)
(***************************************************************************)
IInv ==
    /\ strategy \in Strategies
    /\ AlwaysReduced
    /\ u = Vector(x) /\ v = Vector(y) /\ a = Matrix(m)

\* The reduced nodes are a family, and so are all nodes.
LEMMA ReducedFamily ==
    ASSUME strategy \in Strategies, NEW arity \in {V, M}
    PROVE  /\ Family(arity, strategy, ReducedNodes(arity, strategy)) /\ Makes(strategy)
           /\ Family(arity, "Any", Nodes(arity, 0)) /\ Makes("Any")
           /\ NumQubits \in Nat /\ NumQubits <= NumQubits
BY Families, QubitsAssumption DEF Strategies, Makes

\* The edges to begin with.
LEMMA InitReduced == Init => IInv
<1> SUFFICES ASSUME Init PROVE IInv
  OBVIOUS
<1>1. strategy \in Strategies
  BY StrategyAssumption DEF Init, Strategies
<1> DEFINE nodesV == ReducedNodes(V, strategy)
           nodesM == ReducedNodes(M, strategy)
<1>2. Family(V, strategy, nodesV) /\ Family(M, strategy, nodesM) /\ Makes(strategy) /\ NumQubits \in Nat
  BY <1>1, ReducedFamily
<1> HIDE DEF nodesV, nodesM
<1>3. ASSUME NEW b \in BasisInput PROVE makeBasisState(b.state, b.start) \in EdgesTo(nodesV[NumQubits])
  <2> DEFINE st == b.state
             start == b.start
             top == start + Len(st)
  <2>1. st \in Seq(BasisState) /\ start \in Nat /\ top <= NumQubits
    BY BasisAssumption
  <2> HIDE DEF st, start
  <2>2. top \in Nat
    BY <2>1
  <2>3. makeBasisState(st, start) \in EdgesTo(nodesV[top])
    BY <1>1, <1>2, <2>1, BasisEdges
  <2> HIDE DEF top
  <2>4. EdgesTo(nodesV[top]) \subseteq EdgesTo(nodesV[NumQubits])
    BY <1>2, <2>1, <2>2, HigherEdges
  <2> QED BY <2>3, <2>4 DEF st, start
<1>4. ASSUME NEW amps \in VectorInput PROVE makeStateFromVector(amps) \in EdgesTo(nodesV[NumQubits])
  <2>1. amps \in [1..Pow2[NumQubits] -> Weight]
    BY VectorAssumption
  <2> QED BY <1>1, <1>2, <2>1, VectorEdges
<1>5. ASSUME NEW names \in RandomInput PROVE makeRandomSingleQubitState(0, names) \in EdgesTo(nodesV[NumQubits])
  <2>1. names \in Seq(DOMAIN byName) /\ NumQubits > 0
    BY RandomAssumption
  <2> QED BY <1>1, <1>2, <2>1, RandomEdges
<1>6. ASSUME NEW matrix \in MatrixInput PROVE makeDDFromMatrix(matrix) \in EdgesTo(nodesM[NumQubits])
  <2>1. matrix \in SquareMatrix
    BY MatrixAssumption DEF SquareMatrix
  <2> QED BY <1>1, <1>2, <2>1, MatrixEdges
<1>7. x \in EdgesTo(nodesV[NumQubits])
  BY <1>3, <1>4 DEF Init
<1>8. y \in EdgesTo(nodesV[NumQubits])
  BY <1>5 DEF Init
<1>9. m \in EdgesTo(nodesM[NumQubits])
  BY <1>6 DEF Init
<1>10. u = Vector(x) /\ v = Vector(y) /\ a = Matrix(m)
  BY DEF Init
<1> QED BY <1>1, <1>7, <1>8, <1>9, <1>10 DEF IInv, AlwaysReduced, ReducedEdge, nodesV, nodesM

\* A vector edge replaced by a reduced one.
LEMMA VectorReplaced ==
    ASSUME IInv, NEW o, NEW edge \in ReducedEdge(V, strategy), VectorBecomes(o, edge)
    PROVE  IInv'
<1>1. strategy' = strategy /\ x' = edge /\ y' = y /\ m' = m /\ u' = Vector(edge) /\ v' = v /\ a' = a
  BY DEF VectorBecomes, Step
<1>2. x' \in ReducedEdge(V, strategy)' /\ y' \in ReducedEdge(V, strategy)' /\ m' \in ReducedEdge(M, strategy)'
  BY <1>1 DEF IInv, AlwaysReduced, ReducedEdge, ReducedNodes, EdgesTo, NodesOver, Kept
<1> QED BY <1>1, <1>2 DEF IInv, AlwaysReduced

\* The matrix edge replaced by a reduced one.
LEMMA MatrixReplaced ==
    ASSUME IInv, NEW o, NEW edge \in ReducedEdge(M, strategy), MatrixBecomes(o, edge)
    PROVE  IInv'
<1>1. strategy' = strategy /\ m' = edge /\ y' = y /\ x' = x /\ a' = Matrix(edge) /\ v' = v /\ u' = u
  BY DEF MatrixBecomes, Step
<1>2. x' \in ReducedEdge(V, strategy)' /\ y' \in ReducedEdge(V, strategy)' /\ m' \in ReducedEdge(M, strategy)'
  BY <1>1 DEF IInv, AlwaysReduced, ReducedEdge, ReducedNodes, EdgesTo, NodesOver, Kept
<1> QED BY <1>1, <1>2 DEF IInv, AlwaysReduced

\* What the client's edges are, and what can be multiplied by them.
LEMMA ReducedFacts ==
    ASSUME IInv
    PROVE  /\ strategy \in Strategies /\ NumQubits \in Nat /\ NumQubits <= NumQubits
           /\ Family(V, strategy, ReducedNodes(V, strategy)) /\ Family(M, strategy, ReducedNodes(M, strategy))
           /\ Makes(strategy)
           /\ x \in EdgesTo(ReducedNodes(V, strategy)[NumQubits]) /\ y \in EdgesTo(ReducedNodes(V, strategy)[NumQubits])
           /\ m \in EdgesTo(ReducedNodes(M, strategy)[NumQubits])
           /\ x \in Edge(V) /\ y \in Edge(V) /\ m \in Edge(M)
<1> DEFINE nodesV == ReducedNodes(V, strategy)
           nodesM == ReducedNodes(M, strategy)
<1>1. strategy \in Strategies
  BY DEF IInv
<1>2. Family(V, strategy, nodesV) /\ Family(M, strategy, nodesM) /\ Makes(strategy) /\ NumQubits \in Nat
  BY <1>1, ReducedFamily
<1>3. x \in EdgesTo(nodesV[NumQubits]) /\ y \in EdgesTo(nodesV[NumQubits]) /\ m \in EdgesTo(nodesM[NumQubits])
  BY DEF IInv, AlwaysReduced, ReducedEdge
<1> HIDE DEF nodesV, nodesM
<1>4. EdgesTo(nodesV[NumQubits]) \subseteq Edge(V)
  BY <1>2, FamilyInNodes DEF Edge
<1>5. EdgesTo(nodesM[NumQubits]) \subseteq Edge(M)
  BY <1>2, FamilyInNodes DEF Edge
<1> QED BY <1>1, <1>2, <1>3, <1>4, <1>5 DEF nodesV, nodesM

\* Each operation on vectors returns a reduced edge.
LEMMA VectorOperations ==
    ASSUME IInv
    PROVE  /\ add(x, y) \in ReducedEdge(V, strategy)
           /\ multiply(V, m, x) \in ReducedEdge(V, strategy)
           /\ \A g \in ReducedEdge(M, strategy) : multiply(V, g, x) \in ReducedEdge(V, strategy)
           /\ \A qubit \in Qubit, outcome \in BOOLEAN :
                 measureOneQubit(x, qubit, outcome).state \in ReducedEdge(V, strategy)
<1> DEFINE nodesV == ReducedNodes(V, strategy)
           nodesM == ReducedNodes(M, strategy)
<1>1. /\ strategy \in Strategies /\ NumQubits \in Nat /\ NumQubits <= NumQubits
      /\ Family(V, strategy, nodesV) /\ Family(M, strategy, nodesM) /\ Makes(strategy)
      /\ x \in EdgesTo(nodesV[NumQubits]) /\ y \in EdgesTo(nodesV[NumQubits]) /\ m \in EdgesTo(nodesM[NumQubits])
  BY ReducedFacts
<1>2. ReducedEdge(V, strategy) = EdgesTo(nodesV[NumQubits]) /\ ReducedEdge(M, strategy) = EdgesTo(nodesM[NumQubits])
  BY DEF ReducedEdge
<1> HIDE DEF nodesV, nodesM
<1>3. add(x, y) \in EdgesTo(nodesV[NumQubits])
  BY <1>1, AddEdges DEF add
<1>4. ASSUME NEW g \in EdgesTo(nodesM[NumQubits]) PROVE multiply(V, g, x) \in EdgesTo(nodesV[NumQubits])
  BY <1>1, MultiplyEdges
<1>5. ASSUME NEW qubit \in Qubit, NEW outcome \in BOOLEAN
      PROVE  measureOneQubit(x, qubit, outcome).state \in EdgesTo(nodesV[NumQubits])
  BY <1>1, MeasuredEdges
<1> QED BY <1>1, <1>2, <1>3, <1>4, <1>5

\* Each operation on matrices returns a reduced edge.
LEMMA MatrixOperations ==
    ASSUME IInv
    PROVE  /\ outerProduct(x, y) \in ReducedEdge(M, strategy)
           /\ \A r \in Request : Accepted(r) => Gate(r) \in ReducedEdge(M, strategy)
           /\ \A g \in ReducedEdge(M, strategy) : multiply(M, g, m) \in ReducedEdge(M, strategy)
<1> DEFINE nodesM == ReducedNodes(M, strategy)
<1>1. /\ strategy \in Strategies /\ NumQubits \in Nat /\ NumQubits <= NumQubits
      /\ Family(M, strategy, nodesM) /\ Makes(strategy)
      /\ x \in Edge(V) /\ y \in Edge(V) /\ m \in EdgesTo(nodesM[NumQubits])
  BY ReducedFacts
<1>2. ReducedEdge(M, strategy) = EdgesTo(nodesM[NumQubits])
  BY DEF ReducedEdge
<1> HIDE DEF nodesM
<1>3. outerProduct(x, y) \in EdgesTo(nodesM[NumQubits])
  BY <1>1, OuterEdges
<1>4. ASSUME NEW g \in EdgesTo(nodesM[NumQubits]) PROVE multiply(M, g, m) \in EdgesTo(nodesM[NumQubits])
  BY <1>1, MultiplyEdges
<1>5. ASSUME NEW r \in Request, Accepted(r) PROVE Gate(r) \in EdgesTo(nodesM[NumQubits])
  BY <1>1, <1>5, GateEdges
<1> QED BY <1>2, <1>3, <1>4, <1>5

\* kronecker of edges that fit.
LEMMA KroneckerReduced ==
    ASSUME strategy \in Strategies, NEW arity \in {V, M}, NEW k \in 1..NumQubits - 1, NEW incIdx \in BOOLEAN,
           NEW d \in ReducedEdge(arity, strategy), NEW e \in ReducedEdge(arity, strategy),
           topVar(e.p) < k, kroneckerFits(d, k, incIdx),
           incIdx \/ d.p \in Nodes(arity, k)[NumQubits]
    PROVE  kronecker(arity, d, e, k, incIdx) \in ReducedEdge(arity, strategy)
<1> DEFINE nodes == ReducedNodes(arity, strategy)
           shift == Shift(k, incIdx)
<1>1. Family(arity, strategy, nodes) /\ Makes(strategy) /\ NumQubits \in Nat
  BY ReducedFamily
<1>2. ReducedEdge(arity, strategy) = EdgesTo(nodes[NumQubits])
  BY DEF ReducedEdge
<1>3. k \in Nat /\ k <= NumQubits
  BY <1>1
<1>4. shift \in {0, k} /\ k - shift \in Nat /\ (~incIdx => shift = 0) /\ (incIdx => k - shift = 0)
  BY <1>3 DEF Shift
<1>5. topVar(d.p) + 1 + shift <= NumQubits
  BY DEF kroneckerFits
<1>6. kronecker(arity, d, e, k, incIdx) = kroneckerRec(arity, e, k, shift)[d]
  BY DEF kronecker
<1> HIDE DEF nodes, shift
<1>7. d \in EdgesTo(nodes[NumQubits]) /\ e \in EdgesTo(nodes[NumQubits])
  BY <1>2
<1>8. e \in EdgesTo(nodes[k])
  <2>1. Height(e) \in Nat /\ Height(e) <= k /\ e \in EdgesTo(nodes[Height(e)])
    <3>1. Height(e) \in Nat /\ e.p.var = Height(e) - 1 /\ e.p.var \in Int /\ e \in EdgesTo(nodes[Height(e)])
      BY <1>1, <1>7, HeightFacts
    <3> QED BY <1>3, <3>1 DEF topVar
  <2> DEFINE h == Height(e)
  <2> HIDE DEF h
  <2>2. h \in Nat /\ h <= k /\ e \in EdgesTo(nodes[h])
    BY <2>1 DEF h
  <2> QED BY <1>1, <1>3, <2>2, HigherEdges
<1>9. d \in EdgesTo(Nodes(arity, k - shift)[NumQubits])
  <2>1. d \in EdgesTo(Nodes(arity, 0)[NumQubits])
    BY <1>1, <1>7, FamilyInNodes
  <2>2. CASE incIdx
    BY <1>4, <2>1, <2>2
  <2>3. CASE ~incIdx
    <3>1. k - shift = k /\ d.p \in Nodes(arity, k)[NumQubits]
      BY <1>3, <1>4, <2>3
    <3> QED BY <2>1, <3>1 DEF EdgesTo
  <2> QED BY <2>2, <2>3
<1>10. kroneckerRec(arity, e, k, shift)[d] \in EdgesTo(nodes[Grafted(d, k, shift)])
  BY <1>1, <1>3, <1>4, <1>8, <1>9, KroneckerEdges
<1> DEFINE top == Grafted(d, k, shift)
<1>11. top \in Nat /\ top <= NumQubits
  <2>1. Height(d) \in Nat /\ d.p.var \in Int /\ d.p.var = Height(d) - 1
    BY <1>1, <1>7, HeightFacts
  <2> QED BY <1>1, <1>3, <1>4, <1>5, <2>1 DEF Grafted, topVar
<1> HIDE DEF top
<1>12. EdgesTo(nodes[top]) \subseteq EdgesTo(nodes[NumQubits])
  BY <1>1, <1>11, HigherEdges
<1> QED BY <1>2, <1>6, <1>10, <1>12 DEF top

\* A step of the client keeps its edges reduced.
LEMMA NextReduced == IInv /\ [Next]_vars => IInv'
<1> SUFFICES ASSUME IInv, [Next]_vars PROVE IInv'
  OBVIOUS
<1>1. CASE addVectors
  BY <1>1, VectorOperations, VectorReplaced DEF addVectors
<1>2. CASE applyMatrix
  BY <1>2, VectorOperations, VectorReplaced DEF applyMatrix
<1>3. CASE outer
  BY <1>3, MatrixOperations, MatrixReplaced DEF outer
<1>4. CASE swap
  <2>1. strategy' = strategy /\ x' = y /\ y' = x /\ m' = m /\ u' = v /\ v' = u /\ a' = a
    BY <1>4 DEF swap, Step
  <2>2. x' \in ReducedEdge(V, strategy)' /\ y' \in ReducedEdge(V, strategy)' /\ m' \in ReducedEdge(M, strategy)'
    BY <2>1 DEF IInv, AlwaysReduced, ReducedEdge, ReducedNodes, EdgesTo, NodesOver, Kept
  <2> QED BY <2>1, <2>2 DEF IInv, AlwaysReduced
<1>5. ASSUME NEW qubit \in Qubit, NEW outcome \in BOOLEAN, measure(qubit, outcome) PROVE IInv'
  BY <1>5, VectorOperations, VectorReplaced DEF measure
<1>6. ASSUME NEW k \in 1..NumQubits - 1, kroneckerVectors(k) PROVE IInv'
  <2>1. topVar(y.p) < k /\ kroneckerFits(x, k, TRUE) /\ VectorBecomes(<<"kronecker", k>>, kronecker(V, x, y, k, TRUE))
    BY <1>6 DEF kroneckerVectors
  <2>2. strategy \in Strategies /\ x \in ReducedEdge(V, strategy) /\ y \in ReducedEdge(V, strategy)
    BY DEF IInv, AlwaysReduced
  <2>3. kronecker(V, x, y, k, TRUE) \in ReducedEdge(V, strategy)
    BY <2>1, <2>2, KroneckerReduced
  <2> QED BY <2>1, <2>3, VectorReplaced
<1>7. ASSUME NEW k \in 1..NumQubits - 1, kroneckerInPlace(k) PROVE IInv'
  <2>1. /\ topVar(y.p) < k /\ kroneckerFits(x, k, FALSE) /\ x.p \in Nodes(V, k)[NumQubits]
        /\ VectorBecomes(<<"kroneckerInPlace">>, kronecker(V, x, y, k, FALSE))
    BY <1>7 DEF kroneckerInPlace
  <2>2. strategy \in Strategies /\ x \in ReducedEdge(V, strategy) /\ y \in ReducedEdge(V, strategy)
    BY DEF IInv, AlwaysReduced
  <2>3. kronecker(V, x, y, k, FALSE) \in ReducedEdge(V, strategy)
    BY <2>1, <2>2, KroneckerReduced
  <2> QED BY <2>1, <2>3, VectorReplaced
<1>8. ASSUME NEW r \in Request, Accepted(r), NEW g \in {Gate(r)} PROVE g \in ReducedEdge(M, strategy)
  BY <1>8, MatrixOperations
<1>9. ASSUME NEW r \in Request, Accepted(r), NEW g \in {Gate(r)}, applyGate(r, g) PROVE IInv'
  BY <1>8, <1>9, VectorOperations, VectorReplaced DEF applyGate
<1>10. ASSUME NEW r \in Request, Accepted(r), NEW g \in {Gate(r)}, makeGate(r, g) PROVE IInv'
  BY <1>8, <1>10, MatrixReplaced DEF makeGate
<1>11. ASSUME NEW r \in Request, Accepted(r), NEW g \in {Gate(r)}, multiplyMatrices(r, g) PROVE IInv'
  BY <1>8, <1>11, MatrixOperations, MatrixReplaced DEF multiplyMatrices
<1>12. ASSUME NEW r \in Request, Accepted(r), NEW g \in {Gate(r)}, NEW k \in 1..NumQubits - 1, kroneckerMatrices(r, g, k)
       PROVE  IInv'
  <2>1. /\ topVar(g.p) < k /\ kroneckerFits(m, k, TRUE)
        /\ MatrixBecomes(<<"kroneckerMatrices", r, k>>, kronecker(M, m, g, k, TRUE))
    BY <1>12 DEF kroneckerMatrices
  <2>2. strategy \in Strategies /\ m \in ReducedEdge(M, strategy) /\ g \in ReducedEdge(M, strategy)
    BY <1>8, <1>12 DEF IInv, AlwaysReduced
  <2>3. kronecker(M, m, g, k, TRUE) \in ReducedEdge(M, strategy)
    BY <2>1, <2>2, KroneckerReduced
  <2> QED BY <2>1, <2>3, MatrixReplaced
<1>13. CASE UNCHANGED vars
  <2>1. strategy' = strategy /\ x' = x /\ y' = y /\ m' = m /\ u' = u /\ v' = v /\ a' = a
    BY <1>13 DEF vars
  <2>2. x' \in ReducedEdge(V, strategy)' /\ y' \in ReducedEdge(V, strategy)' /\ m' \in ReducedEdge(M, strategy)'
    BY <2>1 DEF IInv, AlwaysReduced, ReducedEdge, ReducedNodes, EdgesTo, NodesOver, Kept
  <2> QED BY <2>1, <2>2 DEF IInv, AlwaysReduced
<1> QED
  BY <1>1, <1>2, <1>3, <1>4, <1>5, <1>6, <1>7, <1>9, <1>10, <1>11, <1>12, <1>13 DEF Next, finished

(***************************************************************************)
(* The client's edges are reduced in every state: whatever operations were *)
(* called, in whatever order, under each of the strategies.                *)
(***************************************************************************)
THEOREM EdgesAlwaysReduced == Spec => []AlwaysReduced
<1>1. IInv => AlwaysReduced
  BY DEF IInv
<1> QED BY InitReduced, NextReduced, <1>1, PTL DEF Spec

\* A bit of an index is 0 or 1.
LEMMA BitType ==
    ASSUME NEW i \in Nat, NEW n \in Nat
    PROVE  Bit(i, n) \in {0, 1} /\ Bit(i, n) + 1 \in 1..V
<1> DEFINE q == i \div Pow2[n]
<1>1. Pow2[n] \in Nat \ {0}
  BY Pow2Def
<1>2. q \in Int
  BY <1>1, Division
<1>3. Bit(i, n) = q % 2
  BY DEF Bit
<1> HIDE DEF q
<1> QED BY <1>2, <1>3 DEF V

\* What amplitude reads of an edge is the amplitude of a child.
AmplitudeCall(e, i, l) == <<vChildrenAt(e.p, l - 1)[Bit(i, l - 1) + 1], i, l - 1>>

\* One call of amplitude.
LEMMA AmplitudeStepAt ==
    ASSUME NEW f, NEW e, NEW i, NEW l
    PROVE  amplitudeStep(f, e, i, l) = IF l = 0 THEN e.w ELSE Multiply(e.w, f[AmplitudeCall(e, i, l)])
BY DEF amplitudeStep, AmplitudeCall

\* A call is for an edge of the level below.
LEMMA AmplitudeCallType ==
    ASSUME NEW e \in Edge(V), NEW i \in Nat, NEW l \in Nat, l > 0, l <= NumQubits
    PROVE  LET c == AmplitudeCall(e, i, l)
           IN  c \in Edge(V) \X Nat \X (0..NumQubits) /\ c[3] = l - 1
<1> DEFINE k == l - 1
<1>1. k \in Nat /\ k \in 0..NumQubits
  BY QubitsAssumption
<1>2. AmplitudeCall(e, i, l) = <<vChildrenAt(e.p, k)[Bit(i, k) + 1], i, k>>
  BY DEF AmplitudeCall
<1> HIDE DEF k
<1>3. vChildrenAt(e.p, k) \in [1..V -> Edge(V)]
  BY <1>1, AnyChildren
<1>4. vChildrenAt(e.p, k)[Bit(i, k) + 1] \in Edge(V)
  BY <1>1, <1>3, BitType
<1> QED BY <1>1, <1>2, <1>4 DEF k

\* amplitude is the function that its calls define.
LEMMA AmplitudeEquation ==
    ASSUME NEW e \in Edge(V), NEW i \in Nat, NEW l \in 0..NumQubits
    PROVE  amplitudeRec[<<e, i, l>>] = IF l = 0 THEN e.w ELSE Multiply(e.w, amplitudeRec[AmplitudeCall(e, i, l)])
<1> DEFINE D == Edge(V) \X Nat \X (0..NumQubits)
           mu == [at \in D |-> at[3]]
           Good == [at \in D |-> Weight]
           G == Selections(D, Good)
           comb == [ag \in D \X G |-> amplitudeStep(ag[2], ag[1][1], ag[1][2], ag[1][3])]
<1>1. NumQubits \in Nat
  BY QubitsAssumption
<1>2. D = Edge(V) \X Nat \X (0..NumQubits)
  OBVIOUS
<1>3. \A g \in G : \A at \in D : comb[<<at, g>>] = amplitudeStep(g, at[1], at[2], at[3])
  <2> HIDE DEF D, G
  <2> QED OBVIOUS
<1>4. \A at \in D : mu[at] = at[3] /\ Good[at] = Weight
  OBVIOUS
<1>5. mu = [at \in D |-> mu[at]]
  OBVIOUS
<1>6. \A g \in G : g = [at \in D |-> g[at]] /\ \A at \in D : g[at] \in Weight
  <2>1. \A at \in D : Good[at] = Weight
    OBVIOUS
  <2> HIDE DEF D, Good
  <2> QED BY <2>1 DEF Selections
<1> HIDE DEF D, mu, Good, G, comb
<1>7. ASSUME NEW at \in D
      PROVE  /\ at = <<at[1], at[2], at[3]>> /\ at[1] \in Edge(V) /\ at[2] \in Nat /\ at[3] \in 0..NumQubits
             /\ at[3] \in Nat /\ at[3] <= NumQubits /\ at[1].w \in Weight
  <2>1. at[1] \in Edge(V)
    BY <1>2
  <2>2. at[1].w \in Weight
    BY <2>1 DEF Edge, EdgesTo
  <2> QED BY <1>1, <1>2, <2>2
<1>8. mu \in [D -> Nat]
  BY <1>4, <1>5, <1>7
<1>9. ASSUME NEW at \in D, at[3] # 0
      PROVE  LET c == AmplitudeCall(at[1], at[2], at[3]) IN c \in D /\ mu[c] < mu[at]
  <2> DEFINE c == AmplitudeCall(at[1], at[2], at[3])
  <2>1. at[3] > 0
    BY <1>7, <1>9
  <2>2. c \in D /\ c[3] = at[3] - 1
    BY <1>2, <1>7, <2>1, AmplitudeCallType
  <2> HIDE DEF c
  <2>3. mu[c] < mu[at]
    BY <1>4, <1>7, <2>2
  <2> QED BY <2>2, <2>3 DEF c
<1>10. ASSUME NEW at \in D, NEW g \in G PROVE amplitudeStep(g, at[1], at[2], at[3]) \in Weight
  <2> DEFINE c == AmplitudeCall(at[1], at[2], at[3])
  <2>1. amplitudeStep(g, at[1], at[2], at[3]) = IF at[3] = 0 THEN at[1].w ELSE Multiply(at[1].w, g[c])
    BY AmplitudeStepAt
  <2>2. at[3] # 0 => g[c] \in Weight
    BY <1>6, <1>9
  <2> DEFINE w == at[1].w
  <2>3. w \in Weight
    BY <1>7
  <2> HIDE DEF c, w
  <2>4. CASE at[3] = 0
    BY <2>1, <2>3, <2>4 DEF w
  <2>5. CASE at[3] # 0
    <3>1. Multiply(w, g[c]) \in Weight
      BY <2>2, <2>3, <2>5, WeightClosure
    <3> QED BY <2>1, <2>5, <3>1 DEF w
  <2> QED BY <2>4, <2>5
<1>11. WellFounded(D, mu, Good, comb)
  <2>1. \A at \in D : Good[at] # {}
    BY <1>4, WeightLaws
  <2>2. \A at \in D : \A g \in G : comb[<<at, g>>] \in Good[at]
    BY <1>3, <1>4, <1>10
  <2>3. ASSUME NEW at \in D, NEW g \in G, NEW h \in G, \A c \in D : mu[c] < mu[at] => g[c] = h[c]
        PROVE  comb[<<at, g>>] = comb[<<at, h>>]
    <3> DEFINE c == AmplitudeCall(at[1], at[2], at[3])
    <3>1. at[3] # 0 => g[c] = h[c]
      BY <1>9, <2>3
    <3>2. amplitudeStep(g, at[1], at[2], at[3]) = IF at[3] = 0 THEN at[1].w ELSE Multiply(at[1].w, g[c])
      BY AmplitudeStepAt
    <3>3. amplitudeStep(h, at[1], at[2], at[3]) = IF at[3] = 0 THEN at[1].w ELSE Multiply(at[1].w, h[c])
      BY AmplitudeStepAt
    <3> HIDE DEF c
    <3> QED BY <1>3, <3>1, <3>2, <3>3
  <2> QED BY <1>8, <2>1, <2>2, <2>3 DEF WellFounded, G
<1>12. PICK f \in G : \A at \in D : f[at] = comb[<<at, f>>]
  BY <1>11, RecursionExists DEF G
<1>13. f = [at \in D |-> amplitudeStep(f, at[1], at[2], at[3])]
  BY <1>3, <1>6, <1>12
<1>14. amplitudeRec = [at \in D |-> amplitudeStep(amplitudeRec, at[1], at[2], at[3])]
  BY <1>13 DEF amplitudeRec, D
<1>15. amplitudeRec[<<e, i, l>>] = amplitudeStep(amplitudeRec, e, i, l)
  BY <1>2, <1>14
<1> QED BY <1>15, AmplitudeStepAt

\* Amplitudes are weights.
LEMMA AmplitudeType ==
    ASSUME NEW e \in Edge(V), NEW i \in Nat, NEW l \in 0..NumQubits
    PROVE  amplitudeRec[<<e, i, l>>] \in Weight
<1> DEFINE S == {n \in Nat : n <= NumQubits => \A d \in Edge(V), j \in Nat : amplitudeRec[<<d, j, n>>] \in Weight}
<1>1. NumQubits \in Nat
  BY QubitsAssumption
<1>2. ASSUME NEW n \in Nat, n <= NumQubits, NEW d \in Edge(V), NEW j \in Nat, n > 0 => n - 1 \in S
      PROVE  amplitudeRec[<<d, j, n>>] \in Weight
  <2>1. d.w \in Weight /\ n \in 0..NumQubits
    BY <1>1, <1>2 DEF Edge, EdgesTo
  <2>2. amplitudeRec[<<d, j, n>>] = IF n = 0 THEN d.w ELSE Multiply(d.w, amplitudeRec[AmplitudeCall(d, j, n)])
    BY <2>1, AmplitudeEquation
  <2>3. ASSUME n > 0 PROVE amplitudeRec[AmplitudeCall(d, j, n)] \in Weight
    <3> DEFINE c == AmplitudeCall(d, j, n)
    <3>1. c \in Edge(V) \X Nat \X (0..NumQubits) /\ c[3] = n - 1
      BY <1>2, <2>3, AmplitudeCallType
    <3> HIDE DEF c
    <3>2. c = <<c[1], c[2], c[3]>> /\ c[1] \in Edge(V) /\ c[2] \in Nat /\ c[3] = n - 1 /\ n - 1 <= NumQubits
      BY <1>1, <1>2, <3>1
    <3> QED BY <1>2, <2>3, <3>2 DEF c
  <2> DEFINE w == d.w
             z == amplitudeRec[AmplitudeCall(d, j, n)]
  <2>4. w \in Weight /\ (n > 0 => z \in Weight)
    BY <2>1, <2>3
  <2>5. amplitudeRec[<<d, j, n>>] = IF n = 0 THEN w ELSE Multiply(w, z)
    BY <2>2
  <2> HIDE DEF w, z
  <2>6. n > 0 => Multiply(w, z) \in Weight
    BY <2>4, WeightClosure
  <2> QED BY <2>4, <2>5, <2>6
<1> HIDE DEF S
<1>3. 0 \in S
  <2>1. \A d \in Edge(V), j \in Nat : 0 <= NumQubits => amplitudeRec[<<d, j, 0>>] \in Weight
    BY <1>2
  <2> QED BY <2>1 DEF S
<1>4. ASSUME NEW n \in Nat, n \in S PROVE n + 1 \in S
  <2>1. n + 1 \in Nat /\ (n + 1) - 1 = n
    OBVIOUS
  <2>2. \A d \in Edge(V), j \in Nat : n + 1 <= NumQubits => amplitudeRec[<<d, j, n + 1>>] \in Weight
    BY <1>2, <1>4, <2>1
  <2> QED BY <2>1, <2>2 DEF S
<1>5. Nat \subseteq S
  BY <1>3, <1>4, SetInduction
<1> QED BY <1>1, <1>5 DEF S

\* The amplitudes of an edge that is rescaled are.
LEMMA AmplitudeRescaled ==
    ASSUME NEW e \in Edge(V), NEW c \in Weight, Rescaled(c, e) \in Edge(V), NEW i \in Nat, NEW l \in 0..NumQubits
    PROVE  amplitudeRec[<<Rescaled(c, e), i, l>>] = Multiply(c, amplitudeRec[<<e, i, l>>])
<1> DEFINE d == Rescaled(c, e)
           call == AmplitudeCall(e, i, l)
<1>1. NumQubits \in Nat /\ e.w \in Weight
  BY QubitsAssumption DEF Edge, EdgesTo
<1>2. d.w = Multiply(c, e.w) /\ AmplitudeCall(d, i, l) = call /\ d \in Edge(V)
  BY DEF Rescaled, AmplitudeCall
<1> HIDE DEF d
<1>3. amplitudeRec[<<e, i, l>>] = IF l = 0 THEN e.w ELSE Multiply(e.w, amplitudeRec[call])
  BY AmplitudeEquation
<1>4. amplitudeRec[<<d, i, l>>] = IF l = 0 THEN d.w ELSE Multiply(d.w, amplitudeRec[AmplitudeCall(d, i, l)])
  BY <1>2, AmplitudeEquation
<1>5. ASSUME l # 0 PROVE amplitudeRec[call] \in Weight
  <2>1. l \in Nat /\ l > 0 /\ l <= NumQubits
    BY <1>1, <1>5
  <2>2. call \in Edge(V) \X Nat \X (0..NumQubits)
    BY <2>1, AmplitudeCallType
  <2> HIDE DEF call
  <2>3. call = <<call[1], call[2], call[3]>> /\ call[1] \in Edge(V) /\ call[2] \in Nat /\ call[3] \in 0..NumQubits
    BY <2>2
  <2>4. amplitudeRec[<<call[1], call[2], call[3]>>] \in Weight
    BY <2>3, AmplitudeType
  <2> QED BY <2>3, <2>4
<1> DEFINE w == e.w
           z == amplitudeRec[call]
<1>6. w \in Weight /\ (l # 0 => z \in Weight)
  BY <1>1, <1>5
<1>7. amplitudeRec[<<e, i, l>>] = IF l = 0 THEN w ELSE Multiply(w, z)
  BY <1>3
<1>8. amplitudeRec[<<d, i, l>>] = IF l = 0 THEN Multiply(c, w) ELSE Multiply(Multiply(c, w), z)
  BY <1>2, <1>4
<1> HIDE DEF call, w, z
<1>9. l # 0 => Multiply(Multiply(c, w), z) = Multiply(c, Multiply(w, z))
  BY <1>6, WeightLaws
<1> QED BY <1>7, <1>8, <1>9 DEF d

\* The edges that an edge stands for, one level below.
Below(arity, e, n) == [i \in 1..arity |-> Rescaled(e.w, childrenAt(arity, e.p, n)[i])]

\* They are edges of the level below.
LEMMA BelowEdges ==
    ASSUME NEW arity, NEW norm, NEW nodes, Family(arity, norm, nodes), NEW n \in Nat,
           NEW e \in EdgesTo(nodes[n + 1])
    PROVE  /\ Below(arity, e, n) \in [1..arity -> EdgesTo(nodes[n])]
           /\ childrenAt(arity, e.p, n) \in [1..arity -> EdgesTo(nodes[n])]
           /\ e.p.var \in Int /\ e.p.var <= n
<1> DEFINE kids == childrenAt(arity, e.p, n)
<1>1. e.p \in nodes[n + 1] /\ e.w \in Weight /\ (e.w = Zero => e.p = Null)
  BY EdgeFields
<1>2. e.p.var \in Int /\ e.p.var <= n
  <2>1. n + 1 \in Nat
    OBVIOUS
  <2>2. NodeFacts(arity, norm, nodes, n + 1, e.p)
    BY <1>1, <2>1, FamilyFacts
  <2> QED BY <2>2 DEF NodeFacts
<1>3. kids \in [1..arity -> EdgesTo(nodes[n])]
  <2> DEFINE k == n + 1
  <2>1. k \in Nat /\ e.p \in nodes[k]
    BY <1>1
  <2> HIDE DEF k
  <2> QED BY <1>2, <2>1, ChildrenEdges
<1>4. Below(arity, e, n) = [i \in 1..arity |-> Rescaled(e.w, kids[i])]
  BY DEF Below
<1>5. ASSUME NEW i \in 1..arity PROVE Rescaled(e.w, kids[i]) \in EdgesTo(nodes[n])
  <2>1. CASE e.w = Zero
    <3>1. e.p = Null /\ Null.var = -1 /\ -1 # n
      BY <1>1, <2>1 DEF Null
    <3>2. arity \in {V, M} /\ V = 2 /\ M = 4
      BY DEF Family, V, M
    <3>3. kids[i].p = Null /\ kids[i].w \in Weight
      <4>1. kids = IF arity = V THEN <<Bare(Null), Bare(Null)>> ELSE <<Bare(Null), zero, zero, Bare(Null)>>
        BY <3>1 DEF childrenAt, vChildrenAt, mChildrenAt
      <4>2. Bare(Null).p = Null /\ zero.p = Null
        BY DEF Bare, zero, terminal
      <4>3. kids[i] \in {Bare(Null), zero}
        BY <3>2, <4>1
      <4>4. kids[i].w \in Weight
        BY <1>3, EdgeFields
      <4> QED BY <4>2, <4>3, <4>4
    <3>4. Rescaled(e.w, kids[i]) = zero
      BY <2>1, <3>3, WeightLaws DEF Rescaled, zero, terminal
    <3> QED BY <3>4, TerminalEdges
  <2>2. CASE e.w # Zero
    <3> DEFINE w == e.w
               c == kids[i]
    <3>1. w \in NonZero /\ c \in EdgesTo(nodes[n])
      BY <1>1, <1>3, <2>2 DEF NonZero
    <3> HIDE DEF w, c
    <3>2. Rescaled(w, c) \in EdgesTo(nodes[n])
      BY <3>1, RescaledEdges
    <3> QED BY <3>2 DEF w, c
  <2> QED BY <2>1, <2>2
<1> QED BY <1>2, <1>3, <1>4, <1>5

\* makeVEdge and makeMEdge of redundant children return the first.
LEMMA MakeRedundant ==
    ASSUME NEW arity, NEW norm, NEW nodes, Family(arity, norm, nodes), NEW n \in Nat,
           NEW es \in [1..arity -> EdgesTo(nodes[n])]
    PROVE  makeEdge(arity, n, es) = Normalized(arity, n, es)
<1> DEFINE fs == [i \in 1..arity |-> ZeroTerminated(es[i])]
<1>1. arity \in Nat
  BY DEF Family, V, M
<1>2. fs = es
  <2>1. \A i \in 1..arity : ZeroTerminated(es[i]) = es[i]
    BY ZeroTerminatedEdges
  <2> QED BY <2>1
<1>3. makeEdge(arity, n, es) = Normalized(arity, n, Listed(fs))
  BY DEF makeEdge
<1> HIDE DEF fs
<1>4. Listed(es) = es
  BY <1>1, ListedSame
<1> QED BY <1>2, <1>3, <1>4

(***************************************************************************)
(* Under Inverse a reduced edge is made again from the edges it stands for *)
(* one level below: its node is the one that normalization yields, whether *)
(* the node is of that level or skips it.                                  *)
(***************************************************************************)
LEMMA Remade ==
    ASSUME strategy = "Inverse", NEW arity, NEW nodes, Family(arity, "Inverse", nodes), NEW n \in Nat,
           NEW e \in EdgesTo(nodes[n + 1])
    PROVE  makeEdge(arity, n, Below(arity, e, n)) = e
<1> DEFINE fs == Below(arity, e, n)
<1>1. /\ fs \in [1..arity -> EdgesTo(nodes[n])]
      /\ e.p.var \in Int /\ e.p.var <= n
  BY BelowEdges
<1>2. \A i \in 1..arity : fs[i] = Rescaled(e.w, childrenAt(arity, e.p, n)[i])
  BY DEF Below
<1> HIDE DEF fs
<1>3. makeEdge(arity, n, fs) = Normalized(arity, n, fs)
  BY <1>1, MakeRedundant
<1>4. e = [p |-> e.p, w |-> e.w] /\ e.p \in nodes[n + 1] /\ e.w \in Weight /\ (e.w = Zero => e.p = Null)
  BY EdgeFields
<1>5. arity \in {V, M} /\ V = 2 /\ M = 4 /\ arity \in Nat
  BY DEF Family, V, M
<1>6. CASE e.p.var # n
  <2>1. Rescaled(e.w, Bare(e.p)) = e
    BY <1>4, WeightLaws DEF Rescaled, Bare
  <2>2. Rescaled(e.w, zero) = zero
    BY <1>4, WeightLaws DEF Rescaled, zero, terminal
  <2>3. CASE arity = V
    <3>1. childrenAt(arity, e.p, n) = <<Bare(e.p), Bare(e.p)>>
      BY <1>6, <2>3 DEF childrenAt, vChildrenAt
    <3>2. fs[1] = e /\ fs[2] = e
      BY <1>2, <1>5, <2>1, <2>3, <3>1
    <3> QED BY <1>3, <2>3, <3>2 DEF Normalized, Redundant, fs
  <2>4. CASE arity = M
    <3>1. childrenAt(arity, e.p, n) = <<Bare(e.p), zero, zero, Bare(e.p)>>
      BY <1>5, <1>6, <2>4 DEF childrenAt, mChildrenAt
    <3>2. fs[1] = e /\ fs[2] = zero /\ fs[3] = zero /\ fs[4] = e
      BY <1>2, <1>5, <2>1, <2>2, <2>4, <3>1
    <3> QED BY <1>3, <1>5, <2>4, <3>2 DEF Normalized, Redundant, IdentityLike, fs
  <2> QED BY <1>5, <2>3, <2>4
<1>7. CASE e.p.var = n
  <2> DEFINE es == e.p.e
             w == e.w
  <2>1. NodeFacts(arity, "Inverse", nodes, n + 1, e.p)
    <3>1. n + 1 \in Nat
      OBVIOUS
    <3> QED BY <1>4, <3>1, FamilyFacts
  <2>2. e.p \in KeptNodes(arity, "Inverse", n, nodes[n])
    BY <1>7, <2>1 DEF NodeFacts
  <2>3. e.p = [var |-> n, e |-> es] /\ es \in [1..arity -> EdgesTo(nodes[n])] /\ Kept(arity, es, "Inverse")
    BY <2>2 DEF KeptNodes, KeptUnder, NodesOver
  <2>4. w \in NonZero
    BY <1>4, <1>7 DEF NonZero, Null
  <2>5. childrenAt(arity, e.p, n) = es
    BY <1>7 DEF childrenAt, vChildrenAt, mChildrenAt
  <2>6. \A i \in 1..arity : fs[i] = Rescaled(w, es[i])
    BY <1>2, <2>5
  <2>7. e = [p |-> [var |-> n, e |-> es], w |-> w]
    BY <1>4, <2>3
  <2>15. es \in [1..arity -> EdgesTo(nodes[n])]
    BY <2>3
  <2>16. fs \in [1..arity -> EdgesTo(nodes[n])]
    BY <1>1
  <2> HIDE DEF es, w
  <2>8. ~Redundant(arity, es) /\ es[Leftmost(es)].w = One
    BY <1>5, <2>3 DEF Kept, Redundant
  <2>9. fs = RescaledAll(w, es)
    <3>1. /\ RescaledAll(w, es) \in [1..arity -> EdgesTo(nodes[n])]
          /\ \A i \in 1..arity : RescaledAll(w, es)[i] = Rescaled(w, es[i])
      BY <1>5, <2>15, <2>4, RescaledAllEdges
    <3> DEFINE rs == RescaledAll(w, es)
    <3> HIDE DEF rs
    <3>2. rs \in [1..arity -> EdgesTo(nodes[n])] /\ \A i \in 1..arity : rs[i] = fs[i]
      BY <1>5, <2>6, <3>1 DEF rs
    <3>3. fs = rs
      BY <1>5, <2>16, <3>2
    <3> QED BY <3>3 DEF rs
  <2>10. Leftmost(fs) = Leftmost(es) /\ ~Redundant(arity, fs)
    BY <2>3, <2>4, <2>8, <2>9, RescaledAllEdges
  <2>11. Leftmost(es) \in 1..arity
    <3>1. PICK i \in 1..arity : es[i].w # Zero
      BY <1>5, <2>3, <2>8, AllZeroRedundant
    <3>2. strategy \in Strategies
      BY DEF Strategies
    <3> QED BY <1>5, <2>3, <3>1, <3>2, FactorNonZero
  <2>12. Factor(fs) = w
    <3> DEFINE i == Leftmost(es)
    <3>1. Factor(fs) = fs[i].w
      BY <2>10 DEF Factor
    <3>2. i \in 1..arity /\ es[i].w = One /\ w \in Weight
      BY <2>4, <2>8, <2>11 DEF NonZero
    <3> HIDE DEF i
    <3>3. fs[i] = Rescaled(w, es[i])
      BY <1>5, <2>6, <3>2
    <3>4. fs[i].w = Multiply(w, es[i].w)
      BY <3>3 DEF Rescaled
    <3> QED BY <3>1, <3>2, <3>4, WeightLaws DEF i
  <2>13. RescaledAll(inverse(w), fs) = es
    <3> DEFINE c == inverse(w)
               rs == RescaledAll(c, fs)
    <3>1. c \in NonZero
      BY <2>4, NonZeroLaws
    <3>2. \A z \in Weight : Multiply(c, Multiply(w, z)) = z
      BY <2>4, NonZeroLaws
    <3> HIDE DEF c
    <3>3. rs \in [1..arity -> EdgesTo(nodes[n])] /\ \A i \in 1..arity : rs[i] = Rescaled(c, fs[i])
      BY <1>5, <2>16, <3>1, RescaledAllEdges
    <3> HIDE DEF rs
    <3>4. ASSUME NEW i \in 1..arity PROVE rs[i] = es[i]
      <4>1. es[i] = [p |-> es[i].p, w |-> es[i].w] /\ es[i].w \in Weight
        BY <1>5, <2>15, EdgeFields
      <4>2. rs[i] = Rescaled(c, fs[i]) /\ fs[i] = Rescaled(w, es[i])
        BY <1>5, <2>6, <3>3
      <4>3. rs[i] = [p |-> es[i].p, w |-> Multiply(c, Multiply(w, es[i].w))]
        BY <4>2 DEF Rescaled
      <4> QED BY <3>2, <4>1, <4>3
    <3>5. rs = es
      BY <1>5, <2>15, <3>3, <3>4
    <3> QED BY <3>5 DEF rs, c
  <2>14. Normalized(arity, n, fs) = [p |-> [var |-> n, e |-> es], w |-> w]
    BY <2>10, <2>12, <2>13 DEF Normalized, FactoredOut
  <2> QED BY <1>3, <2>7, <2>14 DEF fs
<1> QED BY <1>6, <1>7 DEF fs

\* The bit of the indices in half b of a block, and that they are in the block.
LEMMA BlockBit ==
    ASSUME NEW j \in Nat, NEW k \in Nat, NEW b \in {0, 1}, NEW i \in Nat,
           (2 * j + b) * Pow2[k] <= i, i < (2 * j + b + 1) * Pow2[k]
    PROVE  Bit(i, k) = b /\ j * Pow2[k + 1] <= i /\ i < (j + 1) * Pow2[k + 1]
<1> DEFINE pow == Pow2[k]
           q == 2 * j + b
           r == i - pow * q
<1>1. pow \in Nat \ {0} /\ Pow2[k + 1] = 2 * pow
  BY Pow2Def
<1>2. i \in Int /\ q \in Nat /\ q * pow <= i /\ i < (q + 1) * pow /\ Bit(i, k) = (i \div pow) % 2
  BY DEF Bit
<1>3. 2 * j <= q /\ q + 1 <= 2 * (j + 1) /\ q % 2 = b /\ q \in Int
  OBVIOUS
<1> HIDE DEF pow, q
<1>4. q * pow = pow * q /\ (q + 1) * pow = pow * q + pow /\ pow * q \in Int
  BY <1>1, <1>2
<1>5. r \in Int /\ 0 <= r /\ r < pow /\ i = pow * q + r
  BY <1>1, <1>2, <1>4
<1> HIDE DEF r
<1>6. (pow * q + r) \div pow = q
  BY <1>1, <1>3, <1>5, DivisionUnique
<1>7. Bit(i, k) = b
  BY <1>2, <1>3, <1>5, <1>6
<1>8. (2 * j) * pow <= q * pow
  BY <1>1, <1>2, <1>3
<1>9. (q + 1) * pow <= (2 * (j + 1)) * pow
  BY <1>1, <1>2, <1>3
<1>10. (2 * j) * pow = j * (2 * pow) /\ (2 * (j + 1)) * pow = (j + 1) * (2 * pow)
       /\ j * (2 * pow) \in Int /\ (j + 1) * (2 * pow) \in Int /\ q * pow \in Int /\ (q + 1) * pow \in Int
  BY <1>1, <1>2
<1> QED BY <1>1, <1>2, <1>7, <1>8, <1>9, <1>10

\* The amplitudes of a block are those of an edge.
Matches(amps, e, j, l) ==
    \A i \in Nat : j * Pow2[l] <= i /\ i < (j + 1) * Pow2[l] => amps[i + 1] = amplitudeRec[<<e, i, l>>]

\* Then those of its halves are those of the edges it stands for.
LEMMA HalvesMatch ==
    ASSUME NEW nodes, Family(V, "Inverse", nodes), NEW amps, NEW j \in Nat,
           NEW k \in Nat, k < NumQubits, NEW e \in EdgesTo(nodes[k + 1]), Matches(amps, e, j, k + 1),
           NEW b \in {0, 1}
    PROVE  Matches(amps, Below(V, e, k)[b + 1], 2 * j + b, k)
<1> SUFFICES ASSUME NEW i \in Nat, (2 * j + b) * Pow2[k] <= i, i < (2 * j + b + 1) * Pow2[k]
             PROVE  amps[i + 1] = amplitudeRec[<<Below(V, e, k)[b + 1], i, k>>]
  BY DEF Matches
<1> DEFINE child == vChildrenAt(e.p, k)[b + 1]
           w == e.w
           l == k + 1
<1>1. l \in Nat /\ k <= NumQubits /\ l <= NumQubits /\ k \in 0..NumQubits /\ l \in 0..NumQubits /\ l # 0 /\ l - 1 = k /\ NumQubits \in Nat
  BY QubitsAssumption
<1>2. Bit(i, k) = b /\ j * Pow2[l] <= i /\ i < (j + 1) * Pow2[l]
  BY BlockBit
<1>3. amps[i + 1] = amplitudeRec[<<e, i, l>>]
  BY <1>2 DEF Matches
<1>4. EdgesTo(nodes[k]) \subseteq Edge(V) /\ EdgesTo(nodes[l]) \subseteq Edge(V)
  <2>1. EdgesTo(nodes[k]) \subseteq EdgesTo(nodes[NumQubits])
    BY <1>1, HigherEdges
  <2> HIDE DEF l
  <2>2. EdgesTo(nodes[l]) \subseteq EdgesTo(nodes[NumQubits])
    BY <1>1, HigherEdges
  <2>3. EdgesTo(nodes[NumQubits]) \subseteq Edge(V)
    BY <1>1, FamilyInNodes DEF Edge
  <2> QED BY <2>1, <2>2, <2>3
<1>5. /\ Below(V, e, k) \in [1..V -> EdgesTo(nodes[k])]
      /\ childrenAt(V, e.p, k) \in [1..V -> EdgesTo(nodes[k])]
  BY BelowEdges
<1>6. b + 1 \in 1..V /\ V \in Nat
  BY DEF V
<1>7. childrenAt(V, e.p, k) = vChildrenAt(e.p, k)
  BY DEF childrenAt
<1>8. child \in EdgesTo(nodes[k]) /\ Below(V, e, k)[b + 1] = Rescaled(w, child) /\ Below(V, e, k)[b + 1] \in EdgesTo(nodes[k])
  BY <1>5, <1>6, <1>7 DEF Below
<1>9. e \in Edge(V) /\ w \in Weight
  <2>1. e \in EdgesTo(nodes[l])
    OBVIOUS
  <2>2. e.w \in Weight
    BY <2>1, EdgeFields
  <2> QED BY <1>4, <2>1, <2>2
<1>10. AmplitudeCall(e, i, l) = <<child, i, k>>
  BY <1>1, <1>2 DEF AmplitudeCall
<1> HIDE DEF l, child
<1>11. amplitudeRec[<<e, i, l>>] = Multiply(w, amplitudeRec[<<child, i, k>>])
  BY <1>1, <1>9, <1>10, AmplitudeEquation
<1> HIDE DEF w
<1>12. child \in Edge(V) /\ Rescaled(w, child) \in Edge(V)
  BY <1>4, <1>8
<1>13. amplitudeRec[<<Rescaled(w, child), i, k>>] = Multiply(w, amplitudeRec[<<child, i, k>>])
  BY <1>1, <1>9, <1>12, AmplitudeRescaled
<1> QED BY <1>3, <1>8, <1>11, <1>13

(***************************************************************************)
(* Under Inverse the edge that makeStateFromVector returns for the         *)
(* amplitudes of a reduced edge is that edge, block by block.              *)
(***************************************************************************)
LEMMA MatchesMakes ==
    ASSUME strategy = "Inverse", NEW nodes, Family(V, "Inverse", nodes),
           NEW amps \in [1..Pow2[NumQubits] -> Weight],
           NEW e \in EdgesTo(nodes[NumQubits]), Matches(amps, e, 0, NumQubits)
    PROVE  makeStateFromVector(amps) = e
<1> DEFINE rec == makeStateFromVectorRec(amps)
           S == {l \in Nat : l <= NumQubits => \A j \in Nat : (j + 1) * Pow2[l] <= Pow2[NumQubits] =>
                    \A d \in EdgesTo(nodes[l]) : Matches(amps, d, j, l) => rec[<<j, l>>] = d}
<1>1. NumQubits \in Nat /\ strategy \in Strategies
  BY QubitsAssumption DEF Strategies
<1>2. ASSUME NEW l \in 0..NumQubits, NEW j \in Nat, (j + 1) * Pow2[l] <= Pow2[NumQubits]
      PROVE  rec[<<j, l>>] = IF l = 0 THEN terminal(amps[j + 1])
                             ELSE makeEdge(V, l - 1, <<rec[<<2 * j, l - 1>>], rec[<<2 * j + 1, l - 1>>]>>)
  <2>1. rec[<<j, l>>] = vectorStep(amps, rec, j, l)
    BY <1>1, <1>2, VectorEquation
  <2> QED BY <2>1 DEF vectorStep, makeVEdge
<1> HIDE DEF rec
<1>3. ASSUME NEW d \in EdgesTo(nodes[0]), NEW j \in Nat, (j + 1) * Pow2[0] <= Pow2[NumQubits], Matches(amps, d, j, 0)
      PROVE  rec[<<j, 0>>] = d
  <2>1. 0 \in 0..NumQubits /\ Pow2[0] = 1
    BY <1>1, Pow2Def
  <2>2. rec[<<j, 0>>] = terminal(amps[j + 1])
    BY <1>2, <1>3, <2>1
  <2>3. amps[j + 1] = amplitudeRec[<<d, j, 0>>]
    BY <1>3, <2>1 DEF Matches
  <2>4. d = [p |-> d.p, w |-> d.w] /\ d.p \in nodes[0]
    BY <1>3, EdgeFields
  <2>5. d.p = Null
    BY <2>4 DEF Family
  <2>6. d \in Edge(V)
    <3>1. EdgesTo(nodes[0]) \subseteq EdgesTo(nodes[NumQubits])
      BY <1>1, HigherEdges
    <3>2. EdgesTo(nodes[NumQubits]) \subseteq Edge(V)
      BY <1>1, FamilyInNodes DEF Edge
    <3> QED BY <1>3, <3>1, <3>2
  <2>7. amplitudeRec[<<d, j, 0>>] = d.w
    BY <2>1, <2>6, AmplitudeEquation
  <2> QED BY <2>2, <2>3, <2>4, <2>5, <2>7 DEF terminal
<1>4. 0 \in S
  BY <1>3
<1>5. ASSUME NEW k \in Nat, k \in S, k + 1 <= NumQubits, NEW j \in Nat, (j + 1) * Pow2[k + 1] <= Pow2[NumQubits],
             NEW d \in EdgesTo(nodes[k + 1]), Matches(amps, d, j, k + 1)
      PROVE  rec[<<j, k + 1>>] = d
  <2> DEFINE fs == Below(V, d, k)
             l == k + 1
  <2>1. l \in 0..NumQubits /\ l \in Nat \ {0} /\ l - 1 = k /\ k < NumQubits /\ k <= NumQubits
    BY <1>1, <1>5
  <2>2. fs \in [1..2 -> EdgesTo(nodes[k])]
    BY <1>5, BelowEdges DEF V
  <2>3. makeEdge(V, k, fs) = d
    BY <1>5, Remade
  <2>4. ASSUME NEW b \in {0, 1} PROVE Matches(amps, fs[b + 1], 2 * j + b, k)
    BY <1>5, <2>1, HalvesMatch
  <2> HIDE DEF fs, l
  <2>5. ASSUME NEW b \in {0, 1} PROVE rec[<<2 * j + b, k>>] = fs[b + 1]
    <3> DEFINE h == 2 * j + b
    <3>1. h \in Nat /\ (h + 1) * Pow2[k] <= Pow2[NumQubits]
      <4>1. (j + 1) * Pow2[l] <= Pow2[NumQubits]
        BY <1>5 DEF l
      <4>2. 2 * j + b \in Nat /\ (2 * j + b + 1) * Pow2[l - 1] <= Pow2[NumQubits]
        BY <2>1, <4>1, HalfBlocks
      <4> QED BY <2>1, <4>2
    <3>2. fs[b + 1] \in EdgesTo(nodes[k])
      BY <2>2
    <3>3. Matches(amps, fs[b + 1], h, k)
      BY <2>4
    <3> HIDE DEF h
    <3>4. rec[<<h, k>>] = fs[b + 1]
      BY <1>5, <2>1, <3>1, <3>2, <3>3
    <3> QED BY <3>4 DEF h
  <2>6. rec[<<2 * j + 0, k>>] = fs[1] /\ rec[<<2 * j + 1, k>>] = fs[2] /\ 2 * j + 0 = 2 * j
    BY <2>5
  <2>7. fs = <<rec[<<2 * j, k>>], rec[<<2 * j + 1, k>>]>>
    BY <2>2, <2>6
  <2>8. rec[<<j, l>>] = makeEdge(V, k, <<rec[<<2 * j, k>>], rec[<<2 * j + 1, k>>]>>)
    <3>1. (j + 1) * Pow2[l] <= Pow2[NumQubits]
      BY <1>5 DEF l
    <3> QED BY <1>2, <2>1, <3>1
  <2> QED BY <2>3, <2>7, <2>8 DEF fs, l
<1>6. ASSUME NEW k \in Nat, k \in S PROVE k + 1 \in S
  BY <1>5, <1>6
<1>7. Nat \subseteq S
  <2> HIDE DEF S
  <2> QED BY <1>4, <1>6, SetInduction
<1>8. NumQubits \in S /\ 0 \in Nat /\ (0 + 1) * Pow2[NumQubits] <= Pow2[NumQubits]
  BY <1>1, <1>7, Pow2Def
<1>9. rec[<<0, NumQubits>>] = e
  BY <1>1, <1>8
<1> QED BY <1>9 DEF makeStateFromVector, rec

\* The vector of an edge.
LEMMA VectorIs ==
    ASSUME NEW e \in Edge(V)
    PROVE  /\ Vector(e) \in [1..Pow2[NumQubits] -> Weight]
           /\ \A i \in 1..Pow2[NumQubits] : i - 1 \in Nat /\ Vector(e)[i] = amplitudeRec[<<e, i - 1, NumQubits>>]
<1> DEFINE size == Pow2[NumQubits]
           amps == [i \in 1..size |-> amplitude(e, i - 1)]
<1>1. NumQubits \in 0..NumQubits /\ size \in Nat
  BY QubitsAssumption, Pow2Def
<1>2. Vector(e) = Listed(amps)
  BY DEF Vector
<1> HIDE DEF size
<1>3. \A i \in 1..size : i - 1 \in Nat /\ amps[i] = amplitudeRec[<<e, i - 1, NumQubits>>]
  BY <1>1 DEF amplitude
<1>4. \A i \in 1..size : amps[i] \in Weight
  BY <1>1, <1>3, AmplitudeType
<1>5. amps \in [1..size -> Weight]
  BY <1>4
<1> HIDE DEF amps
<1>6. Listed(amps) = amps
  BY <1>1, <1>5, ListedSame
<1> QED BY <1>2, <1>3, <1>5, <1>6 DEF size

\* A reduced edge is made again from its vector.
LEMMA MadeAgain ==
    ASSUME strategy = "Inverse", NEW e \in ReducedEdge(V, "Inverse"),
           NEW amps \in [1..Pow2[NumQubits] -> Weight],
           \A i \in 1..Pow2[NumQubits] : amps[i] = Vector(e)[i]
    PROVE  makeStateFromVector(amps) = e
<1> DEFINE nodes == ReducedNodes(V, "Inverse")
<1>1. Family(V, "Inverse", nodes) /\ NumQubits \in Nat
  BY Families, QubitsAssumption
<1>2. e \in EdgesTo(nodes[NumQubits])
  BY DEF ReducedEdge
<1> HIDE DEF nodes
<1>3. e \in Edge(V)
  BY <1>1, <1>2, FamilyInNodes DEF Edge
<1>4. Matches(amps, e, 0, NumQubits)
  <2>1. SUFFICES ASSUME NEW i \in Nat, 0 * Pow2[NumQubits] <= i, i < (0 + 1) * Pow2[NumQubits]
                 PROVE  amps[i + 1] = amplitudeRec[<<e, i, NumQubits>>]
    BY DEF Matches
  <2>2. i + 1 \in 1..Pow2[NumQubits] /\ (i + 1) - 1 = i
    BY <1>1, <2>1, Pow2Def
  <2>3. Vector(e)[i + 1] = amplitudeRec[<<e, (i + 1) - 1, NumQubits>>]
    BY <1>3, <2>2, VectorIs
  <2> QED BY <2>2, <2>3
<1> QED BY <1>1, <1>2, <1>4, MatchesMakes

\* A vector that is not 0 has an amplitude that is not 0.
LEMMA SomeAmplitude ==
    ASSUME strategy = "Inverse", NEW e \in ReducedEdge(V, "Inverse"), e.w # Zero
    PROVE  \E i \in 1..Pow2[NumQubits] : Vector(e)[i] # Zero
<1> SUFFICES ASSUME \A i \in 1..Pow2[NumQubits] : Vector(e)[i] = Zero PROVE FALSE
  OBVIOUS
<1> DEFINE nodes == ReducedNodes(V, "Inverse")
<1>1. Family(V, "Inverse", nodes) /\ NumQubits \in Nat /\ NumQubits \in 0..NumQubits
  BY Families, QubitsAssumption
<1>2. ReducedEdge(V, "Inverse") = EdgesTo(nodes[NumQubits])
  BY DEF ReducedEdge
<1> HIDE DEF nodes
<1>3. EdgesTo(nodes[NumQubits]) \subseteq Edge(V)
  BY <1>1, FamilyInNodes DEF Edge
<1>4. zero \in ReducedEdge(V, "Inverse") /\ zero \in Edge(V) /\ e \in Edge(V)
  BY <1>1, <1>2, <1>3, TerminalEdges
<1>5. zero = Rescaled(Zero, zero)
  BY WeightLaws DEF Rescaled, zero, terminal
<1>6. ASSUME NEW i \in Nat PROVE amplitudeRec[<<zero, i, NumQubits>>] = Zero
  <2>1. Zero \in Weight /\ Rescaled(Zero, zero) \in Edge(V)
    BY <1>4, <1>5, WeightLaws
  <2>2. amplitudeRec[<<Rescaled(Zero, zero), i, NumQubits>>] = Multiply(Zero, amplitudeRec[<<zero, i, NumQubits>>])
    BY <1>1, <1>4, <2>1, AmplitudeRescaled
  <2>3. amplitudeRec[<<zero, i, NumQubits>>] \in Weight
    BY <1>1, <1>4, AmplitudeType
  <2> QED BY <1>5, <2>2, <2>3, WeightLaws
<1> DEFINE amps == Vector(e)
<1>7. amps \in [1..Pow2[NumQubits] -> Weight]
  BY <1>4, VectorIs
<1>8. \A i \in 1..Pow2[NumQubits] : amps[i] = Vector(zero)[i]
  BY <1>4, <1>6, VectorIs
<1>9. makeStateFromVector(amps) = e
  BY <1>7, MadeAgain
<1> HIDE DEF amps
<1>10. makeStateFromVector(amps) = zero
  BY <1>4, <1>7, <1>8, MadeAgain
<1> QED BY <1>9, <1>10 DEF zero, terminal

\* Weights can be exchanged between two products.
LEMMA Exchanged ==
    ASSUME NEW c \in Weight, NEW d \in Weight, NEW s \in Weight, NEW t \in Weight
    PROVE  Multiply(Multiply(c, s), Multiply(d, t)) = Multiply(Multiply(c, t), Multiply(d, s))
<1> DEFINE ds == Multiply(d, s)
           dt == Multiply(d, t)
<1>1. ds \in Weight /\ dt \in Weight
  BY WeightLaws
<1>2. Multiply(s, dt) = Multiply(t, ds)
  <2>1. Multiply(s, dt) = Multiply(dt, s) /\ Multiply(t, ds) = Multiply(ds, t)
    BY <1>1, WeightLaws
  <2>2. Multiply(dt, s) = Multiply(d, Multiply(t, s))
    BY WeightLaws
  <2>3. Multiply(ds, t) = Multiply(d, Multiply(s, t))
    BY WeightLaws
  <2>4. Multiply(s, t) = Multiply(t, s)
    BY WeightLaws
  <2> QED BY <2>1, <2>2, <2>3, <2>4
<1> HIDE DEF ds, dt
<1>3. Multiply(Multiply(c, s), dt) = Multiply(c, Multiply(s, dt))
  BY <1>1, WeightLaws
<1>4. Multiply(Multiply(c, t), ds) = Multiply(c, Multiply(t, ds))
  BY <1>1, WeightLaws
<1> QED BY <1>2, <1>3, <1>4 DEF ds, dt

\* Two edges with the same node have proportional vectors.
LEMMA SameNode ==
    ASSUME NEW d \in Edge(V), NEW e \in Edge(V), d.p = e.p
    PROVE  Proportional(Vector(d), Vector(e))
<1> DEFINE bare == Bare(d.p)
           At(i) == amplitudeRec[<<bare, i - 1, NumQubits>>]
<1>1. /\ d = [p |-> d.p, w |-> d.w] /\ d.w \in Weight
      /\ e = [p |-> e.p, w |-> e.w] /\ e.w \in Weight
  BY EdgeFields DEF Edge
<1>2. bare \in Edge(V)
  BY WeightLaws DEF Edge, EdgesTo, Bare, NonZero
<1>3. Rescaled(d.w, bare) = d /\ Rescaled(e.w, bare) = e
  BY <1>1, WeightLaws DEF Rescaled, Bare
<1>4. NumQubits \in 0..NumQubits
  BY QubitsAssumption
<1> HIDE DEF bare
<1>5. ASSUME NEW i \in 1..Pow2[NumQubits]
      PROVE  At(i) \in Weight /\ Vector(d)[i] = Multiply(d.w, At(i)) /\ Vector(e)[i] = Multiply(e.w, At(i))
  <2> DEFINE k == i - 1
             dw == d.w
             ew == e.w
  <2>1. k \in Nat /\ Vector(d)[i] = amplitudeRec[<<d, k, NumQubits>>] /\ Vector(e)[i] = amplitudeRec[<<e, k, NumQubits>>]
    BY VectorIs
  <2>2. dw \in Weight /\ ew \in Weight /\ Rescaled(dw, bare) = d /\ Rescaled(ew, bare) = e
    BY <1>1, <1>3
  <2>3. At(i) = amplitudeRec[<<bare, k, NumQubits>>]
    OBVIOUS
  <2> HIDE DEF k, dw, ew
  <2>4. amplitudeRec[<<bare, k, NumQubits>>] \in Weight
    BY <1>2, <1>4, <2>1, AmplitudeType
  <2>5. amplitudeRec[<<Rescaled(dw, bare), k, NumQubits>>] = Multiply(dw, amplitudeRec[<<bare, k, NumQubits>>])
    BY <1>2, <1>4, <2>1, <2>2, AmplitudeRescaled
  <2>6. amplitudeRec[<<Rescaled(ew, bare), k, NumQubits>>] = Multiply(ew, amplitudeRec[<<bare, k, NumQubits>>])
    BY <1>2, <1>4, <2>1, <2>2, AmplitudeRescaled
  <2> QED BY <2>1, <2>2, <2>3, <2>4, <2>5, <2>6 DEF dw, ew
<1> HIDE DEF At
<1>6. DOMAIN Vector(d) = 1..Pow2[NumQubits]
  BY VectorIs
<1>7. ASSUME NEW i \in 1..Pow2[NumQubits], NEW j \in 1..Pow2[NumQubits]
      PROVE  Multiply(Vector(d)[i], Vector(e)[j]) = Multiply(Vector(d)[j], Vector(e)[i])
  <2> DEFINE dw == d.w
             ew == e.w
             s == At(i)
             t == At(j)
  <2>1. dw \in Weight /\ ew \in Weight /\ s \in Weight /\ t \in Weight
    BY <1>1, <1>5
  <2>2. Vector(d)[i] = Multiply(dw, s) /\ Vector(e)[i] = Multiply(ew, s)
    BY <1>5
  <2>3. Vector(d)[j] = Multiply(dw, t) /\ Vector(e)[j] = Multiply(ew, t)
    BY <1>5
  <2> HIDE DEF dw, ew, s, t
  <2> QED BY <2>1, <2>2, <2>3, Exchanged
<1> QED BY <1>6, <1>7 DEF Proportional

(***************************************************************************)
(* Under Inverse two vectors that are proportional have the same node: the *)
(* one, times the factor between two amplitudes, is the other.             *)
(***************************************************************************)
LEMMA SameFactor ==
    ASSUME strategy = "Inverse", NEW d \in ReducedEdge(V, "Inverse"), NEW e \in ReducedEdge(V, "Inverse"),
           d.w # Zero, e.w # Zero, Proportional(Vector(d), Vector(e))
    PROVE  d.p = e.p
<1> DEFINE nodes == ReducedNodes(V, "Inverse")
           s == Vector(d)
           t == Vector(e)
           size == Pow2[NumQubits]
<1>1. Family(V, "Inverse", nodes) /\ NumQubits \in Nat /\ NumQubits \in 0..NumQubits
  BY Families, QubitsAssumption
<1>2. ReducedEdge(V, "Inverse") = EdgesTo(nodes[NumQubits])
  BY DEF ReducedEdge
<1> HIDE DEF nodes
<1>3. EdgesTo(nodes[NumQubits]) \subseteq Edge(V)
  BY <1>1, FamilyInNodes DEF Edge
<1>4. d \in Edge(V) /\ e \in Edge(V)
  BY <1>2, <1>3
<1>5. s \in [1..size -> Weight] /\ t \in [1..size -> Weight]
  BY <1>4, VectorIs
<1>6. \A i \in 1..size, j \in 1..size : Multiply(s[i], t[j]) = Multiply(s[j], t[i])
  BY <1>5 DEF Proportional
<1>7. PICK j \in 1..size : t[j] # Zero
  BY SomeAmplitude
<1>8. PICK k \in 1..size : s[k] # Zero
  BY SomeAmplitude
<1>9. makeStateFromVector(s) = d
  BY <1>5, MadeAgain
<1>10. \A i \in 1..size : t[i] = amplitudeRec[<<e, i - 1, NumQubits>>] /\ i - 1 \in Nat
  BY <1>4, VectorIs
<1> HIDE DEF s, t, size
<1> DEFINE c == Multiply(inverse(t[j]), s[j])
<1>11. t[j] \in NonZero /\ inverse(t[j]) \in NonZero /\ inverse(t[j]) \in Weight
  <2>1. t[j] \in NonZero
    BY <1>5, <1>7 DEF NonZero
  <2> DEFINE w == t[j]
  <2>2. w \in NonZero
    BY <2>1
  <2> HIDE DEF w
  <2>3. inverse(w) \in NonZero
    BY <2>2, NonZeroLaws
  <2> QED BY <2>1, <2>3 DEF NonZero, w
<1>12. ASSUME NEW i \in 1..size PROVE s[i] = Multiply(c, t[i])
  <2> DEFINE si == s[i]
             sj == s[j]
             ti == t[i]
             tj == t[j]
             inv == inverse(tj)
  <2>1. si \in Weight /\ sj \in Weight /\ ti \in Weight /\ tj \in NonZero /\ inv \in Weight /\ tj \in Weight
    BY <1>5, <1>7, <1>11 DEF NonZero
  <2>2. Multiply(si, tj) = Multiply(sj, ti)
    BY <1>6, <1>7
  <2>3. \A w \in Weight : Multiply(inv, Multiply(tj, w)) = w
    BY <1>11, NonZeroLaws
  <2>4. c = Multiply(inv, sj)
    OBVIOUS
  <2> HIDE DEF si, sj, ti, tj, inv, c
  <2>5. Multiply(Multiply(inv, sj), ti) = Multiply(inv, Multiply(sj, ti))
    BY <2>1, WeightLaws
  <2>6. Multiply(si, tj) = Multiply(tj, si)
    BY <2>1, WeightLaws
  <2>7. Multiply(inv, Multiply(tj, si)) = si
    BY <2>1, <2>3
  <2> QED BY <2>2, <2>4, <2>5, <2>6, <2>7 DEF si, ti
<1>13. c \in Weight
  <2> DEFINE inv == inverse(t[j])
             sj == s[j]
  <2>1. inv \in Weight /\ sj \in Weight
    BY <1>5, <1>11
  <2> HIDE DEF inv, sj
  <2>2. Multiply(inv, sj) \in Weight
    BY <2>1, WeightLaws
  <2> QED BY <2>2 DEF inv, sj
<1> HIDE DEF c
<1>14. c \in NonZero
  <2>1. s[k] = Multiply(c, t[k]) /\ t[k] \in Weight
    BY <1>5, <1>8, <1>12
  <2>2. c = Zero => s[k] = Zero
    BY <2>1, WeightLaws
  <2> QED BY <1>8, <1>13, <2>2 DEF NonZero
<1> DEFINE f == Rescaled(c, e)
<1>15. f \in EdgesTo(nodes[NumQubits])
  BY <1>1, <1>2, <1>14, RescaledEdges
<1>16. f \in ReducedEdge(V, "Inverse") /\ f \in Edge(V)
  BY <1>2, <1>3, <1>15
<1>17. ASSUME NEW i \in 1..size PROVE s[i] = Vector(f)[i]
  <2>1. i - 1 \in Nat /\ Vector(f)[i] = amplitudeRec[<<f, i - 1, NumQubits>>]
    BY <1>16, VectorIs DEF size
  <2>2. amplitudeRec[<<f, i - 1, NumQubits>>] = Multiply(c, amplitudeRec[<<e, i - 1, NumQubits>>])
    BY <1>1, <1>4, <1>13, <1>16, <2>1, AmplitudeRescaled
  <2> QED BY <1>10, <1>12, <2>1, <2>2
<1>18. f.p = e.p
  BY DEF Rescaled
<1> HIDE DEF f
<1>19. makeStateFromVector(s) = f
  BY <1>5, <1>16, <1>17, MadeAgain DEF size
<1> QED BY <1>9, <1>18, <1>19

\* The child that an entry is read from.
Corner(i, j, k) == 2 * Bit(i, k) + Bit(j, k) + 1
EntryChild(e, i, j, l) == mChildrenAt(e.p, l - 1)[Corner(i, j, l - 1)]
EntryCall(e, i, j, l) == <<EntryChild(e, i, j, l), i, j, l - 1>>

\* It is one of four.
LEMMA CornerType ==
    ASSUME NEW i \in Nat, NEW j \in Nat, NEW k \in Nat
    PROVE  Corner(i, j, k) \in 1..M
<1>1. Bit(i, k) \in {0, 1} /\ Bit(j, k) \in {0, 1}
  BY BitType
<1> QED BY <1>1 DEF Corner, M

\* One call of matrixEntry.
LEMMA EntryStepAt ==
    ASSUME NEW f, NEW e, NEW i, NEW j, NEW l
    PROVE  entryStep(f, e, i, j, l) =
              IF l = 0 THEN e.w
              ELSE IF isZero(e.w) THEN Zero
              ELSE Multiply(e.w, f[EntryCall(e, i, j, l)])
BY DEF entryStep, EntryCall, EntryChild, Corner

\* A call is for an edge of the level below.
LEMMA EntryCallType ==
    ASSUME NEW e \in Edge(M), NEW i \in Nat, NEW j \in Nat, NEW l \in Nat, l > 0, l <= NumQubits
    PROVE  EntryChild(e, i, j, l) \in Edge(M)
<1> DEFINE k == l - 1
<1>1. k \in Nat /\ k \in 0..NumQubits
  BY QubitsAssumption
<1>2. EntryChild(e, i, j, l) = mChildrenAt(e.p, k)[Corner(i, j, k)]
  BY DEF EntryChild
<1> HIDE DEF k
<1>3. mChildrenAt(e.p, k) \in [1..M -> Edge(M)]
  BY <1>1, AnyChildren
<1>4. mChildrenAt(e.p, k)[Corner(i, j, k)] \in Edge(M)
  BY <1>1, <1>3, CornerType
<1> QED BY <1>1, <1>2, <1>4 DEF k

\* matrixEntry is the function that its calls define.
LEMMA EntryRecursion ==
    ASSUME NEW e \in Edge(M), NEW i \in Nat, NEW j \in Nat, NEW l \in 0..NumQubits
    PROVE  matrixEntryRec[<<e, i, j, l>>] =
              IF l = 0 THEN e.w
              ELSE IF isZero(e.w) THEN Zero
              ELSE Multiply(e.w, matrixEntryRec[EntryCall(e, i, j, l)])
<1> DEFINE D == Edge(M) \X Nat \X Nat \X (0..NumQubits)
           mu == [at \in D |-> at[4]]
           Good == [at \in D |-> Weight]
           G == Selections(D, Good)
           comb == [ag \in D \X G |-> entryStep(ag[2], ag[1][1], ag[1][2], ag[1][3], ag[1][4])]
<1>1. NumQubits \in Nat
  BY QubitsAssumption
<1>2. D = Edge(M) \X Nat \X Nat \X (0..NumQubits)
  OBVIOUS
<1>3. \A g \in G : \A at \in D : comb[<<at, g>>] = entryStep(g, at[1], at[2], at[3], at[4])
  <2> HIDE DEF D, G
  <2> QED OBVIOUS
<1>4. \A at \in D : mu[at] = at[4] /\ Good[at] = Weight
  OBVIOUS
<1>5. mu = [at \in D |-> mu[at]]
  OBVIOUS
<1>6. \A g \in G : g = [at \in D |-> g[at]] /\ \A at \in D : g[at] \in Weight
  <2>1. \A at \in D : Good[at] = Weight
    OBVIOUS
  <2> HIDE DEF D, Good
  <2> QED BY <2>1 DEF Selections
<1> HIDE DEF D, mu, Good, G, comb
<1>7. ASSUME NEW at \in D
      PROVE  /\ at = <<at[1], at[2], at[3], at[4]>> /\ at[1] \in Edge(M) /\ at[2] \in Nat /\ at[3] \in Nat
             /\ at[4] \in Nat /\ at[4] <= NumQubits /\ at[1].w \in Weight
  <2>1. at[1] \in Edge(M)
    BY <1>2
  <2>2. at[1].w \in Weight
    BY <2>1 DEF Edge, EdgesTo
  <2> QED BY <1>1, <1>2, <2>2
<1>8. mu \in [D -> Nat]
  BY <1>4, <1>5, <1>7
<1>9. ASSUME NEW at \in D, at[4] # 0
      PROVE  LET c == EntryCall(at[1], at[2], at[3], at[4]) IN c \in D /\ mu[c] < mu[at]
  <2> DEFINE c == EntryCall(at[1], at[2], at[3], at[4])
  <2>1. at[4] > 0
    BY <1>7, <1>9
  <2>2. c \in D /\ c[4] = at[4] - 1
    <3> DEFINE e1 == at[1]
               i1 == at[2]
               j1 == at[3]
               l1 == at[4]
    <3>1. e1 \in Edge(M) /\ i1 \in Nat /\ j1 \in Nat /\ l1 \in Nat /\ l1 > 0 /\ l1 <= NumQubits
      BY <1>7, <2>1
    <3>2. c = EntryCall(e1, i1, j1, l1)
      OBVIOUS
    <3> HIDE DEF e1, i1, j1, l1, c
    <3>3. e1 \in Edge(M)
      BY <3>1
    <3>4. i1 \in Nat
      BY <3>1
    <3>5. j1 \in Nat
      BY <3>1
    <3>6. l1 \in Nat /\ l1 > 0 /\ l1 <= NumQubits
      BY <3>1
    <3>7. EntryChild(e1, i1, j1, l1) \in Edge(M)
      BY <3>3, <3>4, <3>5, <3>6, EntryCallType
    <3>9. EntryCall(e1, i1, j1, l1) = <<EntryChild(e1, i1, j1, l1), i1, j1, l1 - 1>>
      BY DEF EntryCall
    <3>8. l1 - 1 \in 0..NumQubits
      BY <1>1, <3>1
    <3> QED BY <1>2, <3>1, <3>2, <3>7, <3>8, <3>9 DEF l1
  <2> HIDE DEF c
  <2>3. mu[c] < mu[at]
    BY <1>4, <1>7, <2>2
  <2> QED BY <2>2, <2>3 DEF c
<1>10. ASSUME NEW at \in D, NEW g \in G PROVE entryStep(g, at[1], at[2], at[3], at[4]) \in Weight
  <2> DEFINE c == EntryCall(at[1], at[2], at[3], at[4])
             w == at[1].w
             level == at[4]
  <2>1. entryStep(g, at[1], at[2], at[3], at[4]) =
           IF level = 0 THEN w ELSE IF isZero(w) THEN Zero ELSE Multiply(w, g[c])
    BY EntryStepAt
  <2>2. level # 0 => g[c] \in Weight
    BY <1>6, <1>9
  <2>3. w \in Weight
    BY <1>7
  <2> HIDE DEF c, w, level
  <2>4. Zero \in Weight
    BY WeightLaws
  <2>5. level # 0 => Multiply(w, g[c]) \in Weight
    BY <2>2, <2>3, WeightClosure
  <2> QED BY <2>1, <2>3, <2>4, <2>5
<1>11. WellFounded(D, mu, Good, comb)
  <2>1. \A at \in D : Good[at] # {}
    BY <1>4, WeightLaws
  <2>2. \A at \in D : \A g \in G : comb[<<at, g>>] \in Good[at]
    BY <1>3, <1>4, <1>10
  <2>3. ASSUME NEW at \in D, NEW g \in G, NEW h \in G, \A c \in D : mu[c] < mu[at] => g[c] = h[c]
        PROVE  comb[<<at, g>>] = comb[<<at, h>>]
    <3> DEFINE c == EntryCall(at[1], at[2], at[3], at[4])
               w == at[1].w
               level == at[4]
    <3>1. level # 0 => g[c] = h[c]
      BY <1>9, <2>3
    <3>2. entryStep(g, at[1], at[2], at[3], at[4]) =
             IF level = 0 THEN w ELSE IF isZero(w) THEN Zero ELSE Multiply(w, g[c])
      BY EntryStepAt
    <3>3. entryStep(h, at[1], at[2], at[3], at[4]) =
             IF level = 0 THEN w ELSE IF isZero(w) THEN Zero ELSE Multiply(w, h[c])
      BY EntryStepAt
    <3> HIDE DEF c, w, level
    <3> QED BY <1>3, <3>1, <3>2, <3>3
  <2> QED BY <1>8, <2>1, <2>2, <2>3 DEF WellFounded, G
<1>12. PICK f \in G : \A at \in D : f[at] = comb[<<at, f>>]
  BY <1>11, RecursionExists DEF G
<1>13. f = [at \in D |-> entryStep(f, at[1], at[2], at[3], at[4])]
  BY <1>3, <1>6, <1>12
<1>14. matrixEntryRec = [at \in D |-> entryStep(matrixEntryRec, at[1], at[2], at[3], at[4])]
  BY <1>13 DEF matrixEntryRec, D
<1>15. matrixEntryRec[<<e, i, j, l>>] = entryStep(matrixEntryRec, e, i, j, l)
  BY <1>2, <1>14
<1> QED BY <1>15, EntryStepAt

\* Entries are weights.
LEMMA EntryType ==
    ASSUME NEW e \in Edge(M), NEW i \in Nat, NEW j \in Nat, NEW l \in 0..NumQubits
    PROVE  matrixEntryRec[<<e, i, j, l>>] \in Weight
<1> DEFINE S == {n \in Nat : n <= NumQubits => \A d \in Edge(M), s \in Nat, t \in Nat :
                                matrixEntryRec[<<d, s, t, n>>] \in Weight}
<1>1. NumQubits \in Nat
  BY QubitsAssumption
<1>2. ASSUME NEW n \in Nat, n <= NumQubits, NEW d \in Edge(M), NEW s \in Nat, NEW t \in Nat, n > 0 => n - 1 \in S
      PROVE  matrixEntryRec[<<d, s, t, n>>] \in Weight
  <2> DEFINE w == d.w
             c == EntryCall(d, s, t, n)
             z == matrixEntryRec[c]
  <2>1. w \in Weight /\ n \in 0..NumQubits
    BY <1>1, <1>2 DEF Edge, EdgesTo
  <2>2. matrixEntryRec[<<d, s, t, n>>] = IF n = 0 THEN w ELSE IF isZero(w) THEN Zero ELSE Multiply(w, z)
    BY <2>1, EntryRecursion
  <2>3. ASSUME n > 0 PROVE z \in Weight
    <3>1. n \in Nat /\ n > 0 /\ n <= NumQubits
      BY <1>2, <2>3
    <3>2. d \in Edge(M) /\ s \in Nat /\ t \in Nat
      BY <1>2
    <3> DEFINE f == EntryChild(d, s, t, n)
    <3>3. f \in Edge(M) /\ c = <<f, s, t, n - 1>>
      <4>1. f \in Edge(M)
        BY <3>1, <3>2, EntryCallType
      <4> QED BY <4>1 DEF EntryCall
    <3>4. n - 1 \in S /\ n - 1 <= NumQubits
      BY <1>1, <1>2, <2>3
    <3> HIDE DEF c, f
    <3>5. matrixEntryRec[<<f, s, t, n - 1>>] \in Weight
      BY <3>3, <3>4
    <3> QED BY <3>3, <3>5
  <2> HIDE DEF w, z
  <2>4. n > 0 => Multiply(w, z) \in Weight
    BY <2>1, <2>3, WeightClosure
  <2>5. Zero \in Weight
    BY WeightLaws
  <2> QED BY <2>1, <2>2, <2>4, <2>5
<1> HIDE DEF S
<1>3. 0 \in S
  <2>1. \A d \in Edge(M), s \in Nat, t \in Nat : 0 <= NumQubits => matrixEntryRec[<<d, s, t, 0>>] \in Weight
    BY <1>2
  <2> QED BY <2>1 DEF S
<1>4. ASSUME NEW n \in Nat, n \in S PROVE n + 1 \in S
  <2>1. n + 1 \in Nat /\ (n + 1) - 1 = n
    OBVIOUS
  <2>2. \A d \in Edge(M), s \in Nat, t \in Nat : n + 1 <= NumQubits => matrixEntryRec[<<d, s, t, n + 1>>] \in Weight
    BY <1>2, <1>4, <2>1
  <2> QED BY <2>1, <2>2 DEF S
<1>5. Nat \subseteq S
  BY <1>3, <1>4, SetInduction
<1> QED BY <1>1, <1>5 DEF S

\* That an edge of weight 0 ends the recursion makes no difference.
LEMMA EntryEquation ==
    ASSUME NEW e \in Edge(M), NEW i \in Nat, NEW j \in Nat, NEW l \in 0..NumQubits
    PROVE  /\ matrixEntryRec[<<e, i, j, l>>]
                 = IF l = 0 THEN e.w ELSE Multiply(e.w, matrixEntryRec[EntryCall(e, i, j, l)])
           /\ l # 0 => matrixEntryRec[EntryCall(e, i, j, l)] \in Weight
<1> DEFINE w == e.w
           c == EntryCall(e, i, j, l)
           z == matrixEntryRec[c]
<1>1. matrixEntryRec[<<e, i, j, l>>] = IF l = 0 THEN w ELSE IF isZero(w) THEN Zero ELSE Multiply(w, z)
  BY EntryRecursion
<1>2. ASSUME l # 0 PROVE z \in Weight
  <2>1. l \in Nat /\ l > 0 /\ l <= NumQubits
    BY <1>2, QubitsAssumption
  <2> DEFINE d == EntryChild(e, i, j, l)
  <2>2. d \in Edge(M) /\ c = <<d, i, j, l - 1>>
    <3>1. d \in Edge(M)
      BY <2>1, EntryCallType
    <3> QED BY <3>1 DEF EntryCall
  <2>3. l - 1 \in 0..NumQubits
    BY <2>1, QubitsAssumption
  <2> HIDE DEF c, d
  <2>4. d \in Edge(M)
    BY <2>2
  <2>5. matrixEntryRec[<<d, i, j, l - 1>>] \in Weight
    BY <2>3, <2>4, EntryType
  <2> QED BY <2>2, <2>5
<1>3. w \in Weight
  BY DEF Edge, EdgesTo
<1> HIDE DEF w, z
<1>4. l # 0 /\ isZero(w) => Multiply(w, z) = Zero
  BY <1>2, <1>3, WeightLaws
<1> QED BY <1>1, <1>2, <1>4 DEF w, z

\* The entries of an edge that is rescaled are.
LEMMA EntryRescaled ==
    ASSUME NEW e \in Edge(M), NEW c \in Weight, Rescaled(c, e) \in Edge(M),
           NEW i \in Nat, NEW j \in Nat, NEW l \in 0..NumQubits
    PROVE  matrixEntryRec[<<Rescaled(c, e), i, j, l>>] = Multiply(c, matrixEntryRec[<<e, i, j, l>>])
<1> DEFINE d == Rescaled(c, e)
           call == EntryCall(e, i, j, l)
           w == e.w
           z == matrixEntryRec[call]
<1>1. w \in Weight
  BY DEF Edge, EdgesTo
<1>2. d.w = Multiply(c, w) /\ EntryCall(d, i, j, l) = call /\ d \in Edge(M)
  BY DEF Rescaled, EntryCall, EntryChild
<1> HIDE DEF d
<1>3. matrixEntryRec[<<e, i, j, l>>] = IF l = 0 THEN w ELSE Multiply(w, z)
  BY EntryEquation
<1>4. l # 0 => z \in Weight
  BY EntryEquation
<1>5. matrixEntryRec[<<d, i, j, l>>] = IF l = 0 THEN d.w ELSE Multiply(d.w, matrixEntryRec[EntryCall(d, i, j, l)])
  BY <1>2, EntryEquation
<1>6. matrixEntryRec[<<d, i, j, l>>] = IF l = 0 THEN Multiply(c, w) ELSE Multiply(Multiply(c, w), z)
  BY <1>2, <1>5
<1> HIDE DEF call, w, z
<1>7. l # 0 => Multiply(Multiply(c, w), z) = Multiply(c, Multiply(w, z))
  BY <1>1, <1>4, WeightLaws
<1> QED BY <1>3, <1>6, <1>7 DEF d

\* The entries of a square block are those of an edge.
SquareMatches(matrix, e, j, k, l) ==
    \A s \in Nat, t \in Nat :
        /\ j * Pow2[l] <= s /\ s < (j + 1) * Pow2[l]
        /\ k * Pow2[l] <= t /\ t < (k + 1) * Pow2[l]
        => matrix[s + 1][t + 1] = matrixEntryRec[<<e, s, t, l>>]

\* Row and column of a corner are the bits it is for.
LEMMA CornerOf ==
    ASSUME NEW i \in 1..M, NEW s \in Nat, NEW t \in Nat, NEW k \in Nat,
           Bit(s, k) = Row(i), Bit(t, k) = Col(i)
    PROVE  Corner(s, t, k) = i
<1>1. i = 1 \/ i = 2 \/ i = 3 \/ i = 4
  BY DEF M
<1> QED BY <1>1 DEF Corner, Row, Col

\* Then those of its quarters are those of the edges it stands for.
LEMMA QuartersMatch ==
    ASSUME NEW nodes, Family(M, "Inverse", nodes), NEW matrix, NEW j \in Nat, NEW k \in Nat,
           NEW n \in Nat, n < NumQubits, NEW e \in EdgesTo(nodes[n + 1]), SquareMatches(matrix, e, j, k, n + 1),
           NEW i \in 1..M
    PROVE  SquareMatches(matrix, Below(M, e, n)[i], 2 * j + Row(i), 2 * k + Col(i), n)
<1> DEFINE row == Row(i)
           col == Col(i)
<1>1. row \in {0, 1} /\ col \in {0, 1}
  BY RowCol
<1> HIDE DEF row, col
<1> SUFFICES ASSUME NEW s \in Nat, NEW t \in Nat,
                    (2 * j + row) * Pow2[n] <= s, s < (2 * j + row + 1) * Pow2[n],
                    (2 * k + col) * Pow2[n] <= t, t < (2 * k + col + 1) * Pow2[n]
             PROVE  matrix[s + 1][t + 1] = matrixEntryRec[<<Below(M, e, n)[i], s, t, n>>]
  BY DEF SquareMatches, row, col
<1> DEFINE child == mChildrenAt(e.p, n)[i]
           w == e.w
           l == n + 1
<1>2. l \in Nat /\ n <= NumQubits /\ l <= NumQubits /\ n \in 0..NumQubits /\ l \in 0..NumQubits /\ l # 0 /\ l - 1 = n /\ NumQubits \in Nat
  BY QubitsAssumption
<1>3. Bit(s, n) = row /\ j * Pow2[l] <= s /\ s < (j + 1) * Pow2[l]
  BY <1>1, BlockBit
<1>4. Bit(t, n) = col /\ k * Pow2[l] <= t /\ t < (k + 1) * Pow2[l]
  BY <1>1, BlockBit
<1>5. matrix[s + 1][t + 1] = matrixEntryRec[<<e, s, t, l>>]
  BY <1>3, <1>4 DEF SquareMatches
<1>6. EdgesTo(nodes[n]) \subseteq Edge(M) /\ EdgesTo(nodes[l]) \subseteq Edge(M)
  <2>1. EdgesTo(nodes[n]) \subseteq EdgesTo(nodes[NumQubits])
    BY <1>2, HigherEdges
  <2> HIDE DEF l
  <2>2. EdgesTo(nodes[l]) \subseteq EdgesTo(nodes[NumQubits])
    BY <1>2, HigherEdges
  <2>3. EdgesTo(nodes[NumQubits]) \subseteq Edge(M)
    BY <1>2, FamilyInNodes DEF Edge
  <2> QED BY <2>1, <2>2, <2>3
<1>7. /\ Below(M, e, n) \in [1..M -> EdgesTo(nodes[n])]
      /\ childrenAt(M, e.p, n) \in [1..M -> EdgesTo(nodes[n])]
  BY BelowEdges
<1>8. childrenAt(M, e.p, n) = mChildrenAt(e.p, n)
  BY DEF childrenAt, V, M
<1>9. child \in EdgesTo(nodes[n]) /\ Below(M, e, n)[i] = Rescaled(w, child) /\ Below(M, e, n)[i] \in EdgesTo(nodes[n])
  BY <1>7, <1>8 DEF Below
<1>10. e \in Edge(M) /\ w \in Weight
  <2>1. e \in EdgesTo(nodes[l])
    OBVIOUS
  <2>2. e.w \in Weight
    BY <2>1, EdgeFields
  <2> QED BY <1>6, <2>1, <2>2
<1>11. Corner(s, t, n) = i
  BY <1>3, <1>4, CornerOf DEF row, col
<1>12. EntryCall(e, s, t, l) = <<child, s, t, n>>
  BY <1>2, <1>11 DEF EntryCall, EntryChild
<1> HIDE DEF l, child
<1>13. matrixEntryRec[<<e, s, t, l>>] = Multiply(w, matrixEntryRec[<<child, s, t, n>>])
  BY <1>2, <1>10, <1>12, EntryEquation
<1> HIDE DEF w
<1>14. child \in Edge(M) /\ Rescaled(w, child) \in Edge(M)
  BY <1>6, <1>9
<1>15. matrixEntryRec[<<Rescaled(w, child), s, t, n>>] = Multiply(w, matrixEntryRec[<<child, s, t, n>>])
  BY <1>2, <1>10, <1>14, EntryRescaled
<1> QED BY <1>5, <1>9, <1>13, <1>15

(***************************************************************************)
(* Under Inverse the edge that makeDDFromMatrix returns for the entries of *)
(* a reduced edge is that edge, block by block.                            *)
(***************************************************************************)
LEMMA SquareMakes ==
    ASSUME strategy = "Inverse", NEW nodes, Family(M, "Inverse", nodes),
           NEW matrix \in SquareMatrix,
           NEW e \in EdgesTo(nodes[NumQubits]), SquareMatches(matrix, e, 0, 0, NumQubits)
    PROVE  makeDDFromMatrix(matrix) = e
<1> DEFINE rec == makeDDFromMatrixRec(matrix)
           Inside(j, l) == (j + 1) * Pow2[l] <= Pow2[NumQubits]
           S == {l \in Nat : l <= NumQubits => \A j \in Nat, k \in Nat : Inside(j, l) /\ Inside(k, l) =>
                    \A d \in EdgesTo(nodes[l]) : SquareMatches(matrix, d, j, k, l) => rec[<<j, k, l>>] = d}
<1>1. NumQubits \in Nat /\ strategy \in Strategies
  BY QubitsAssumption DEF Strategies
<1>2. ASSUME NEW l \in 0..NumQubits, NEW j \in Nat, NEW k \in Nat, Inside(j, l), Inside(k, l)
      PROVE  rec[<<j, k, l>>] = IF l = 0 THEN terminal(matrix[j + 1][k + 1])
                                ELSE makeEdge(M, l - 1, Quarters(rec, j, k, l))
  <2>1. rec[<<j, k, l>>] = matrixStep(matrix, rec, j, k, l)
    BY <1>1, <1>2, MatrixEquation
  <2> QED BY <2>1 DEF matrixStep, makeMEdge, Quarters, Quarter
<1> HIDE DEF rec
<1>3. ASSUME NEW d \in EdgesTo(nodes[0]), NEW j \in Nat, NEW k \in Nat, Inside(j, 0), Inside(k, 0),
             SquareMatches(matrix, d, j, k, 0)
      PROVE  rec[<<j, k, 0>>] = d
  <2>1. 0 \in 0..NumQubits /\ Pow2[0] = 1
    BY <1>1, Pow2Def
  <2>2. rec[<<j, k, 0>>] = terminal(matrix[j + 1][k + 1])
    BY <1>2, <1>3, <2>1
  <2>3. matrix[j + 1][k + 1] = matrixEntryRec[<<d, j, k, 0>>]
    BY <1>3, <2>1 DEF SquareMatches
  <2>4. d = [p |-> d.p, w |-> d.w] /\ d.p \in nodes[0]
    BY <1>3, EdgeFields
  <2>5. d.p = Null
    BY <2>4 DEF Family
  <2>6. d \in Edge(M)
    <3>1. EdgesTo(nodes[0]) \subseteq EdgesTo(nodes[NumQubits])
      BY <1>1, HigherEdges
    <3>2. EdgesTo(nodes[NumQubits]) \subseteq Edge(M)
      BY <1>1, FamilyInNodes DEF Edge
    <3> QED BY <1>3, <3>1, <3>2
  <2>7. matrixEntryRec[<<d, j, k, 0>>] = d.w
    BY <2>1, <2>6, EntryEquation
  <2> QED BY <2>2, <2>3, <2>4, <2>5, <2>7 DEF terminal
<1>4. 0 \in S
  BY <1>3
<1>5. ASSUME NEW n \in Nat, n \in S, n + 1 <= NumQubits, NEW j \in Nat, NEW k \in Nat,
             Inside(j, n + 1), Inside(k, n + 1),
             NEW d \in EdgesTo(nodes[n + 1]), SquareMatches(matrix, d, j, k, n + 1)
      PROVE  rec[<<j, k, n + 1>>] = d
  <2> DEFINE fs == Below(M, d, n)
             l == n + 1
  <2>1. l \in 0..NumQubits /\ l \in Nat \ {0} /\ l - 1 = n /\ n < NumQubits /\ n <= NumQubits
    BY <1>1, <1>5
  <2>2. fs \in [1..M -> EdgesTo(nodes[n])]
    BY <1>5, BelowEdges
  <2>3. makeEdge(M, n, fs) = d
    BY <1>5, Remade
  <2>4. ASSUME NEW i \in 1..M PROVE SquareMatches(matrix, fs[i], 2 * j + Row(i), 2 * k + Col(i), n)
    BY <1>5, <2>1, QuartersMatch
  <2>5. (j + 1) * Pow2[l] <= Pow2[NumQubits] /\ (k + 1) * Pow2[l] <= Pow2[NumQubits]
    BY <1>5
  <2> HIDE DEF fs, l
  <2>6. ASSUME NEW i \in 1..M PROVE rec[Quarter(j, k, l, i)] = fs[i]
    <3> DEFINE h == 2 * j + Row(i)
               g == 2 * k + Col(i)
    <3>1. h \in Nat /\ Inside(h, n) /\ g \in Nat /\ Inside(g, n)
      BY <2>1, <2>5, QuarterBlocks
    <3>2. fs[i] \in EdgesTo(nodes[n])
      BY <2>2
    <3>3. SquareMatches(matrix, fs[i], h, g, n)
      BY <2>4
    <3>4. Quarter(j, k, l, i) = <<h, g, n>>
      BY <2>1 DEF Quarter
    <3> HIDE DEF h, g
    <3>5. rec[<<h, g, n>>] = fs[i]
      BY <1>5, <2>1, <3>1, <3>2, <3>3
    <3> QED BY <3>4, <3>5
  <2>7. fs = Quarters(rec, j, k, l)
    <3>1. M \in Nat
      BY DEF M
    <3> QED BY <2>2, <2>6, <3>1 DEF Quarters
  <2>8. rec[<<j, k, l>>] = makeEdge(M, n, Quarters(rec, j, k, l))
    BY <1>2, <2>1, <2>5
  <2> QED BY <2>3, <2>7, <2>8 DEF fs, l
<1>6. ASSUME NEW n \in Nat, n \in S PROVE n + 1 \in S
  BY <1>5, <1>6
<1>7. Nat \subseteq S
  <2> HIDE DEF S
  <2> QED BY <1>4, <1>6, SetInduction
<1>8. NumQubits \in S /\ 0 \in Nat /\ Inside(0, NumQubits)
  BY <1>1, <1>7, Pow2Def
<1>9. rec[<<0, 0, NumQubits>>] = e
  BY <1>1, <1>8
<1> QED BY <1>9 DEF makeDDFromMatrix, rec

\* The matrix of an edge.
LEMMA MatrixIs ==
    ASSUME NEW e \in Edge(M)
    PROVE  /\ Matrix(e) \in SquareMatrix
           /\ \A i \in 1..Pow2[NumQubits], j \in 1..Pow2[NumQubits] :
                 Matrix(e)[i][j] = matrixEntryRec[<<e, i - 1, j - 1, NumQubits>>]
<1> DEFINE size == Pow2[NumQubits]
           fs(i) == [j \in 1..size |-> matrixEntry(e, i - 1, j - 1)]
           RowOf(i) == Listed(fs(i))
           rows == [i \in 1..size |-> RowOf(i)]
<1>1. NumQubits \in 0..NumQubits /\ size \in Nat
  BY QubitsAssumption, Pow2Def
<1>2. Matrix(e) = Listed(rows)
  BY DEF Matrix
<1>3. \A i \in 1..size : rows[i] = RowOf(i)
  OBVIOUS
<1>4. rows = [i \in 1..size |-> rows[i]]
  OBVIOUS
<1> HIDE DEF size, rows
<1>5. ASSUME NEW i \in 1..size
      PROVE  RowOf(i) \in [1..size -> Weight] /\ \A j \in 1..size : RowOf(i)[j] = matrixEntryRec[<<e, i - 1, j - 1, NumQubits>>]
  <2> DEFINE fi == fs(i)
             s == i - 1
  <2>1. s \in Nat
    BY <1>1
  <2>2. \A j \in 1..size : fi[j] = matrixEntryRec[<<e, s, j - 1, NumQubits>>]
    BY DEF matrixEntry
  <2>3. fi = [j \in 1..size |-> fi[j]]
    OBVIOUS
  <2>4. RowOf(i) = Listed(fi)
    OBVIOUS
  <2> HIDE DEF fi, s
  <2>5. ASSUME NEW j \in 1..size PROVE fi[j] \in Weight
    <3> DEFINE t == j - 1
    <3>1. t \in Nat /\ fi[j] = matrixEntryRec[<<e, s, t, NumQubits>>]
      BY <1>1, <2>2
    <3> HIDE DEF t
    <3>2. matrixEntryRec[<<e, s, t, NumQubits>>] \in Weight
      BY <1>1, <2>1, <3>1, EntryType
    <3> QED BY <3>1, <3>2
  <2>6. fi \in [1..size -> Weight]
    BY <2>3, <2>5
  <2>7. Listed(fi) = fi
    BY <1>1, <2>6, ListedSame
  <2> QED BY <2>2, <2>4, <2>6, <2>7 DEF s
<1> HIDE DEF RowOf
<1>6. rows \in [1..size -> [1..size -> Weight]]
  BY <1>3, <1>4, <1>5
<1> DEFINE Line == [1..size -> Weight]
<1> HIDE DEF Line
<1>7. rows \in [1..size -> Line]
  BY <1>6 DEF Line
<1>8. Listed(rows) = rows
  BY <1>1, <1>7, ListedSame
<1> QED BY <1>2, <1>3, <1>5, <1>6, <1>8 DEF SquareMatrix, size

\* A reduced edge is made again from its matrix.
LEMMA MatrixMadeAgain ==
    ASSUME strategy = "Inverse", NEW e \in ReducedEdge(M, "Inverse")
    PROVE  makeDDFromMatrix(Matrix(e)) = e
<1> DEFINE nodes == ReducedNodes(M, "Inverse")
           matrix == Matrix(e)
<1>1. Family(M, "Inverse", nodes) /\ NumQubits \in Nat
  BY Families, QubitsAssumption
<1>2. e \in EdgesTo(nodes[NumQubits])
  BY DEF ReducedEdge
<1> HIDE DEF nodes
<1>3. e \in Edge(M)
  BY <1>1, <1>2, FamilyInNodes DEF Edge
<1>4. /\ matrix \in SquareMatrix
      /\ \A i \in 1..Pow2[NumQubits], j \in 1..Pow2[NumQubits] :
            matrix[i][j] = matrixEntryRec[<<e, i - 1, j - 1, NumQubits>>]
  BY <1>3, MatrixIs
<1> HIDE DEF matrix
<1>5. SquareMatches(matrix, e, 0, 0, NumQubits)
  <2>1. SUFFICES ASSUME NEW s \in Nat, NEW t \in Nat,
                        0 * Pow2[NumQubits] <= s, s < (0 + 1) * Pow2[NumQubits],
                        0 * Pow2[NumQubits] <= t, t < (0 + 1) * Pow2[NumQubits]
                 PROVE  matrix[s + 1][t + 1] = matrixEntryRec[<<e, s, t, NumQubits>>]
    BY DEF SquareMatches
  <2>2. s + 1 \in 1..Pow2[NumQubits] /\ (s + 1) - 1 = s /\ t + 1 \in 1..Pow2[NumQubits] /\ (t + 1) - 1 = t
    BY <1>1, <2>1, Pow2Def
  <2>3. matrix[s + 1][t + 1] = matrixEntryRec[<<e, (s + 1) - 1, (t + 1) - 1, NumQubits>>]
    BY <1>4, <2>2
  <2> QED BY <2>2, <2>3
<1>6. makeDDFromMatrix(matrix) = e
  BY <1>1, <1>2, <1>4, <1>5, SquareMakes
<1> QED BY <1>6 DEF matrix

\* The edges of the client are canonical.
LEMMA ReducedIsCanonical == IInv => InverseIsCanonical
<1> SUFFICES ASSUME IInv, strategy = "Inverse" PROVE EqualEdges
  BY DEF InverseIsCanonical
<1>1. /\ x \in ReducedEdge(V, "Inverse") /\ y \in ReducedEdge(V, "Inverse") /\ m \in ReducedEdge(M, "Inverse")
      /\ u = Vector(x) /\ v = Vector(y) /\ a = Matrix(m)
  BY DEF IInv, AlwaysReduced
<1>2. x \in Edge(V) /\ y \in Edge(V)
  BY ReducedFacts
<1>3. makeStateFromVector(u) = x
  <2>1. Vector(x) \in [1..Pow2[NumQubits] -> Weight]
    BY <1>2, VectorIs
  <2> QED BY <1>1, <2>1, MadeAgain
<1>4. makeDDFromMatrix(a) = m
  BY <1>1, MatrixMadeAgain
<1>5. ASSUME ~isZero(x.w), ~isZero(y.w) PROVE Proportional(u, v) <=> x.p = y.p
  <2>1. x.w \in Weight /\ y.w \in Weight
    BY <1>2 DEF Edge, EdgesTo
  <2>2. x.w # Zero /\ y.w # Zero
    BY <1>5, <2>1, WeightLaws
  <2>3. x.p = y.p => Proportional(u, v)
    BY <1>1, <1>2, SameNode
  <2>4. Proportional(u, v) => x.p = y.p
    BY <1>1, <2>2, SameFactor
  <2> QED BY <2>3, <2>4
<1> QED BY <1>3, <1>4, <1>5 DEF EqualEdges

(***************************************************************************)
(* The canonical form of Inverse: whatever operations an edge comes from,  *)
(* it is the one that is made from its vector or its matrix, and vectors   *)
(* have the same node exactly if they are proportional.                    *)
(***************************************************************************)
THEOREM InverseAlwaysCanonical == Spec => []InverseIsCanonical
<1> QED BY InitReduced, NextReduced, ReducedIsCanonical, PTL DEF Spec

(***************************************************************************)
(* What amplitude and matrixEntry read of an edge, for vectors (j is not   *)
(* used) and matrices alike.                                               *)
(***************************************************************************)
\* The diagrams for the qubits below l.
Lev(arity, l) == EdgesTo(Nodes(arity, 0)[l])

Read(arity, e, i, j, l) ==
    IF arity = V THEN amplitudeRec[<<e, i, l>>] ELSE matrixEntryRec[<<e, i, j, l>>]

\* The child that is read of a node for qubit k.
Digit(arity, i, j, k) == IF arity = V THEN Bit(i, k) + 1 ELSE Corner(i, j, k)

\* The arities and the levels.
LEMMA LevFacts ==
    ASSUME NEW arity \in {V, M}, NEW l \in Nat
    PROVE  /\ V = 2 /\ M = 4 /\ V # M /\ arity \in Nat /\ NumQubits \in Nat
           /\ l <= NumQubits => Lev(arity, l) \subseteq Edge(arity)
           /\ \A k \in Nat : l <= k => Lev(arity, l) \subseteq Lev(arity, k)
           /\ zero \in Lev(arity, l) /\ identity \in Lev(arity, l)
           /\ \A w \in Weight : terminal(w) \in Lev(arity, l)
           /\ \A e \in Lev(arity, l) : /\ e.w \in Weight /\ e.p.var \in Int /\ e.p.var < l
                                       /\ e.w = Zero => e = zero
           /\ Family(arity, "Any", Nodes(arity, 0)) /\ Makes("Any")
<1>1. V = 2 /\ M = 4 /\ V # M /\ arity \in Nat /\ NumQubits \in Nat
  BY QubitsAssumption DEF V, M
<1>2. Family(arity, "Any", Nodes(arity, 0)) /\ Makes("Any")
  BY Families DEF Makes
<1> DEFINE nodes == Nodes(arity, 0)
<1>3. Family(arity, "Any", nodes)
  BY <1>2
<1>4. Lev(arity, l) = EdgesTo(nodes[l]) /\ Edge(arity) = EdgesTo(nodes[NumQubits])
  BY DEF Lev, Edge
<1>5. \A k \in Nat : Lev(arity, k) = EdgesTo(nodes[k])
  BY DEF Lev
<1> HIDE DEF nodes
<1>6. \A k \in Nat : l <= k => Lev(arity, l) \subseteq Lev(arity, k)
  BY <1>3, <1>5, HigherEdges
<1>7. l <= NumQubits => Lev(arity, l) \subseteq Edge(arity)
  BY <1>1, <1>4, <1>5, <1>6
<1>8. /\ zero \in Lev(arity, l) /\ identity \in Lev(arity, l)
      /\ \A w \in Weight : terminal(w) \in Lev(arity, l)
  BY <1>3, <1>4, TerminalEdges
<1>9. ASSUME NEW e \in Lev(arity, l)
      PROVE  e.w \in Weight /\ e.p.var \in Int /\ e.p.var < l /\ (e.w = Zero => e = zero)
  <2>1. e \in EdgesTo(nodes[l])
    BY <1>4
  <2>2. e = [p |-> e.p, w |-> e.w] /\ e.w \in Weight /\ (e.w = Zero => e.p = Null)
    BY <2>1, EdgeFields
  <2>3. Height(e) \in Nat /\ Height(e) <= l /\ e.p.var \in Int /\ e.p.var = Height(e) - 1
    BY <1>3, <2>1, HeightFacts
  <2> QED BY <2>2, <2>3 DEF zero, terminal
<1> QED BY <1>1, <1>2, <1>6, <1>7, <1>8, <1>9

\* An edge read at level 0 is its weight, and above it the product of its weight
\* and what is read of a child.
LEMMA ReadEquations ==
    ASSUME NEW arity \in {V, M}, NEW e \in Edge(arity), NEW i \in Nat, NEW j \in Nat,
           NEW l \in Nat, l <= NumQubits
    PROVE  /\ Read(arity, e, i, j, l) \in Weight
           /\ l = 0 => Read(arity, e, i, j, l) = e.w
           /\ l # 0 => Read(arity, e, i, j, l) =
                 Multiply(e.w, Read(arity, childrenAt(arity, e.p, l - 1)[Digit(arity, i, j, l - 1)], i, j, l - 1))
           /\ \A c \in Weight : Rescaled(c, e) \in Edge(arity) =>
                 Read(arity, Rescaled(c, e), i, j, l) = Multiply(c, Read(arity, e, i, j, l))
<1>1. l \in 0..NumQubits /\ V # M
  BY QubitsAssumption DEF V, M
<1>2. CASE arity = V
  <2>1. e \in Edge(V)
    BY <1>2
  <2>2. /\ amplitudeRec[<<e, i, l>>] \in Weight
        /\ amplitudeRec[<<e, i, l>>] = IF l = 0 THEN e.w ELSE Multiply(e.w, amplitudeRec[AmplitudeCall(e, i, l)])
    BY <1>1, <2>1, AmplitudeType, AmplitudeEquation
  <2>3. \A c \in Weight : Rescaled(c, e) \in Edge(V) =>
           amplitudeRec[<<Rescaled(c, e), i, l>>] = Multiply(c, amplitudeRec[<<e, i, l>>])
    BY <1>1, <2>1, AmplitudeRescaled
  <2>4. \A f : Read(arity, f, i, j, l) = amplitudeRec[<<f, i, l>>]
    BY <1>2 DEF Read
  <2>5. Read(arity, childrenAt(arity, e.p, l - 1)[Digit(arity, i, j, l - 1)], i, j, l - 1)
           = amplitudeRec[AmplitudeCall(e, i, l)]
    BY <1>2 DEF Read, AmplitudeCall, childrenAt, Digit
  <2> QED BY <1>2, <2>2, <2>3, <2>4, <2>5
<1>3. CASE arity = M
  <2>1. e \in Edge(M)
    BY <1>3
  <2>2. /\ matrixEntryRec[<<e, i, j, l>>] \in Weight
        /\ matrixEntryRec[<<e, i, j, l>>] = IF l = 0 THEN e.w ELSE Multiply(e.w, matrixEntryRec[EntryCall(e, i, j, l)])
    BY <1>1, <2>1, EntryType, EntryEquation
  <2>3. \A c \in Weight : Rescaled(c, e) \in Edge(M) =>
           matrixEntryRec[<<Rescaled(c, e), i, j, l>>] = Multiply(c, matrixEntryRec[<<e, i, j, l>>])
    BY <1>1, <2>1, EntryRescaled
  <2>4. \A f : Read(arity, f, i, j, l) = matrixEntryRec[<<f, i, j, l>>]
    BY <1>1, <1>3 DEF Read
  <2>5. Read(arity, childrenAt(arity, e.p, l - 1)[Digit(arity, i, j, l - 1)], i, j, l - 1)
           = matrixEntryRec[EntryCall(e, i, j, l)]
    BY <1>1, <1>3 DEF Read, EntryCall, EntryChild, childrenAt, Digit
  <2> QED BY <1>3, <2>2, <2>3, <2>4, <2>5
<1> QED BY <1>2, <1>3

\* What is read is a weight.
LEMMA ReadType ==
    ASSUME NEW arity \in {V, M}, NEW l \in Nat, l <= NumQubits, NEW e \in Lev(arity, l),
           NEW i \in Nat, NEW j \in Nat
    PROVE  Read(arity, e, i, j, l) \in Weight /\ (l = 0 => Read(arity, e, i, j, l) = e.w)
<1>1. e \in Edge(arity)
  BY LevFacts
<1> QED BY <1>1, ReadEquations

\* What is read of an edge that is rescaled is.
LEMMA ReadRescaled ==
    ASSUME NEW arity \in {V, M}, NEW l \in Nat, l <= NumQubits, NEW e \in Lev(arity, l),
           NEW c \in Weight, Rescaled(c, e) \in Lev(arity, l), NEW i \in Nat, NEW j \in Nat
    PROVE  Read(arity, Rescaled(c, e), i, j, l) = Multiply(c, Read(arity, e, i, j, l))
<1> DEFINE d == Rescaled(c, e)
<1>1. e \in Edge(arity) /\ d \in Edge(arity)
  BY LevFacts
<1> QED BY <1>1, ReadEquations

\* A child that is read is one of the node's.
LEMMA DigitType ==
    ASSUME NEW arity \in {V, M}, NEW i \in Nat, NEW j \in Nat, NEW k \in Nat
    PROVE  Digit(arity, i, j, k) \in 1..arity
<1>1. Bit(i, k) + 1 \in 1..V /\ Corner(i, j, k) \in 1..M
  BY BitType, CornerType
<1> QED BY <1>1 DEF Digit

\* Nothing but 0 is read of an edge with weight 0.
LEMMA ReadZero ==
    ASSUME NEW arity \in {V, M}, NEW l \in Nat, l <= NumQubits, NEW i \in Nat, NEW j \in Nat
    PROVE  Read(arity, zero, i, j, l) = Zero
<1>1. zero \in Lev(arity, l) /\ zero.w = Zero
  BY LevFacts DEF zero, terminal
<1>2. Read(arity, zero, i, j, l) \in Weight
  BY <1>1, ReadType
<1>3. Zero \in Weight
  BY WeightLaws
<1>4. Rescaled(Zero, zero) = zero
  BY <1>1, <1>3, WeightLaws DEF Rescaled, zero, terminal
<1>5. Read(arity, Rescaled(Zero, zero), i, j, l) = Multiply(Zero, Read(arity, zero, i, j, l))
  BY <1>1, <1>3, <1>4, ReadRescaled
<1> QED BY <1>2, <1>4, <1>5, WeightLaws

\* The child that is read of an edge, and the edge that it stands for.
Kid(arity, e, i, j, k) == childrenAt(arity, e.p, k)[Digit(arity, i, j, k)]
Part(arity, e, i, j, k) == Below(arity, e, k)[Digit(arity, i, j, k)]

\* They are edges of the level below.
LEMMA PartType ==
    ASSUME NEW arity \in {V, M}, NEW k \in Nat, NEW e \in Lev(arity, k + 1), NEW i \in Nat, NEW j \in Nat
    PROVE  /\ Kid(arity, e, i, j, k) \in Lev(arity, k)
           /\ Part(arity, e, i, j, k) \in Lev(arity, k)
           /\ Part(arity, e, i, j, k) = Rescaled(e.w, Kid(arity, e, i, j, k))
           /\ e.w \in Weight
<1> DEFINE nodes == Nodes(arity, 0)
           d == Digit(arity, i, j, k)
           kids == childrenAt(arity, e.p, k)
           below == Below(arity, e, k)
<1>1. d \in 1..arity
  BY DigitType
<1>2. e \in EdgesTo(nodes[k + 1]) /\ Lev(arity, k) = EdgesTo(nodes[k])
  BY DEF Lev
<1>3. k + 1 \in Nat
  OBVIOUS
<1>4. Family(arity, "Any", nodes)
  BY <1>3, LevFacts
<1>5. e.w \in Weight
  BY <1>3, LevFacts
<1>6. below[d] = Rescaled(e.w, kids[d])
  BY <1>1 DEF Below
<1> HIDE DEF nodes
<1>7. below \in [1..arity -> EdgesTo(nodes[k])] /\ kids \in [1..arity -> EdgesTo(nodes[k])]
  BY <1>2, <1>4, BelowEdges
<1> HIDE DEF kids, below, d
<1>8. below[d] \in EdgesTo(nodes[k]) /\ kids[d] \in EdgesTo(nodes[k])
  BY <1>1, <1>7
<1>9. Kid(arity, e, i, j, k) = kids[d] /\ Part(arity, e, i, j, k) = below[d]
  BY DEF Kid, Part, kids, below, d
<1> QED BY <1>2, <1>5, <1>6, <1>8, <1>9

\* What is read at level k + 1 is what is read of the child, times the weight.
LEMMA ReadKid ==
    ASSUME NEW arity \in {V, M}, NEW k \in Nat, k < NumQubits, NEW e \in Lev(arity, k + 1),
           NEW i \in Nat, NEW j \in Nat
    PROVE  Read(arity, e, i, j, k + 1) = Multiply(e.w, Read(arity, Kid(arity, e, i, j, k), i, j, k))
<1> DEFINE l == k + 1
<1>1. l \in Nat /\ l # 0 /\ l <= NumQubits /\ l - 1 = k
  BY LevFacts
<1>2. e \in Lev(arity, l)
  OBVIOUS
<1> HIDE DEF l
<1>3. e \in Edge(arity)
  BY <1>1, <1>2, LevFacts
<1>4. Read(arity, e, i, j, l) =
         Multiply(e.w, Read(arity, childrenAt(arity, e.p, l - 1)[Digit(arity, i, j, l - 1)], i, j, l - 1))
  BY <1>1, <1>3, ReadEquations
<1>5. Read(arity, e, i, j, l) = Multiply(e.w, Read(arity, Kid(arity, e, i, j, k), i, j, k))
  BY <1>1, <1>4 DEF Kid
<1> QED BY <1>5 DEF l

\* It is what is read of the edge that the edge stands for.
LEMMA ReadPart ==
    ASSUME NEW arity \in {V, M}, NEW k \in Nat, k < NumQubits, NEW e \in Lev(arity, k + 1),
           NEW i \in Nat, NEW j \in Nat
    PROVE  Read(arity, e, i, j, k + 1) = Read(arity, Part(arity, e, i, j, k), i, j, k)
<1> DEFINE kid == Kid(arity, e, i, j, k)
           part == Part(arity, e, i, j, k)
<1>1. kid \in Lev(arity, k) /\ part \in Lev(arity, k) /\ part = Rescaled(e.w, kid) /\ e.w \in Weight
  BY PartType
<1>2. Read(arity, e, i, j, k + 1) = Multiply(e.w, Read(arity, kid, i, j, k))
  BY ReadKid
<1> HIDE DEF kid, part
<1>3. Rescaled(e.w, kid) \in Lev(arity, k) /\ k <= NumQubits
  BY <1>1, LevFacts
<1>4. Read(arity, Rescaled(e.w, kid), i, j, k) = Multiply(e.w, Read(arity, kid, i, j, k))
  BY <1>1, <1>3, ReadRescaled
<1>5. Read(arity, e, i, j, k + 1) = Read(arity, part, i, j, k)
  BY <1>1, <1>2, <1>4
<1> QED BY <1>5 DEF part

\* An edge that skips the qubit k: a vector does not depend on it, and a matrix
\* is the identity on it.
LEMMA ReadSkip ==
    ASSUME NEW arity \in {V, M}, NEW k \in Nat, k < NumQubits, NEW e \in Lev(arity, k),
           NEW i \in Nat, NEW j \in Nat
    PROVE  Read(arity, e, i, j, k + 1) =
              IF arity = V \/ Bit(i, k) = Bit(j, k) THEN Read(arity, e, i, j, k) ELSE Zero
<1> DEFINE d == Digit(arity, i, j, k)
           kid == Kid(arity, e, i, j, k)
           bare == Bare(e.p)
<1>1. k + 1 \in Nat /\ k <= k + 1 /\ k <= NumQubits
  BY LevFacts
<1>2. e \in Lev(arity, k + 1) /\ e \in Edge(arity) /\ e.p.var # k /\ e.w \in Weight
  BY <1>1, LevFacts
<1>3. Read(arity, e, i, j, k + 1) = Multiply(e.w, Read(arity, kid, i, j, k)) /\ kid \in Lev(arity, k)
  BY <1>2, ReadKid, PartType
<1>4. /\ arity = V => childrenAt(arity, e.p, k) = <<bare, bare>>
      /\ arity = M => childrenAt(arity, e.p, k) = <<bare, zero, zero, bare>>
  BY <1>2, LevFacts DEF childrenAt, vChildrenAt, mChildrenAt
<1>5. Bit(i, k) \in {0, 1} /\ Bit(j, k) \in {0, 1}
  BY BitType
<1>6. kid = IF arity = V \/ Bit(i, k) = Bit(j, k) THEN bare ELSE zero
  <2>1. CASE arity = V
    <3>1. d = Bit(i, k) + 1
      BY <2>1 DEF Digit
    <3> QED BY <1>4, <1>5, <2>1, <3>1 DEF Kid
  <2>2. CASE arity = M
    <3>1. d = 2 * Bit(i, k) + Bit(j, k) + 1 /\ arity # V
      BY <2>2, LevFacts DEF Digit, Corner
    <3>2. kid = childrenAt(arity, e.p, k)[d]
      BY DEF Kid
    <3> HIDE DEF d, bare, kid
    <3>3. d = 1 \/ d = 2 \/ d = 3 \/ d = 4
      BY <1>5, <3>1
    <3>4. (d = 1 \/ d = 4) <=> Bit(i, k) = Bit(j, k)
      BY <1>5, <3>1
    <3> QED BY <1>4, <2>2, <3>1, <3>2, <3>3, <3>4
  <2> QED BY <2>1, <2>2
<1>7. CASE arity = V \/ Bit(i, k) = Bit(j, k)
  <2>1. kid = bare /\ bare \in Lev(arity, k)
    BY <1>1, <1>3, <1>6, <1>7
  <2>2. Rescaled(e.w, bare) = e
    <3>1. Rescaled(e.w, bare) = [p |-> e.p, w |-> Multiply(e.w, One)]
      BY DEF Rescaled, Bare
    <3>2. Multiply(e.w, One) = e.w
      BY <1>2, WeightLaws
    <3>3. e = [p |-> e.p, w |-> e.w]
      BY <1>2 DEF Edge, EdgesTo
    <3> QED BY <3>1, <3>2, <3>3
  <2> HIDE DEF bare, kid
  <2>3. Read(arity, Rescaled(e.w, bare), i, j, k) = Multiply(e.w, Read(arity, bare, i, j, k))
    BY <1>1, <1>2, <2>1, <2>2, ReadRescaled
  <2> QED BY <1>3, <1>7, <2>1, <2>2, <2>3
<1>8. CASE ~(arity = V \/ Bit(i, k) = Bit(j, k))
  <2>1. Read(arity, kid, i, j, k) = Zero
    BY <1>1, <1>6, <1>8, ReadZero
  <2> QED BY <1>2, <1>3, <1>8, <2>1, WeightLaws
<1> QED BY <1>7, <1>8

\* Edges of the level, or with weight 0 above a node.
LooseLev(arity, l) == Loose(Nodes(arity, 0)[l])

\* They become edges of the level.
LEMMA TerminatedLev ==
    ASSUME NEW arity \in {V, M}, NEW n \in Nat
    PROVE  /\ \A e \in LooseLev(arity, n) : ZeroTerminated(e) \in Lev(arity, n)
           /\ Lev(arity, n) \subseteq LooseLev(arity, n)
           /\ \A e \in Lev(arity, n) : ZeroTerminated(e) = e
<1> DEFINE nodes == Nodes(arity, 0)
<1>1. Family(arity, "Any", nodes)
  BY LevFacts
<1>2. Lev(arity, n) = EdgesTo(nodes[n]) /\ LooseLev(arity, n) = Loose(nodes[n])
  BY DEF Lev, LooseLev
<1> HIDE DEF nodes
<1> QED BY <1>1, <1>2, ZeroTerminatedEdges

\* What is read of a product of an edge by any weight.
LEMMA ReadTerminated ==
    ASSUME NEW arity \in {V, M}, NEW n \in Nat, n <= NumQubits, NEW e \in Lev(arity, n),
           NEW c \in Weight, NEW i \in Nat, NEW j \in Nat
    PROVE  /\ Rescaled(c, e) \in LooseLev(arity, n)
           /\ ZeroTerminated(Rescaled(c, e)) \in Lev(arity, n)
           /\ Read(arity, ZeroTerminated(Rescaled(c, e)), i, j, n) = Multiply(c, Read(arity, e, i, j, n))
<1> DEFINE d == Rescaled(c, e)
           nodes == Nodes(arity, 0)
<1>1. e \in EdgesTo(nodes[n]) /\ e.w \in Weight
  BY LevFacts DEF Lev
<1>2. d \in LooseLev(arity, n)
  BY <1>1, RescaledLoose DEF LooseLev
<1>3. ZeroTerminated(d) \in Lev(arity, n)
  BY <1>2, TerminatedLev
<1>4. d.w = Multiply(c, e.w)
  BY DEF Rescaled
<1>5. Read(arity, e, i, j, n) \in Weight
  BY ReadType
<1>6. Read(arity, zero, i, j, n) = Zero
  BY ReadZero
<1>7. CASE Multiply(c, e.w) = Zero
  <2>1. ZeroTerminated(d) = zero
    BY <1>4, <1>7, WeightLaws DEF ZeroTerminated
  <2>2. c = Zero \/ e.w = Zero
    BY <1>1, <1>7, NonZeroLaws DEF NonZero
  <2>3. e.w = Zero => Read(arity, e, i, j, n) = Zero
    BY <1>6, LevFacts
  <2>4. Multiply(c, Read(arity, e, i, j, n)) = Zero
    BY <1>5, <2>2, <2>3, WeightLaws
  <2> QED BY <1>2, <1>3, <1>6, <2>1, <2>4
<1>8. CASE Multiply(c, e.w) # Zero
  <2>1. Multiply(c, e.w) \in Weight
    BY <1>1, WeightLaws
  <2>2. ZeroTerminated(d) = d
    BY <1>4, <1>8, <2>1, WeightLaws DEF ZeroTerminated
  <2>3. d \in Lev(arity, n)
    BY <1>3, <2>2
  <2>4. Read(arity, d, i, j, n) = Multiply(c, Read(arity, e, i, j, n))
    BY <2>3, ReadRescaled
  <2> QED BY <1>2, <2>2, <2>3, <2>4
<1> QED BY <1>7, <1>8

\* An edge of a node that is rescaled.
LEMMA RescaledEntry ==
    ASSUME NEW k \in Nat, NEW es, DOMAIN es = 1..k, NEW c, NEW d \in 1..k
    PROVE  RescaledAll(c, es)[d] = Rescaled(c, es[d])
<1> DEFINE fs == [i \in 1..k |-> Rescaled(c, es[i])]
           S == {fs[i] : i \in 1..k}
<1>1. fs \in [1..k -> S] /\ fs[d] = Rescaled(c, es[d])
  OBVIOUS
<1>2. RescaledAll(c, es) = Listed(fs)
  BY DEF RescaledAll
<1> HIDE DEF fs, S
<1>3. Listed(fs) = fs
  BY <1>1, ListedSame
<1> QED BY <1>1, <1>2, <1>3

(***************************************************************************)
(* makeVEdge and makeMEdge: under every strategy, whether the node is      *)
(* redundant or a factor is moved, each child is read of the edge as it    *)
(* was given.                                                              *)
(***************************************************************************)
LEMMA ReadMade ==
    ASSUME strategy \in Strategies, NEW arity \in {V, M}, NEW n \in Nat, n < NumQubits,
           NEW cs, \A k \in 1..arity : cs[k] \in LooseLev(arity, n), NEW i \in Nat, NEW j \in Nat
    PROVE  /\ makeEdge(arity, n, cs) \in Lev(arity, n + 1)
           /\ ZeroTerminated(cs[Digit(arity, i, j, n)]) \in Lev(arity, n)
           /\ Read(arity, makeEdge(arity, n, cs), i, j, n + 1)
                 = Read(arity, ZeroTerminated(cs[Digit(arity, i, j, n)]), i, j, n)
<1> DEFINE d == Digit(arity, i, j, n)
           es == [k \in 1..arity |-> ZeroTerminated(cs[k])]
           made == makeEdge(arity, n, cs)
           nodes == Nodes(arity, 0)
<1>1. arity \in Nat /\ n <= NumQubits /\ n + 1 \in Nat /\ V = 2 /\ M = 4 /\ V # M
  BY LevFacts
<1>2. Family(arity, "Any", nodes) /\ Makes("Any")
  BY LevFacts
<1>3. Lev(arity, n) = EdgesTo(nodes[n]) /\ Lev(arity, n + 1) = EdgesTo(nodes[n + 1])
      /\ LooseLev(arity, n) = Loose(nodes[n])
  BY DEF Lev, LooseLev
<1>4. d \in 1..arity
  BY DigitType
<1>5. es \in [1..arity -> Lev(arity, n)] /\ es[d] = ZeroTerminated(cs[d])
  BY <1>4, TerminatedLev
<1>6. made = Normalized(arity, n, Listed(es))
  BY DEF makeEdge
<1> HIDE DEF es, made, d, nodes
<1>7. Listed(es) = es
  BY <1>1, <1>5, ListedSame
<1>8. made = IF Redundant(arity, es) THEN es[1] ELSE FactoredOut(n, es, Factor(es))
  BY <1>6, <1>7 DEF Normalized
<1>9. made \in Lev(arity, n + 1)
  <2>1. \A k \in 1..arity : cs[k] \in Loose(nodes[n])
    BY <1>3
  <2>2. makeEdge(arity, n, cs) \in EdgesTo(nodes[n + 1])
    BY <1>2, <2>1, MakeEdgeEdges
  <2> QED BY <1>3, <2>2 DEF made
<1>10. ASSUME Redundant(arity, es) PROVE Read(arity, made, i, j, n + 1) = Read(arity, es[d], i, j, n)
  <2>1. made = es[1] /\ es[1] \in Lev(arity, n)
    BY <1>1, <1>5, <1>8, <1>10
  <2>2. Read(arity, es[1], i, j, n + 1) =
           IF arity = V \/ Bit(i, n) = Bit(j, n) THEN Read(arity, es[1], i, j, n) ELSE Zero
    BY <2>1, ReadSkip
  <2>3. CASE arity = V
    <3>1. es[1] = es[2]
      BY <1>10, <2>3 DEF Redundant
    <3>2. d = 1 \/ d = 2
      BY <1>1, <1>4, <2>3
    <3> QED BY <2>1, <2>2, <2>3, <3>1, <3>2
  <2>4. CASE arity = M
    <3>1. es[1] = es[4] /\ es[2] = zero /\ es[3] = zero
      BY <1>1, <1>10, <2>4 DEF Redundant, IdentityLike
    <3>2. d = 2 * Bit(i, n) + Bit(j, n) + 1
      BY <1>1, <2>4 DEF d, Digit, Corner
    <3>3. Bit(i, n) \in {0, 1} /\ Bit(j, n) \in {0, 1}
      BY BitType
    <3>4. CASE Bit(i, n) = Bit(j, n)
      <4>1. d = 1 \/ d = 4
        BY <3>2, <3>3, <3>4
      <4> QED BY <2>1, <2>2, <3>1, <3>4, <4>1
    <3>5. CASE Bit(i, n) # Bit(j, n)
      <4>1. d = 2 \/ d = 3
        BY <3>2, <3>3, <3>5
      <4>2. es[d] = zero
        BY <3>1, <4>1
      <4>3. Read(arity, zero, i, j, n) = Zero
        BY <1>1, ReadZero
      <4> QED BY <1>1, <2>1, <2>2, <2>4, <3>5, <4>2, <4>3
    <3> QED BY <3>4, <3>5
  <2> QED BY <2>3, <2>4
<1>11. ASSUME ~Redundant(arity, es) PROVE Read(arity, made, i, j, n + 1) = Read(arity, es[d], i, j, n)
  <2> DEFINE eta == Factor(es)
             c == inverse(eta)
             fs == RescaledAll(c, es)
  <2>1. made = [p |-> [var |-> n, e |-> fs], w |-> eta]
    BY <1>8, <1>11 DEF FactoredOut
  <2>2. es \in [1..arity -> EdgesTo(nodes[n])]
    BY <1>3, <1>5
  <2>3. eta \in NonZero
    BY <1>2, <1>11, <2>2, FactoredOutEdges
  <2> HIDE DEF eta
  <2>4. c \in NonZero /\ Multiply(eta, c) = One
    BY <2>3, NonZeroLaws
  <2> HIDE DEF c
  <2>5. fs[d] = Rescaled(c, es[d])
    <3>1. DOMAIN es = 1..arity
      BY <2>2
    <3>2. RescaledAll(c, es)[d] = Rescaled(c, es[d])
      BY <1>1, <1>4, <3>1, RescaledEntry
    <3> QED BY <3>2
  <2>6. childrenAt(arity, made.p, n) = fs
    BY <2>1 DEF childrenAt, vChildrenAt, mChildrenAt
  <2>7. Kid(arity, made, i, j, n) = Rescaled(c, es[d])
    BY <2>5, <2>6 DEF Kid, d
  <2>8. Read(arity, made, i, j, n + 1) = Multiply(made.w, Read(arity, Kid(arity, made, i, j, n), i, j, n))
    BY <1>9, ReadKid
  <2>9. es[d] \in Lev(arity, n) /\ c \in Weight /\ eta \in Weight
    BY <1>4, <1>5, <2>3, <2>4 DEF NonZero
  <2>10. Rescaled(c, es[d]) \in Lev(arity, n)
    BY <1>9, <2>7, PartType
  <2> DEFINE z == Read(arity, es[d], i, j, n)
  <2>11. z \in Weight
    BY <1>1, <2>9, ReadType
  <2>12. Read(arity, Rescaled(c, es[d]), i, j, n) = Multiply(c, z)
    BY <1>1, <2>9, <2>10, ReadRescaled
  <2> HIDE DEF z
  <2>13. Multiply(eta, Multiply(c, z)) = Multiply(Multiply(eta, c), z)
    BY <2>9, <2>11, WeightLaws
  <2>14. Read(arity, made, i, j, n + 1) = Multiply(eta, Multiply(c, z))
    BY <2>1, <2>7, <2>8, <2>12
  <2>15. Read(arity, made, i, j, n + 1) = z
    BY <2>4, <2>11, <2>13, <2>14, WeightLaws
  <2> QED BY <2>15 DEF z
<1>12. es[d] \in Lev(arity, n)
  BY <1>4, <1>5
<1> QED BY <1>5, <1>9, <1>10, <1>11, <1>12 DEF d, made

\* ... for children that are edges of the level.
LEMMA ReadMadeOf ==
    ASSUME strategy \in Strategies, NEW arity \in {V, M}, NEW n \in Nat, n < NumQubits,
           NEW cs, \A k \in 1..arity : cs[k] \in Lev(arity, n), NEW i \in Nat, NEW j \in Nat
    PROVE  /\ makeEdge(arity, n, cs) \in Lev(arity, n + 1)
           /\ Read(arity, makeEdge(arity, n, cs), i, j, n + 1) = Read(arity, cs[Digit(arity, i, j, n)], i, j, n)
<1>1. \A k \in 1..arity : cs[k] \in LooseLev(arity, n)
  BY TerminatedLev
<1>2. Digit(arity, i, j, n) \in 1..arity
  BY DigitType
<1>3. ZeroTerminated(cs[Digit(arity, i, j, n)]) = cs[Digit(arity, i, j, n)]
  BY <1>2, TerminatedLev
<1>4. /\ makeEdge(arity, n, cs) \in Lev(arity, n + 1)
      /\ Read(arity, makeEdge(arity, n, cs), i, j, n + 1)
            = Read(arity, ZeroTerminated(cs[Digit(arity, i, j, n)]), i, j, n)
  BY <1>1, ReadMade
<1> QED BY <1>3, <1>4

\* Edges of the level above that have no node for its qubit.
LEMMA SkippingLev ==
    ASSUME NEW arity \in {V, M}, NEW arity2 \in {V, M}, NEW k \in Nat,
           NEW d \in Lev(arity, k + 1), NEW e \in Lev(arity2, k + 1)
    PROVE  \/ d \in Lev(arity, k) /\ e \in Lev(arity2, k)
           \/ HigherVar(d.p, e.p) = k /\ ~(d.p = Null /\ e.p = Null)
<1> DEFINE n == k + 1
           nodes == Nodes(arity, 0)
           nodes2 == Nodes(arity2, 0)
           t == Top(d, e)
<1>1. n \in Nat
  OBVIOUS
<1>2. Family(arity, "Any", nodes) /\ Family(arity2, "Any", nodes2)
  BY <1>1, LevFacts
<1>3. d \in EdgesTo(nodes[n]) /\ e \in EdgesTo(nodes2[n])
  BY DEF Lev
<1>4. \A l \in Nat : Lev(arity, l) = EdgesTo(nodes[l]) /\ Lev(arity2, l) = EdgesTo(nodes2[l])
  BY DEF Lev
<1> HIDE DEF nodes, nodes2
<1>5. /\ t \in Nat /\ t <= n /\ d \in EdgesTo(nodes[t]) /\ e \in EdgesTo(nodes2[t])
      /\ HigherVar(d.p, e.p) = t - 1
      /\ t = 0 <=> d.p = Null /\ e.p = Null
  <2> HIDE DEF n
  <2> QED BY <1>1, <1>2, <1>3, TopFacts
<1> HIDE DEF t
<1>6. d \in Lev(arity, t) /\ e \in Lev(arity2, t)
  BY <1>4, <1>5
<1>7. CASE t <= k
  BY <1>5, <1>6, <1>7, LevFacts
<1>8. CASE t = n
  BY <1>5, <1>8
<1> QED BY <1>5, <1>7, <1>8

\* The edges of level 0 have no node.
LEMMA TerminalLev ==
    ASSUME NEW arity \in {V, M}, NEW e \in Lev(arity, 0)
    PROVE  e.p = Null
<1> DEFINE nodes == Nodes(arity, 0)
<1>1. 0 \in Nat /\ e \in EdgesTo(nodes[0])
  BY DEF Lev
<1>2. Family(arity, "Any", nodes)
  BY <1>1, LevFacts
<1> HIDE DEF nodes
<1>3. Height(e) \in Nat /\ Height(e) <= 0 /\ (Height(e) = 0 <=> e.p = Null)
  BY <1>1, <1>2, HeightFacts
<1> QED BY <1>3

\* add: the sum of two edges of a level is an edge of the level.
LEMMA AddLev ==
    ASSUME strategy \in Strategies, NEW arity \in {V, M}, NEW n \in Nat, n <= NumQubits,
           NEW d \in Lev(arity, n), NEW e \in Lev(arity, n)
    PROVE  addRec(arity)[<<d, e>>] \in Lev(arity, n)
<1> DEFINE nodes == Nodes(arity, 0)
<1>1. Family(arity, "Any", nodes) /\ Makes("Any")
  BY LevFacts
<1>2. Lev(arity, n) = EdgesTo(nodes[n])
  BY DEF Lev
<1> HIDE DEF nodes
<1> QED BY <1>1, <1>2, AddEdges

\* One step of the induction below.
LEMMA ReadAddStep ==
    ASSUME strategy \in Strategies, NEW arity \in {V, M}, NEW i \in Nat, NEW j \in Nat,
           NEW k \in Nat, k < NumQubits,
           \A d \in Lev(arity, k), e \in Lev(arity, k) :
              Read(arity, addRec(arity)[<<d, e>>], i, j, k) = Add(Read(arity, d, i, j, k), Read(arity, e, i, j, k)),
           NEW d \in Lev(arity, k + 1), NEW e \in Lev(arity, k + 1)
    PROVE  Read(arity, addRec(arity)[<<d, e>>], i, j, k + 1)
              = Add(Read(arity, d, i, j, k + 1), Read(arity, e, i, j, k + 1))
<1> DEFINE n == k + 1
           s == addRec(arity)[<<d, e>>]
           R(f) == Read(arity, f, i, j, n)
<1>1. n \in Nat /\ n <= NumQubits /\ k <= NumQubits
  BY LevFacts
<1>2. d \in Edge(arity) /\ e \in Edge(arity)
  BY <1>1, LevFacts
<1>3. d.w \in Weight /\ e.w \in Weight /\ (d.w = Zero => d = zero) /\ (e.w = Zero => e = zero)
  BY <1>1, LevFacts
<1>4. R(d) \in Weight /\ R(e) \in Weight /\ R(zero) = Zero
  <2> HIDE DEF n
  <2> QED BY <1>1, ReadType, ReadZero DEF n
<1>5. s = addStep(arity, addRec(arity), d, e)
  BY <1>2, AddEquation
<1>6. CASE d \in Lev(arity, k) /\ e \in Lev(arity, k)
  <2>1. s \in Lev(arity, k)
    BY <1>1, <1>6, AddLev
  <2>2. Read(arity, s, i, j, k) = Add(Read(arity, d, i, j, k), Read(arity, e, i, j, k))
    BY <1>6
  <2> HIDE DEF s
  <2>3. /\ R(s) = IF arity = V \/ Bit(i, k) = Bit(j, k) THEN Read(arity, s, i, j, k) ELSE Zero
        /\ R(d) = IF arity = V \/ Bit(i, k) = Bit(j, k) THEN Read(arity, d, i, j, k) ELSE Zero
        /\ R(e) = IF arity = V \/ Bit(i, k) = Bit(j, k) THEN Read(arity, e, i, j, k) ELSE Zero
    BY <1>6, <2>1, ReadSkip
  <2>4. Add(Zero, Zero) = Zero
    BY SumLaws, WeightLaws
  <2> QED BY <2>2, <2>3, <2>4 DEF s
<1>7. CASE HigherVar(d.p, e.p) = k /\ ~(d.p = Null /\ e.p = Null)
  <2>1. CASE isZero(d.w)
    <3>1. s = e
      BY <1>5, <2>1, AddStepAt
    <3>2. d = zero
      BY <1>3, <2>1, WeightLaws
    <3>3. R(d) = Zero
      BY <1>4, <3>2
    <3> QED BY <1>4, <3>1, <3>3, SumLaws
  <2>2. CASE ~isZero(d.w) /\ isZero(e.w)
    <3>1. s = d
      BY <1>5, <2>2, AddStepAt
    <3>2. e = zero
      BY <1>3, <2>2, WeightLaws
    <3>3. R(e) = Zero
      BY <1>4, <3>2
    <3> QED BY <1>4, <3>1, <3>3, SumLaws
  <2>3. CASE ~isZero(d.w) /\ ~isZero(e.w)
    <3> DEFINE cs == [q \in 1..arity |-> addRec(arity)[AddCalls(arity, d, e, q)]]
               g == Digit(arity, i, j, k)
    <3>1. s = makeEdge(arity, k, cs)
      BY <1>5, <1>7, <2>3, AddStepAt
    <3>2. \A q \in 1..arity : AddCalls(arity, d, e, q) = <<Below(arity, d, k)[q], Below(arity, e, k)[q]>>
      BY <1>7 DEF AddCalls, Below
    <3>3. /\ Below(arity, d, k) \in [1..arity -> Lev(arity, k)]
          /\ Below(arity, e, k) \in [1..arity -> Lev(arity, k)]
      <4> DEFINE nodes == Nodes(arity, 0)
      <4>1. Family(arity, "Any", nodes)
        BY LevFacts
      <4>2. d \in EdgesTo(nodes[k + 1]) /\ e \in EdgesTo(nodes[k + 1]) /\ Lev(arity, k) = EdgesTo(nodes[k])
        BY DEF Lev
      <4> HIDE DEF nodes
      <4>3. Below(arity, d, k) \in [1..arity -> EdgesTo(nodes[k])]
        BY <4>1, <4>2, BelowEdges
      <4>4. Below(arity, e, k) \in [1..arity -> EdgesTo(nodes[k])]
        BY <4>1, <4>2, BelowEdges
      <4> QED BY <4>2, <4>3, <4>4
    <3>4. \A q \in 1..arity : cs[q] = addRec(arity)[<<Below(arity, d, k)[q], Below(arity, e, k)[q]>>]
      BY <3>2
    <3>5. \A q \in 1..arity : Below(arity, d, k)[q] \in Lev(arity, k) /\ Below(arity, e, k)[q] \in Lev(arity, k)
      BY <3>3
    <3> HIDE DEF cs, s
    <3>6. \A q \in 1..arity : cs[q] \in Lev(arity, k)
      BY <1>1, <3>4, <3>5, AddLev
    <3>7. Read(arity, makeEdge(arity, k, cs), i, j, k + 1) = Read(arity, cs[g], i, j, k)
      BY <3>6, ReadMadeOf
    <3>8. g \in 1..arity
      BY DigitType
    <3>9. /\ Part(arity, d, i, j, k) = Below(arity, d, k)[g]
          /\ Part(arity, e, i, j, k) = Below(arity, e, k)[g]
      BY DEF Part
    <3> HIDE DEF g
    <3>10. Read(arity, cs[g], i, j, k) = Add(Read(arity, Below(arity, d, k)[g], i, j, k),
                                            Read(arity, Below(arity, e, k)[g], i, j, k))
      BY <3>4, <3>5, <3>8
    <3>11. /\ R(d) = Read(arity, Part(arity, d, i, j, k), i, j, k)
           /\ R(e) = Read(arity, Part(arity, e, i, j, k), i, j, k)
      BY ReadPart
    <3> QED BY <3>1, <3>7, <3>9, <3>10, <3>11 DEF s
  <2> QED BY <2>1, <2>2, <2>3
<1>8. (d \in Lev(arity, k) /\ e \in Lev(arity, k)) \/ (HigherVar(d.p, e.p) = k /\ ~(d.p = Null /\ e.p = Null))
  BY SkippingLev
<1> QED BY <1>6, <1>7, <1>8

(***************************************************************************)
(* add: what is read of the sum is the sum of what is read.                *)
(***************************************************************************)
LEMMA ReadAdd ==
    ASSUME strategy \in Strategies, NEW arity \in {V, M}, NEW n \in Nat, n <= NumQubits,
           NEW d \in Lev(arity, n), NEW e \in Lev(arity, n), NEW i \in Nat, NEW j \in Nat
    PROVE  Read(arity, addRec(arity)[<<d, e>>], i, j, n) = Add(Read(arity, d, i, j, n), Read(arity, e, i, j, n))
<1> DEFINE Good(k) == \A b \in Lev(arity, k), c \in Lev(arity, k) :
                         Read(arity, addRec(arity)[<<b, c>>], i, j, k) = Add(Read(arity, b, i, j, k), Read(arity, c, i, j, k))
           S == {k \in 0..NumQubits : Good(k)}
<1>1. NumQubits \in Nat /\ 0 <= NumQubits /\ 0 \in Nat
  BY QubitsAssumption
<1>2. 0 \in S
  <2> SUFFICES ASSUME NEW b \in Lev(arity, 0), NEW c \in Lev(arity, 0)
               PROVE Read(arity, addRec(arity)[<<b, c>>], i, j, 0) = Add(Read(arity, b, i, j, 0), Read(arity, c, i, j, 0))
    BY <1>1
  <2> DEFINE s == addRec(arity)[<<b, c>>]
  <2>1. s \in Lev(arity, 0)
    BY <1>1, AddLev
  <2>2. b \in Edge(arity) /\ c \in Edge(arity)
    BY <1>1, LevFacts
  <2>3. s = addStep(arity, addRec(arity), b, c)
    BY <2>2, AddEquation
  <2> HIDE DEF s
  <2>4. /\ Read(arity, s, i, j, 0) = s.w
        /\ Read(arity, b, i, j, 0) = b.w /\ Read(arity, c, i, j, 0) = c.w
    BY <1>1, <2>1, ReadType
  <2>5. b.w \in Weight /\ c.w \in Weight
    BY <1>1, LevFacts
  <2>6. b.p = Null /\ c.p = Null
    BY <1>1, TerminalLev
  <2>7. s = IF isZero(b.w) THEN c ELSE IF isZero(c.w) THEN b ELSE terminal(Add(b.w, c.w))
    BY <2>3, <2>6, AddStepAt
  <2>8. terminal(Add(b.w, c.w)).w = Add(b.w, c.w)
    BY DEF terminal
  <2>9. s.w = Add(b.w, c.w)
    BY <2>5, <2>7, <2>8, WeightLaws, SumLaws
  <2> QED BY <2>4, <2>9 DEF s
<1>3. \A k \in 0..NumQubits : k # 0 /\ k - 1 \in S => k \in S
  <2> SUFFICES ASSUME NEW k \in 0..NumQubits, k # 0, k - 1 \in S PROVE Good(k)
    OBVIOUS
  <2> DEFINE l == k - 1
  <2>1. l \in Nat /\ l < NumQubits /\ k = l + 1 /\ l \in S
    BY <1>1
  <2>2. Good(l)
    BY <2>1
  <2> HIDE DEF l
  <2>3. ASSUME NEW b \in Lev(arity, l + 1), NEW c \in Lev(arity, l + 1)
        PROVE Read(arity, addRec(arity)[<<b, c>>], i, j, l + 1)
                 = Add(Read(arity, b, i, j, l + 1), Read(arity, c, i, j, l + 1))
    <3>1. \A f \in Lev(arity, l), g \in Lev(arity, l) :
             Read(arity, addRec(arity)[<<f, g>>], i, j, l) = Add(Read(arity, f, i, j, l), Read(arity, g, i, j, l))
      BY <2>2
    <3>2. strategy \in Strategies /\ arity \in {V, M} /\ i \in Nat /\ j \in Nat
      OBVIOUS
    <3> HIDE DEF S, Good
    <3> QED BY <2>1, <3>1, <3>2, ReadAddStep
  <2> QED BY <2>1, <2>3
<1> HIDE DEF S, Good
<1>4. 0..NumQubits \subseteq S
  BY <1>1, <1>2, <1>3, CountInduction
<1>5. n \in S
  BY <1>1, <1>4
<1> QED BY <1>5 DEF S, Good

(***************************************************************************)
(* Sums of weights.                                                        *)
(***************************************************************************)
\* Total(f)[n] is the sum of f[0], ..., f[n - 1].
Total(f) ==
    LET sum[n \in Nat] == IF n = 0 THEN Zero ELSE Add(sum[n - 1], f[n - 1])
    IN  sum

\* The recursion of Total: the sum of one number more.
LEMMA TotalDef ==
    ASSUME NEW f \in [Nat -> Weight], NEW n \in Nat
    PROVE  /\ Total(f)[n] \in Weight
           /\ n = 0 => Total(f)[n] = Zero
           /\ n # 0 => Total(f)[n] = Add(Total(f)[n - 1], f[n - 1])
<1> DEFINE D == Nat
           Stop == {0}
           mu == [k \in D |-> k]
           base == [k \in D |-> Zero]
           next == [k \in D |-> IF k = 0 THEN 0 ELSE k - 1]
           comb == [k \in D |-> [w \in Weight |-> Add(w, IF k = 0 THEN Zero ELSE f[k - 1])]]
<1>1. Recursion(D, Weight, Stop, mu, base, next, comb)
  <2>1. Zero \in Weight /\ \A w \in Weight, z \in Weight : Add(w, z) \in Weight
    BY WeightLaws
  <2>2. \A k \in D : k # 0 => f[k - 1] \in Weight
    OBVIOUS
  <2>3. comb \in [D -> [Weight -> Weight]]
    BY <2>1, <2>2
  <2>4. mu \in [D -> Nat] /\ base \in [D -> Weight] /\ next \in [D -> D] /\ Stop \in SUBSET D
    BY <2>1
  <2>5. \A k \in D \ Stop : mu[next[k]] < mu[k]
    OBVIOUS
  <2> HIDE DEF comb, mu, base, next, Stop, D
  <2> QED BY <2>3, <2>4, <2>5 DEF Recursion
<1>2. \A k \in D : /\ k \in Stop <=> k = 0
                   /\ base[k] = Zero /\ (k \notin Stop => next[k] = k - 1 /\ next[k] \in D)
                   /\ k # 0 => \A w \in Weight : comb[k][w] = Add(w, f[k - 1])
  OBVIOUS
<1>3. n \in D
  OBVIOUS
<1> HIDE DEF mu, base, next, comb, Stop, D
<1>4. PICK g \in [D -> Weight] : Follows(g, D, Weight, Stop, base, next, comb)
  BY <1>1, RecursiveFunction
<1>5. ASSUME NEW k \in D PROVE g[k] = IF k = 0 THEN Zero ELSE Add(g[k - 1], f[k - 1])
  BY <1>2, <1>4 DEF Follows
<1>6. g = [k \in D |-> IF k = 0 THEN Zero ELSE Add(g[k - 1], f[k - 1])]
  BY <1>4, <1>5
<1> DEFINE t == Total(f)
<1>7. t = [k \in D |-> IF k = 0 THEN Zero ELSE Add(t[k - 1], f[k - 1])]
  BY <1>6 DEF Total, D
<1> HIDE DEF t
<1>8. Follows(t, D, Weight, Stop, base, next, comb)
  <2> SUFFICES ASSUME NEW k \in D
               PROVE  IF k \in Stop THEN t[k] = base[k]
                      ELSE t[next[k]] \in Weight => t[k] = comb[k][t[next[k]]]
    BY DEF Follows
  <2>1. t[k] = IF k = 0 THEN Zero ELSE Add(t[k - 1], f[k - 1])
    BY <1>7
  <2> QED BY <1>2, <2>1
<1>9. \A k \in D : t[k] \in Weight
  BY <1>1, <1>8, RecursiveFunctionType
<1>10. t[n] \in Weight /\ t[n] = IF n = 0 THEN Zero ELSE Add(t[n - 1], f[n - 1])
  BY <1>3, <1>7, <1>9
<1> QED BY <1>10 DEF t

\* Induction.
LEMMA TotalInduction ==
    ASSUME NEW S, 0 \in S, \A n \in Nat : n \in S => n + 1 \in S
    PROVE  Nat \subseteq S
<1> DEFINE T == S \cap Nat
<1>1. 0 \in T /\ \A n \in Nat : n \in T => n + 1 \in T
  OBVIOUS
<1> HIDE DEF T
<1>2. Nat \subseteq T
  BY <1>1, SetInduction
<1> QED BY <1>2 DEF T

\* The sum of multiples is a multiple of the sum.
LEMMA TotalScaled ==
    ASSUME NEW f \in [Nat -> Weight], NEW g \in [Nat -> Weight], NEW c \in Weight, NEW n \in Nat,
           \A k \in Nat : k < n => g[k] = Multiply(c, f[k])
    PROVE  Total(g)[n] = Multiply(c, Total(f)[n])
<1> DEFINE S == {k \in Nat : k <= n => Total(g)[k] = Multiply(c, Total(f)[k])}
<1>1. 0 \in S
  <2>1. 0 \in Nat
    OBVIOUS
  <2>2. Total(g)[0] = Zero /\ Total(f)[0] = Zero
    BY <2>1, TotalDef
  <2> QED BY <2>2, WeightLaws
<1>2. ASSUME NEW k \in Nat, k \in S PROVE k + 1 \in S
  <2> SUFFICES ASSUME k + 1 <= n PROVE Total(g)[k + 1] = Multiply(c, Total(f)[k + 1])
    OBVIOUS
  <2> DEFINE l == k + 1
  <2>1. l \in Nat /\ l # 0 /\ l - 1 = k /\ k < n
    OBVIOUS
  <2>2. Total(g)[k] = Multiply(c, Total(f)[k])
    BY <1>2
  <2> HIDE DEF l
  <2>3. Total(g)[l] = Add(Total(g)[l - 1], g[l - 1]) /\ Total(f)[l] = Add(Total(f)[l - 1], f[l - 1])
    BY <2>1, TotalDef
  <2>4. Total(f)[k] \in Weight /\ f[k] \in Weight
    BY TotalDef
  <2>5. g[k] = Multiply(c, f[k])
    BY <2>1
  <2>6. Multiply(c, Add(Total(f)[k], f[k])) = Add(Multiply(c, Total(f)[k]), Multiply(c, f[k]))
    BY <2>4, ThreeWeights
  <2>7. Total(g)[l] = Multiply(c, Total(f)[l])
    BY <2>1, <2>2, <2>3, <2>5, <2>6
  <2> QED BY <2>7 DEF l
<1>3. n \in S
  <2> HIDE DEF S
  <2>1. Nat \subseteq S
    BY <1>1, <1>2, TotalInduction
  <2> QED BY <2>1
<1> QED BY <1>3

\* Sums of the same weights.
LEMMA TotalSame ==
    ASSUME NEW f \in [Nat -> Weight], NEW g \in [Nat -> Weight], NEW n \in Nat,
           \A k \in Nat : k < n => g[k] = f[k]
    PROVE  Total(g)[n] = Total(f)[n]
<1>1. One \in Weight
  BY WeightLaws DEF NonZero
<1>2. \A k \in Nat : k < n => g[k] = Multiply(One, f[k])
  BY WeightLaws
<1>3. Total(g)[n] = Multiply(One, Total(f)[n])
  BY <1>1, <1>2, TotalScaled
<1> QED BY <1>3, TotalDef, WeightLaws

\* The same, with their hypotheses named.
ScaledUpTo(g, c, f, n) == \A k \in Nat : k < n => g[k] = Multiply(c, f[k])
SameUpTo(g, f, n) == \A k \in Nat : k < n => g[k] = f[k]

\* Sums of multiples,
LEMMA ScaledTotals ==
    ASSUME NEW f \in [Nat -> Weight], NEW g \in [Nat -> Weight], NEW c \in Weight, NEW n \in Nat, ScaledUpTo(g, c, f, n)
    PROVE  Total(g)[n] = Multiply(c, Total(f)[n])
<1>1. \A k \in Nat : k < n => g[k] = Multiply(c, f[k])
  BY DEF ScaledUpTo
<1> QED BY <1>1, TotalScaled

\* and of the same weights.
LEMMA SameTotals ==
    ASSUME NEW f \in [Nat -> Weight], NEW g \in [Nat -> Weight], NEW n \in Nat, SameUpTo(g, f, n)
    PROVE  Total(g)[n] = Total(f)[n]
<1>1. \A k \in Nat : k < n => g[k] = f[k]
  BY DEF SameUpTo
<1> QED BY <1>1, TotalSame

\* A sum in two parts.
LEMMA TotalSplit ==
    ASSUME NEW f \in [Nat -> Weight], NEW g \in [Nat -> Weight], NEW n \in Nat, NEW l \in Nat,
           \A k \in Nat : k < l => g[k] = f[n + k]
    PROVE  Total(f)[n + l] = Add(Total(f)[n], Total(g)[l])
<1> DEFINE S == {k \in Nat : k <= l => Total(f)[n + k] = Add(Total(f)[n], Total(g)[k])}
<1>1. 0 \in S
  <2>1. 0 \in Nat /\ n + 0 = n
    OBVIOUS
  <2>2. Total(g)[0] = Zero /\ Total(f)[n] \in Weight
    BY <2>1, TotalDef
  <2> QED BY <2>1, <2>2, SumLaws
<1>2. ASSUME NEW k \in Nat, k \in S PROVE k + 1 \in S
  <2> SUFFICES ASSUME k + 1 <= l PROVE Total(f)[n + (k + 1)] = Add(Total(f)[n], Total(g)[k + 1])
    OBVIOUS
  <2> DEFINE q == k + 1
             r == n + (k + 1)
             s == n + k
  <2>1. q \in Nat /\ q # 0 /\ q - 1 = k /\ k < l /\ r \in Nat /\ r # 0 /\ r - 1 = s /\ s \in Nat
    OBVIOUS
  <2>2. Total(f)[s] = Add(Total(f)[n], Total(g)[k]) /\ g[k] = f[s]
    BY <1>2, <2>1
  <2> HIDE DEF q, r, s
  <2>3. Total(g)[q] = Add(Total(g)[q - 1], g[q - 1])
    BY <2>1, TotalDef
  <2>4. Total(f)[r] = Add(Total(f)[r - 1], f[r - 1])
    BY <2>1, TotalDef
  <2>5. Total(f)[n] \in Weight /\ Total(g)[k] \in Weight /\ g[k] \in Weight
    BY TotalDef
  <2>6. Add(Add(Total(f)[n], Total(g)[k]), g[k]) = Add(Total(f)[n], Add(Total(g)[k], g[k]))
    BY <2>5, ThreeWeights
  <2>7. Total(f)[r] = Add(Total(f)[n], Total(g)[q])
    BY <2>1, <2>2, <2>3, <2>4, <2>6
  <2> QED BY <2>7 DEF q, r
<1>3. l \in S
  <2> HIDE DEF S
  <2>1. Nat \subseteq S
    BY <1>1, <1>2, TotalInduction
  <2> QED BY <2>1
<1> QED BY <1>3

\* A sum with one term that is not 0.
LEMMA TotalSingle ==
    ASSUME NEW f \in [Nat -> Weight], NEW n \in Nat, NEW s \in Nat, s < n,
           \A k \in Nat : k < n /\ k # s => f[k] = Zero
    PROVE  Total(f)[n] = f[s]
<1> DEFINE S == {k \in Nat : k <= n => Total(f)[k] = IF s < k THEN f[s] ELSE Zero}
<1>1. 0 \in S
  <2>1. 0 \in Nat /\ ~(s < 0)
    OBVIOUS
  <2>2. Total(f)[0] = Zero
    BY <2>1, TotalDef
  <2> QED BY <2>1, <2>2
<1>2. ASSUME NEW k \in Nat, k \in S PROVE k + 1 \in S
  <2> SUFFICES ASSUME k + 1 <= n PROVE Total(f)[k + 1] = IF s < k + 1 THEN f[s] ELSE Zero
    OBVIOUS
  <2> DEFINE l == k + 1
  <2>1. l \in Nat /\ l # 0 /\ l - 1 = k /\ k < n /\ (s < l <=> s < k \/ s = k)
    OBVIOUS
  <2>2. Total(f)[k] = IF s < k THEN f[s] ELSE Zero
    BY <1>2
  <2> HIDE DEF l
  <2>3. Total(f)[l] = Add(Total(f)[l - 1], f[l - 1])
    BY <2>1, TotalDef
  <2>4. f[s] \in Weight /\ f[k] \in Weight /\ Zero \in Weight
    BY WeightLaws
  <2>5. CASE s = k
    <3>1. Total(f)[k] = Zero
      BY <2>2, <2>5
    <3> QED BY <2>1, <2>3, <2>4, <2>5, <3>1, SumLaws DEF l
  <2>6. CASE s # k
    <3>1. f[k] = Zero
      BY <2>1, <2>6
    <3>2. Total(f)[l] = Total(f)[k]
      BY <2>1, <2>2, <2>3, <2>4, <3>1, SumLaws
    <3> QED BY <2>1, <2>2, <2>6, <3>2 DEF l
  <2> QED BY <2>5, <2>6
<1>3. n \in S
  <2> HIDE DEF S
  <2>1. Nat \subseteq S
    BY <1>1, <1>2, TotalInduction
  <2> QED BY <2>1
<1> QED BY <1>3

\* The dot product of the algebra is such a sum.
LEMMA DotIsTotal ==
    ASSUME NEW n \in Nat, NEW p \in [1..n -> Weight], NEW q, NEW f \in [Nat -> Weight],
           \A k \in Nat : k < n => f[k] = Multiply(p[k + 1], q[k + 1])
    PROVE  Algebra!Dot(p, q) = Total(f)[n]
<1> DEFINE D == 0..n
           step(sum, i) == IF i = 0 THEN Zero ELSE Add(sum[i - 1], Multiply(p[i], q[i]))
           g == [i \in D |-> Total(f)[i]]
           s == CHOOSE sum : sum = [i \in D |-> step(sum, i)]
<1>1. Len(p) = n
  OBVIOUS
<1>2. \A i \in D : i # 0 => f[i - 1] = Multiply(p[i], q[i])
  <2> SUFFICES ASSUME NEW i \in D, i # 0 PROVE f[i - 1] = Multiply(p[i], q[i])
    OBVIOUS
  <2>1. i - 1 \in Nat /\ i - 1 < n /\ (i - 1) + 1 = i
    OBVIOUS
  <2> QED BY <2>1
<1>3. g = [i \in D |-> step(g, i)]
  <2>1. \A i \in D : g[i] = step(g, i)
    <3> SUFFICES ASSUME NEW i \in D PROVE Total(f)[i] = step(g, i)
      OBVIOUS
    <3>1. i \in Nat /\ (i # 0 => i - 1 \in D)
      OBVIOUS
    <3>2. (i = 0 => Total(f)[i] = Zero) /\ (i # 0 => Total(f)[i] = Add(Total(f)[i - 1], f[i - 1]))
      BY <3>1, TotalDef
    <3>3. i # 0 => g[i - 1] = Total(f)[i - 1]
      BY <3>1
    <3> QED BY <1>2, <3>2, <3>3
  <2> QED BY <2>1
<1>4. s = [i \in D |-> step(s, i)]
  <2> HIDE DEF g, D
  <2> QED BY <1>3
<1>5. Algebra!Dot(p, q) = s[n]
  BY <1>1 DEF Algebra!Dot
<1> HIDE DEF s
<1> DEFINE S == {i \in D : s[i] = Total(f)[i]}
<1>6. 0 \in S
  <2>1. 0 \in D /\ 0 \in Nat
    OBVIOUS
  <2>2. s[0] = step(s, 0)
    BY <1>4, <2>1
  <2>3. Total(f)[0] = Zero
    BY <2>1, TotalDef
  <2> QED BY <2>1, <2>2, <2>3
<1>7. \A i \in 0..n : i # 0 /\ i - 1 \in S => i \in S
  <2> SUFFICES ASSUME NEW i \in D, i # 0, i - 1 \in S PROVE s[i] = Total(f)[i]
    OBVIOUS
  <2>1. s[i] = step(s, i) /\ i \in Nat
    BY <1>4
  <2>2. Total(f)[i] = Add(Total(f)[i - 1], f[i - 1])
    BY <2>1, TotalDef
  <2> QED BY <1>2, <2>1, <2>2
<1>8. n \in S
  <2> HIDE DEF S
  <2>1. 0..n \subseteq S
    <3>1. 0 \in Nat /\ 0 <= n
      OBVIOUS
    <3> QED BY <1>6, <1>7, <3>1, CountInduction
  <2> QED BY <2>1
<1> QED BY <1>5, <1>8

(***************************************************************************)
(* The bits of an index whose upper part is h and whose lower n bits are l.*)
(***************************************************************************)
LEMMA BitsBelow ==
    ASSUME NEW h \in Nat, NEW n \in Nat, NEW l \in Nat, l < Pow2[n], NEW q \in Nat, q < n
    PROVE  Bit(h * Pow2[n] + l, q) = Bit(l, q)
<1> DEFINE d == n - q - 1
           P == Pow2[q]
           R == Pow2[d]
           s == l \div P
           r == l % P
           c == R * h
<1>1. d \in Nat /\ d + 1 \in Nat /\ n = q + (d + 1)
  OBVIOUS
<1>2. Pow2[n] = P * Pow2[d + 1] /\ Pow2[d + 1] = 2 * R /\ P \in Nat \ {0} /\ R \in Nat \ {0}
  <2>1. Pow2[q + (d + 1)] = P * Pow2[d + 1]
    BY <1>1, Pow2Sum
  <2>2. d + 1 # 0 /\ (d + 1) - 1 = d
    BY <1>1
  <2>3. Pow2[d + 1] = 2 * R
    <3> HIDE DEF d
    <3> QED BY <1>1, <2>2, Pow2Def
  <2> QED BY <1>1, <2>1, <2>3, Pow2Def
<1> HIDE DEF P, R, d
<1>3. s \in Int /\ r \in Int /\ 0 <= r /\ r < P /\ l = P * s + r
  BY <1>2, Division
<1>4. c \in Int
  BY <1>2
<1>5. h * Pow2[n] + l = P * (2 * c + s) + r
  <2>1. h * (P * (2 * R)) = P * (2 * (R * h))
    BY <1>2
  <2> HIDE DEF c, s, r
  <2>2. P * (2 * c + s) = P * (2 * c) + P * s /\ P * (2 * c) \in Int /\ P * s \in Int
    BY <1>2, <1>3, <1>4
  <2> QED BY <1>2, <1>3, <2>1, <2>2 DEF c
<1> HIDE DEF s, r, c
<1>6. (P * (2 * c + s) + r) \div P = 2 * c + s
  <2> DEFINE z == 2 * c + s
  <2>1. z \in Int
    BY <1>3, <1>4
  <2> HIDE DEF z
  <2>2. (P * z + r) \div P = z
    BY <1>2, <1>3, <2>1, DivisionUnique
  <2> QED BY <2>2 DEF z
<1>7. (2 * c + s) % 2 = s % 2
  BY <1>3, <1>4
<1>8. (h * Pow2[n] + l) \div P = 2 * c + s
  BY <1>5, <1>6
<1>9. Bit(h * Pow2[n] + l, q) = ((h * Pow2[n] + l) \div P) % 2
  BY DEF Bit, P
<1>10. Bit(l, q) = s % 2
  BY DEF Bit, P, s
<1> QED BY <1>7, <1>8, <1>9, <1>10

\* The bits of h * 2^n + l from n on are those of h.
LEMMA BitsAbove ==
    ASSUME NEW h \in Nat, NEW n \in Nat, NEW l \in Nat, l < Pow2[n], NEW d \in Nat
    PROVE  Bit(h * Pow2[n] + l, n + d) = Bit(h, d)
<1> DEFINE N == Pow2[n]
           P == Pow2[d]
           s == h \div P
           r == h % P
           t == N * r + l
<1>1. Pow2[n + d] = N * P /\ N \in Nat \ {0} /\ P \in Nat \ {0} /\ l < N
  BY Pow2Sum, Pow2Def
<1> HIDE DEF N, P
<1>2. s \in Int /\ r \in Int /\ 0 <= r /\ r < P /\ h = P * s + r
  BY <1>1, Division
<1> HIDE DEF s, r
<1>3. N * r \in Int /\ 0 <= N * r /\ N * r <= N * (P - 1) /\ N * (P - 1) = N * P - N /\ N * P \in Nat \ {0}
  BY <1>1, <1>2
<1>4. t \in Int /\ 0 <= t /\ t < N * P
  BY <1>1, <1>3
<1>5. h * N + l = (N * P) * s + t
  <2>1. (P * s + r) * N = (N * P) * s + N * r
    BY <1>1, <1>2
  <2> QED BY <1>1, <1>2, <2>1, <1>3
<1> HIDE DEF t
<1> DEFINE W == N * P
<1>6. W \in Nat \ {0} /\ t < W
  BY <1>3, <1>4
<1> HIDE DEF W
<1>7. (W * s + t) \div W = s
  BY <1>2, <1>4, <1>6, DivisionUnique
<1>8. h * N + l = W * s + t /\ Pow2[n + d] = W
  BY <1>1, <1>5 DEF W
<1>9. Bit(h * N + l, n + d) = ((h * N + l) \div W) % 2
  BY <1>8 DEF Bit
<1>10. Bit(h, d) = s % 2
  BY DEF Bit, s, P
<1> QED BY <1>7, <1>8, <1>9, <1>10 DEF N

\* An index below 2^n has no bit from n on.
LEMMA BitsOfSmall ==
    ASSUME NEW n \in Nat, NEW l \in Nat, l < Pow2[n], NEW q \in Nat, n <= q
    PROVE  Bit(l, q) = 0
<1> DEFINE d == q - n
<1>1. d \in Nat /\ q = n + d /\ Pow2[n] \in Nat /\ Pow2[d] \in Nat \ {0} /\ 0 \in Nat
  BY Pow2Def
<1>2. 0 * Pow2[n] + l = l
  BY <1>1
<1> HIDE DEF d
<1>3. Bit(0 * Pow2[n] + l, n + d) = Bit(0, d)
  BY <1>1, BitsAbove
<1>4. Bit(0, d) = 0
  <2>1. 0 \div Pow2[d] = 0
    <3> DEFINE P == Pow2[d]
    <3>1. P \in Nat \ {0} /\ 0 \in Int /\ 0 < P /\ P * 0 + 0 = 0
      BY <1>1
    <3> HIDE DEF P
    <3>2. (P * 0 + 0) \div P = 0
      BY <3>1, DivisionUnique
    <3> QED BY <3>1, <3>2 DEF P
  <2> QED BY <2>1 DEF Bit
<1> QED BY <1>1, <1>2, <1>3, <1>4

\* Every index has an upper part and n lower bits.
LEMMA HalvesOf ==
    ASSUME NEW n \in Nat, NEW i \in Nat
    PROVE  /\ i \div Pow2[n] \in Nat /\ i % Pow2[n] \in Nat /\ i % Pow2[n] < Pow2[n]
           /\ i = (i \div Pow2[n]) * Pow2[n] + (i % Pow2[n])
           /\ \A l \in Nat : i < Pow2[n + l] => i \div Pow2[n] < Pow2[l]
<1> DEFINE P == Pow2[n]
           h == i \div P
           r == i % P
<1>1. P \in Nat \ {0}
  BY Pow2Def
<1>2. \A l \in Nat : Pow2[n + l] = P * Pow2[l] /\ Pow2[l] \in Nat \ {0}
  BY Pow2Sum, Pow2Def
<1> HIDE DEF P
<1>3. h \in Int /\ r \in Int /\ 0 <= r /\ r < P /\ i = P * h + r
  BY <1>1, Division
<1> HIDE DEF h, r
<1>4. 0 <= h
  <2> SUFFICES ASSUME h <= -1 PROVE FALSE
    BY <1>3
  <2>1. P * h <= P * (-1) /\ P * (-1) = -P
    BY <1>1, <1>3
  <2> QED BY <1>1, <1>3, <2>1
<1>5. h \in Nat /\ r \in Nat /\ P * h = h * P
  BY <1>1, <1>3, <1>4
<1>6. ASSUME NEW l \in Nat, i < P * Pow2[l] PROVE h < Pow2[l]
  <2> DEFINE Q == Pow2[l]
  <2>1. Q \in Nat \ {0} /\ i < P * Q
    BY <1>2, <1>6
  <2> HIDE DEF Q
  <2>2. ASSUME Q <= h PROVE FALSE
    <3>1. P * Q <= P * h /\ P * Q \in Int /\ P * h \in Int
      BY <1>1, <1>5, <2>1, <2>2
    <3> QED BY <1>3, <2>1, <3>1
  <2>3. h < Q
    BY <1>5, <2>1, <2>2
  <2> QED BY <2>3 DEF Q
<1>7. \A l \in Nat : i < Pow2[n + l] => h < Pow2[l]
  BY <1>2, <1>6
<1>8. h \in Nat /\ r \in Nat /\ r < P /\ i = h * P + r
  BY <1>3, <1>5
<1> QED BY <1>7, <1>8 DEF h, r, P

\* The bit of the upper half of a block, and that of the lower.
LEMMA HalfBits ==
    ASSUME NEW n \in Nat, NEW l \in Nat, l < Pow2[n]
    PROVE  /\ Bit(l, n) = 0 /\ Bit(Pow2[n] + l, n) = 1
           /\ \A q \in Nat : q < n => Bit(Pow2[n] + l, q) = Bit(l, q)
           /\ Pow2[n] + l \in Nat /\ Pow2[n + 1] = Pow2[n] + Pow2[n] /\ Pow2[n] \in Nat
<1>1. Pow2[n] \in Nat /\ 1 * Pow2[n] + l = Pow2[n] + l /\ 0 \in Nat /\ 1 \in Nat /\ n + 0 = n
  BY Pow2Def
<1>2. Bit(l, n) = 0
  BY BitsOfSmall
<1>3. Bit(1 * Pow2[n] + l, n + 0) = Bit(1, 0)
  BY <1>1, BitsAbove
<1>4. Bit(1, 0) = 1
  <2>1. Pow2[0] = 1
    BY <1>1, Pow2Def
  <2> QED BY <2>1 DEF Bit
<1>5. \A q \in Nat : q < n => Bit(1 * Pow2[n] + l, q) = Bit(l, q)
  BY <1>1, BitsBelow
<1>6. Pow2[n + 1] = Pow2[n] + Pow2[n]
  <2> DEFINE k == n + 1
  <2>1. k \in Nat /\ k # 0 /\ k - 1 = n
    OBVIOUS
  <2> HIDE DEF k
  <2>2. Pow2[k] = 2 * Pow2[n]
    BY <2>1, Pow2Def
  <2> QED BY <1>1, <2>2 DEF k
<1> QED BY <1>1, <1>2, <1>3, <1>4, <1>5, <1>6

\* Positions below 2^n with the same bits are the same.
LEMMA SameIndex ==
    ASSUME NEW n \in Nat, NEW i \in Nat, NEW j \in Nat, i < Pow2[n], j < Pow2[n],
           \A q \in Nat : q < n => Bit(i, q) = Bit(j, q)
    PROVE  i = j
<1> DEFINE Good(k) == \A s \in Nat, t \in Nat :
                         s < Pow2[k] /\ t < Pow2[k] /\ (\A q \in Nat : q < k => Bit(s, q) = Bit(t, q)) => s = t
           S == {k \in Nat : Good(k)}
<1>1. 0 \in S
  <2>1. Pow2[0] = 1 /\ 0 \in Nat
    BY Pow2Def
  <2> QED BY <2>1
<1>2. ASSUME NEW k \in Nat, k \in S PROVE k + 1 \in S
  <2> SUFFICES ASSUME NEW s \in Nat, NEW t \in Nat, s < Pow2[k + 1], t < Pow2[k + 1],
                      \A q \in Nat : q < k + 1 => Bit(s, q) = Bit(t, q)
               PROVE s = t
    OBVIOUS
  <2> DEFINE P == Pow2[k]
  <2>1. Good(k)
    BY <1>2
  <2>2. Pow2[k + 1] = P + P /\ P \in Nat \ {0}
    <3>1. Pow2[k] \in Nat \ {0} /\ 0 \in Nat
      BY Pow2Def
    <3>2. 0 < Pow2[k]
      BY <3>1
    <3> QED BY <3>1, <3>2, HalfBits
  <2>3. \A c \in Nat : c < P => Bit(c, k) = 0 /\ Bit(P + c, k) = 1
                              /\ \A q \in Nat : q < k => Bit(P + c, q) = Bit(c, q)
    BY HalfBits
  <2>4. Bit(s, k) = Bit(t, k) /\ \A q \in Nat : q < k => Bit(s, q) = Bit(t, q)
    OBVIOUS
  <2> HIDE DEF P
  <2>5. CASE s < P
    <3>1. t < P
      <4> SUFFICES ASSUME P <= t PROVE FALSE
        BY <2>2
      <4>1. t - P \in Nat /\ t - P < P /\ P + (t - P) = t
        BY <2>2
      <4>2. Bit(t, k) = 1 /\ Bit(s, k) = 0
        BY <2>3, <2>5, <4>1
      <4> QED BY <2>4, <4>2
    <3> QED BY <2>1, <2>4, <2>5, <3>1 DEF P
  <2>6. CASE P <= s
    <3>1. s - P \in Nat /\ s - P < P /\ P + (s - P) = s
      BY <2>2, <2>6
    <3>2. P <= t
      <4> SUFFICES ASSUME t < P PROVE FALSE
        BY <2>2
      <4>1. Bit(s, k) = 1 /\ Bit(t, k) = 0
        BY <2>3, <3>1
      <4> QED BY <2>4, <4>1
    <3>3. t - P \in Nat /\ t - P < P /\ P + (t - P) = t
      BY <2>2, <3>2
    <3>4. \A q \in Nat : q < k => Bit(s - P, q) = Bit(t - P, q)
      BY <2>3, <2>4, <3>1, <3>3
    <3>5. s - P = t - P
      BY <2>1, <3>1, <3>3, <3>4 DEF P
    <3> QED BY <2>2, <3>5
  <2> QED BY <2>2, <2>5, <2>6
<1>3. n \in S
  <2> HIDE DEF S
  <2>1. Nat \subseteq S
    BY <1>1, <1>2, TotalInduction
  <2> QED BY <2>1
<1> QED BY <1>3

\* Two rows and columns with the same bits below n.
SameBelow(n, i, j, s, t) == \A q \in Nat : q < n => Bit(i, q) = Bit(s, q) /\ Bit(j, q) = Bit(t, q)

\* What is read at level n depends on the bits below n only.
LEMMA ReadSame ==
    ASSUME NEW arity \in {V, M}, NEW n \in Nat, n <= NumQubits, NEW e \in Lev(arity, n),
           NEW i \in Nat, NEW j \in Nat, NEW s \in Nat, NEW t \in Nat, SameBelow(n, i, j, s, t)
    PROVE  Read(arity, e, i, j, n) = Read(arity, e, s, t, n)
<1> DEFINE S == {l \in 0..n : \A d \in Lev(arity, l) : Read(arity, d, i, j, l) = Read(arity, d, s, t, l)}
<1>1. 0 \in Nat /\ 0 <= n
  OBVIOUS
<1>2. 0 \in S
  <2>1. 0 <= NumQubits
    BY LevFacts
  <2>2. \A d \in Lev(arity, 0) : Read(arity, d, i, j, 0) = d.w /\ Read(arity, d, s, t, 0) = d.w
    BY <1>1, <2>1, ReadType
  <2> QED BY <1>1, <2>2
<1>3. \A l \in 0..n : l # 0 /\ l - 1 \in S => l \in S
  <2> SUFFICES ASSUME NEW l \in 0..n, l # 0, l - 1 \in S, NEW d \in Lev(arity, l)
               PROVE Read(arity, d, i, j, l) = Read(arity, d, s, t, l)
    OBVIOUS
  <2> DEFINE k == l - 1
  <2>1. k \in Nat /\ k < NumQubits /\ l = k + 1 /\ k < n
    BY LevFacts
  <2>2. \A f \in Lev(arity, k) : Read(arity, f, i, j, k) = Read(arity, f, s, t, k)
    OBVIOUS
  <2> HIDE DEF k
  <2>3. d \in Lev(arity, k + 1)
    BY <2>1
  <2>4. Digit(arity, i, j, k) = Digit(arity, s, t, k)
    BY <2>1 DEF Digit, Corner, SameBelow
  <2>5. Part(arity, d, i, j, k) = Part(arity, d, s, t, k)
    BY <2>4 DEF Part
  <2>6. Read(arity, d, i, j, k + 1) = Read(arity, Part(arity, d, i, j, k), i, j, k)
    BY <2>1, <2>3, ReadPart
  <2>7. Read(arity, d, s, t, k + 1) = Read(arity, Part(arity, d, s, t, k), s, t, k)
    BY <2>1, <2>3, ReadPart
  <2>8. Part(arity, d, i, j, k) \in Lev(arity, k)
    BY <2>1, <2>3, PartType
  <2> QED BY <2>1, <2>2, <2>5, <2>6, <2>7, <2>8
<1> HIDE DEF S
<1>4. 0..n \subseteq S
  BY <1>1, <1>2, <1>3, CountInduction
<1>5. n \in S
  BY <1>4
<1> QED BY <1>5 DEF S

\* ... as it is used.
LEMMA ReadBits ==
    ASSUME NEW arity \in {V, M}, NEW n \in Nat, n <= NumQubits, NEW e \in Lev(arity, n),
           NEW i \in Nat, NEW j \in Nat, NEW s \in Nat, NEW t \in Nat,
           \A q \in Nat : q < n => Bit(i, q) = Bit(s, q) /\ Bit(j, q) = Bit(t, q)
    PROVE  Read(arity, e, i, j, n) = Read(arity, e, s, t, n)
<1>1. SameBelow(n, i, j, s, t)
  BY DEF SameBelow
<1> QED BY <1>1, ReadSame

\* An edge of a lower level, read at a higher one.
LEMMA ReadUp ==
    ASSUME NEW arity \in {V, M}, NEW k \in Nat, NEW n \in Nat, k <= n, n <= NumQubits, NEW e \in Lev(arity, k),
           NEW i \in Nat, NEW j \in Nat
    PROVE  Read(arity, e, i, j, n) =
              IF arity = V \/ \A q \in k..n - 1 : Bit(i, q) = Bit(j, q) THEN Read(arity, e, i, j, k) ELSE Zero
<1> DEFINE Same(l) == \A q \in k..l - 1 : Bit(i, q) = Bit(j, q)
           r == Read(arity, e, i, j, k)
           S == {l \in k..n : Read(arity, e, i, j, l) = IF arity = V \/ Same(l) THEN r ELSE Zero}
<1>1. k \in S
  OBVIOUS
<1>2. \A l \in k..n : l # k /\ l - 1 \in S => l \in S
  <2> SUFFICES ASSUME NEW l \in k..n, l # k, l - 1 \in S
               PROVE Read(arity, e, i, j, l) = IF arity = V \/ Same(l) THEN r ELSE Zero
    OBVIOUS
  <2> DEFINE h == l - 1
  <2>1. h \in Nat /\ h < NumQubits /\ l = h + 1 /\ k <= h
    BY LevFacts
  <2>2. Read(arity, e, i, j, h) = IF arity = V \/ Same(h) THEN r ELSE Zero
    OBVIOUS
  <2>3. Same(l) <=> Same(h) /\ Bit(i, h) = Bit(j, h)
    <3>1. \A q : q \in k..l - 1 <=> q \in k..h - 1 \/ q = h
      BY <2>1
    <3> QED BY <3>1
  <2> HIDE DEF h, Same, r
  <2>4. e \in Lev(arity, h)
    BY <2>1, LevFacts
  <2>5. Read(arity, e, i, j, h + 1) =
           IF arity = V \/ Bit(i, h) = Bit(j, h) THEN Read(arity, e, i, j, h) ELSE Zero
    BY <2>1, <2>4, ReadSkip
  <2> QED BY <2>1, <2>2, <2>3, <2>5
<1> HIDE DEF S
<1>3. k..n \subseteq S
  BY <1>1, <1>2, CountInduction
<1>4. n \in S
  BY <1>3
<1> QED BY <1>4 DEF S

\* The product of four weights.
LEMMA FourFactors ==
    ASSUME NEW c \in Weight, NEW d \in Weight, NEW s \in Weight, NEW t \in Weight
    PROVE  Multiply(Multiply(c, s), Multiply(d, t)) = Multiply(Multiply(c, d), Multiply(s, t))
<1>1. Multiply(Multiply(c, s), Multiply(t, d)) = Multiply(Multiply(c, d), Multiply(t, s))
  BY Exchanged
<1>2. Multiply(t, d) = Multiply(d, t) /\ Multiply(t, s) = Multiply(s, t)
  BY WeightLaws
<1> QED BY <1>1, <1>2

\* A sum over the indices of n + 1 bits, whose halves are multiples of sums over
\* the indices of n bits.
HalvesAre(f, n, c, g, d, h) ==
    /\ f \in [Nat -> Weight] /\ g \in [Nat -> Weight] /\ h \in [Nat -> Weight]
    /\ n \in Nat /\ c \in Weight /\ d \in Weight
    /\ \A k \in Nat : k < Pow2[n] => f[k] = Multiply(c, g[k]) /\ f[Pow2[n] + k] = Multiply(d, h[k])

\* A sum whose halves have each a factor in common.
LEMMA TotalHalves ==
    ASSUME NEW f, NEW n, NEW c, NEW g, NEW d, NEW h, HalvesAre(f, n, c, g, d, h)
    PROVE  Total(f)[Pow2[n + 1]] = Add(Multiply(c, Total(g)[Pow2[n]]), Multiply(d, Total(h)[Pow2[n]]))
<1> DEFINE P == Pow2[n]
           second == [k \in Nat |-> f[P + k]]
<1>0. /\ f \in [Nat -> Weight] /\ g \in [Nat -> Weight] /\ h \in [Nat -> Weight]
      /\ n \in Nat /\ c \in Weight /\ d \in Weight
  BY DEF HalvesAre
<1>1. P \in Nat /\ Pow2[n + 1] = P + P
  <2>1. 0 \in Nat /\ 0 < Pow2[n] /\ Pow2[n] \in Nat
    BY <1>0, Pow2Def
  <2> QED BY <1>0, <2>1, HalfBits
<1>2. second \in [Nat -> Weight] /\ \A k \in Nat : second[k] = f[P + k]
  BY <1>0, <1>1
<1>3. \A k \in Nat : k < P => f[k] = Multiply(c, g[k]) /\ second[k] = Multiply(d, h[k])
  BY <1>2 DEF HalvesAre
<1> HIDE DEF second, P
<1>4. Total(f)[P] = Multiply(c, Total(g)[P])
  <2>1. ScaledUpTo(f, c, g, P)
    BY <1>3 DEF ScaledUpTo
  <2>2. f \in [Nat -> Weight] /\ g \in [Nat -> Weight] /\ c \in Weight /\ P \in Nat
    BY <1>0, <1>1
  <2> QED BY <2>1, <2>2, ScaledTotals
<1>5. Total(second)[P] = Multiply(d, Total(h)[P])
  <2>1. ScaledUpTo(second, d, h, P)
    BY <1>3 DEF ScaledUpTo
  <2>2. second \in [Nat -> Weight] /\ h \in [Nat -> Weight] /\ d \in Weight /\ P \in Nat
    BY <1>0, <1>1, <1>2
  <2> QED BY <2>1, <2>2, ScaledTotals
<1>6. Total(f)[P + P] = Add(Total(f)[P], Total(second)[P])
  BY <1>0, <1>1, <1>2, TotalSplit
<1>7. Total(f)[Pow2[n + 1]] = Add(Multiply(c, Total(g)[P]), Multiply(d, Total(h)[P]))
  BY <1>1, <1>4, <1>5, <1>6
<1> QED BY <1>7 DEF P

\* The terms of an entry of a product: the row i of d times the column j of e.
Terms(arity, d, e, i, j, n) == [k \in Nat |-> Multiply(Read(M, d, i, k, n), Read(arity, e, k, j, n))]

\* They are numbers, and defined for every index.
LEMMA TermsType ==
    ASSUME NEW arity \in {V, M}, NEW n \in Nat, n <= NumQubits, NEW d \in Lev(M, n), NEW e \in Lev(arity, n),
           NEW i \in Nat, NEW j \in Nat
    PROVE  /\ Terms(arity, d, e, i, j, n) \in [Nat -> Weight]
           /\ \A k \in Nat : Terms(arity, d, e, i, j, n)[k] = Multiply(Read(M, d, i, k, n), Read(arity, e, k, j, n))
<1>1. \A k \in Nat : Read(M, d, i, k, n) \in Weight /\ Read(arity, e, k, j, n) \in Weight
  <2>1. M \in {V, M}
    OBVIOUS
  <2> QED BY <2>1, ReadType
<1>2. \A k \in Nat : Multiply(Read(M, d, i, k, n), Read(arity, e, k, j, n)) \in Weight
  BY <1>1, WeightLaws
<1> QED BY <1>2 DEF Terms

\* The children whose product goes into an entry of the product.
LEMMA CallKids ==
    ASSUME NEW arity \in {V, M}, NEW d, NEW e, NEW k \in Nat, HigherVar(d.p, e.p) = k,
           NEW i \in Nat, NEW j \in Nat, NEW t \in Nat
    PROVE  multiplyRec(arity)[MultiplyCall(arity, d, e, Digit(arity, i, j, k), Bit(t, k))]
              = multiply(arity, Kid(M, d, i, t, k), Kid(arity, e, t, j, k))
<1> DEFINE cols == arity \div 2
           g == Digit(arity, i, j, k)
           xc == mChildrenAt(d.p, k)
           yc == childrenAt(arity, e.p, k)
           bi == Bit(i, k)
           bj == Bit(j, k)
           bt == Bit(t, k)
<1>1. bi \in {0, 1} /\ bj \in {0, 1} /\ bt \in {0, 1} /\ V = 2 /\ M = 4 /\ V # M
  BY BitType DEF V, M
<1>2. MultiplyCall(arity, d, e, g, bt) = <<xc[2 * ((g - 1) \div cols) + 1 + bt], yc[cols * bt + ((g - 1) % cols) + 1]>>
  BY DEF MultiplyCall
<1>3. Kid(M, d, i, t, k) = xc[2 * bi + bt + 1]
  BY <1>1 DEF Kid, childrenAt, Digit, Corner
<1>4. arity = V => g = bi + 1 /\ cols = 1 /\ Kid(arity, e, t, j, k) = yc[bt + 1]
  BY <1>1 DEF Kid, Digit
<1>5. arity = M => g = 2 * bi + bj + 1 /\ cols = 2 /\ Kid(arity, e, t, j, k) = yc[2 * bt + bj + 1]
  BY <1>1 DEF Kid, Digit, Corner
<1> HIDE DEF cols, g, xc, yc, bi, bj, bt
<1>6. CASE arity = V
  <2>1. (g - 1) \div cols = bi /\ (g - 1) % cols = 0
    BY <1>1, <1>4, <1>6
  <2>2. 2 * bi + 1 + bt = 2 * bi + bt + 1 /\ cols * bt + 0 + 1 = bt + 1
    BY <1>1, <1>4, <1>6
  <2>3. MultiplyCall(arity, d, e, g, bt) = <<Kid(M, d, i, t, k), Kid(arity, e, t, j, k)>>
    BY <1>2, <1>3, <1>4, <1>6, <2>1, <2>2
  <2> QED BY <2>3 DEF g, bt, multiply
<1>7. CASE arity = M
  <2>1. (g - 1) \div cols = bi /\ (g - 1) % cols = bj
    BY <1>1, <1>5, <1>7
  <2>2. 2 * bi + 1 + bt = 2 * bi + bt + 1 /\ cols * bt + bj + 1 = 2 * bt + bj + 1
    BY <1>1, <1>5, <1>7
  <2>3. MultiplyCall(arity, d, e, g, bt) = <<Kid(M, d, i, t, k), Kid(arity, e, t, j, k)>>
    BY <1>2, <1>3, <1>5, <1>7, <2>1, <2>2
  <2> QED BY <2>3 DEF g, bt, multiply
<1> QED BY <1>6, <1>7

\* The sum of a row of d times a column of e.
RowTimes(arity, d, e, i, j, n) == Total(Terms(arity, d, e, i, j, n))[Pow2[n]]

\* A row times a column is a number.
LEMMA RowTimesType ==
    ASSUME NEW arity \in {V, M}, NEW n \in Nat, n <= NumQubits, NEW d \in Lev(M, n), NEW e \in Lev(arity, n),
           NEW i \in Nat, NEW j \in Nat
    PROVE  RowTimes(arity, d, e, i, j, n) \in Weight
<1> DEFINE f == Terms(arity, d, e, i, j, n)
           P == Pow2[n]
<1>1. f \in [Nat -> Weight]
  BY TermsType
<1>2. P \in Nat
  BY Pow2Def
<1> HIDE DEF f, P
<1>3. Total(f)[P] \in Weight
  BY <1>1, <1>2, TotalDef
<1> QED BY <1>3 DEF f, P, RowTimes

\* multiply: the product is an edge of the level, given by one step.
LEMMA MultiplyLev ==
    ASSUME strategy \in Strategies, NEW arity \in {V, M}, NEW n \in Nat, n <= NumQubits,
           NEW d \in Lev(M, n), NEW e \in Lev(arity, n)
    PROVE  /\ multiply(arity, d, e) \in Lev(arity, n)
           /\ multiply(arity, d, e) = multiplyStep(arity, multiplyRec(arity), d, e)
<1> DEFINE nodes == Nodes(arity, 0)
           nodes1 == Nodes(M, 0)
<1>1. M \in {V, M}
  OBVIOUS
<1>2. Family(arity, "Any", nodes) /\ Makes("Any") /\ Family(M, "Any", nodes1)
  BY <1>1, LevFacts
<1>3. Lev(arity, n) = EdgesTo(nodes[n]) /\ Lev(M, n) = EdgesTo(nodes1[n])
  BY DEF Lev
<1>4. d \in Edge(M) /\ e \in Edge(arity)
  BY <1>1, LevFacts
<1>5. multiply(arity, d, e) = multiplyStep(arity, multiplyRec(arity), d, e)
  BY <1>4, MultiplyEquation DEF multiply
<1> HIDE DEF nodes, nodes1
<1>6. multiply(arity, d, e) \in EdgesTo(nodes[n])
  BY <1>2, <1>3, MultiplyEdges
<1> QED BY <1>3, <1>5, <1>6

\* Rows and columns of edges that skip the qubit k.
LEMMA RowTimesSkip ==
    ASSUME NEW arity \in {V, M}, NEW k \in Nat, k < NumQubits, NEW d \in Lev(M, k), NEW e \in Lev(arity, k),
           NEW i \in Nat, NEW j \in Nat
    PROVE  RowTimes(arity, d, e, i, j, k + 1) =
              IF arity = V \/ Bit(i, k) = Bit(j, k) THEN RowTimes(arity, d, e, i, j, k) ELSE Zero
<1> DEFINE n == k + 1
           P == Pow2[k]
           f == Terms(arity, d, e, i, j, n)
           g == Terms(arity, d, e, i, j, k)
           bi == Bit(i, k)
           bj == Bit(j, k)
           Factor0(b) == IF bi = b /\ (arity = V \/ bj = b) THEN One ELSE Zero
<1>1. n \in Nat /\ n <= NumQubits /\ k <= NumQubits /\ M \in {V, M} /\ NumQubits \in Nat
  BY LevFacts
<1>2. d \in Lev(M, n) /\ e \in Lev(arity, n)
  <2>1. Lev(M, k) \subseteq Lev(M, n)
    BY <1>1, LevFacts
  <2>2. Lev(arity, k) \subseteq Lev(arity, n)
    BY <1>1, LevFacts
  <2> QED BY <2>1, <2>2
<1>3. /\ f \in [Nat -> Weight] /\ g \in [Nat -> Weight]
      /\ \A t \in Nat : f[t] = Multiply(Read(M, d, i, t, n), Read(arity, e, t, j, n))
      /\ \A t \in Nat : g[t] = Multiply(Read(M, d, i, t, k), Read(arity, e, t, j, k))
  <2> HIDE DEF n
  <2>1. f \in [Nat -> Weight] /\ \A t \in Nat : f[t] = Multiply(Read(M, d, i, t, n), Read(arity, e, t, j, n))
    BY <1>1, <1>2, TermsType
  <2>2. g \in [Nat -> Weight] /\ \A t \in Nat : g[t] = Multiply(Read(M, d, i, t, k), Read(arity, e, t, j, k))
    BY <1>1, TermsType
  <2> QED BY <2>1, <2>2
<1>4. ASSUME NEW t \in Nat, NEW s \in Nat, s < P, NEW b \in {0, 1}, Bit(t, k) = b,
             \A q \in Nat : q < k => Bit(t, q) = Bit(s, q)
      PROVE  f[t] = Multiply(Factor0(b), g[s])
  <2>1. Read(M, d, i, t, n) = IF bi = b THEN Read(M, d, i, t, k) ELSE Zero
    <3>1. M # V
      BY DEF M, V
    <3> QED BY <1>1, <1>4, <3>1, ReadSkip
  <2>2. Read(arity, e, t, j, n) = IF arity = V \/ bj = b THEN Read(arity, e, t, j, k) ELSE Zero
    BY <1>4, ReadSkip
  <2>3. Read(M, d, i, t, k) = Read(M, d, i, s, k)
    BY <1>1, <1>4, ReadBits
  <2>4. Read(arity, e, t, j, k) = Read(arity, e, s, j, k)
    BY <1>1, <1>4, ReadBits
  <2>5. Read(M, d, i, s, k) \in Weight /\ Read(arity, e, s, j, k) \in Weight
    <3>1. Read(M, d, i, s, k) \in Weight
      BY <1>1, ReadType
    <3>2. Read(arity, e, s, j, k) \in Weight
      BY <1>1, ReadType
    <3> QED BY <3>1, <3>2
  <2> DEFINE p == Read(M, d, i, s, k)
             r == Read(arity, e, s, j, k)
  <2>6. /\ f[t] = Multiply(IF bi = b THEN p ELSE Zero, IF arity = V \/ bj = b THEN r ELSE Zero)
        /\ g[s] = Multiply(p, r)
    BY <1>3, <2>1, <2>2, <2>3, <2>4
  <2>7. p \in Weight /\ r \in Weight /\ Zero \in Weight /\ One \in Weight
    BY <2>5, WeightLaws DEF NonZero
  <2> HIDE DEF p, r, f, g
  <2>8. Multiply(p, r) \in Weight
    BY <2>7, WeightLaws
  <2>9. /\ Multiply(One, Multiply(p, r)) = Multiply(p, r)
        /\ Multiply(Zero, Multiply(p, r)) = Zero /\ Multiply(Zero, r) = Zero
        /\ Multiply(p, Zero) = Zero /\ Multiply(Zero, Zero) = Zero
    BY <2>7, <2>8, WeightLaws
  <2> QED BY <2>6, <2>9
<1>5. bi \in {0, 1} /\ bj \in {0, 1} /\ Factor0(0) \in Weight /\ Factor0(1) \in Weight
  <2>1. One \in Weight /\ Zero \in Weight
    BY WeightLaws DEF NonZero
  <2> QED BY <2>1, BitType
<1>6. \A t \in Nat : t < P => f[t] = Multiply(Factor0(0), g[t]) /\ f[P + t] = Multiply(Factor0(1), g[t])
  <2> SUFFICES ASSUME NEW t \in Nat, t < P
               PROVE  f[t] = Multiply(Factor0(0), g[t]) /\ f[P + t] = Multiply(Factor0(1), g[t])
    OBVIOUS
  <2>1. /\ Bit(t, k) = 0 /\ Bit(P + t, k) = 1 /\ P + t \in Nat
        /\ \A q \in Nat : q < k => Bit(P + t, q) = Bit(t, q)
    BY HalfBits
  <2> HIDE DEF f, g, P, Factor0
  <2>2. f[t] = Multiply(Factor0(0), g[t])
    BY <1>4, <2>1
  <2>3. f[P + t] = Multiply(Factor0(1), g[t])
    BY <1>4, <2>1
  <2> QED BY <2>2, <2>3
<1> DEFINE c0 == Factor0(0)
           c1 == Factor0(1)
           G == Total(g)[P]
<1>7. G \in Weight
  <2>1. P \in Nat
    BY Pow2Def
  <2> HIDE DEF P, g
  <2> QED BY <1>3, <2>1, TotalDef
<1>8. Total(f)[Pow2[k + 1]] = Add(Multiply(c0, G), Multiply(c1, G))
  <2>1. c0 \in Weight /\ c1 \in Weight
    BY <1>5
  <2>2. HalvesAre(f, k, c0, g, c1, g)
    BY <1>3, <1>6, <2>1 DEF HalvesAre
  <2> HIDE DEF f, g, c0, c1
  <2> QED BY <2>2, TotalHalves DEF P
<1>9. Multiply(One, G) = G /\ Multiply(Zero, G) = Zero /\ Add(G, Zero) = G /\ Add(Zero, G) = G /\ Add(Zero, Zero) = Zero
  BY <1>7, SumLaws, WeightLaws
<1> HIDE DEF G
<1>10. Add(Multiply(c0, G), Multiply(c1, G)) = IF arity = V \/ bi = bj THEN G ELSE Zero
  <2> HIDE DEF bi, bj
  <2>1. CASE bi = 0
    <3>1. c1 = Zero /\ c0 = IF arity = V \/ bj = 0 THEN One ELSE Zero
      BY <2>1
    <3> HIDE DEF c0, c1
    <3> QED BY <1>5, <1>9, <2>1, <3>1
  <2>2. CASE bi = 1
    <3>1. c0 = Zero /\ c1 = IF arity = V \/ bj = 1 THEN One ELSE Zero
      BY <2>2
    <3> HIDE DEF c0, c1
    <3> QED BY <1>5, <1>9, <2>2, <3>1
  <2> QED BY <1>5, <2>1, <2>2
<1> QED BY <1>8, <1>10 DEF RowTimes, G

\* Rows and columns of any edges, in terms of the children.
LEMMA RowTimesKids ==
    ASSUME NEW arity \in {V, M}, NEW k \in Nat, k < NumQubits,
           NEW d \in Lev(M, k + 1), NEW e \in Lev(arity, k + 1), NEW i \in Nat, NEW j \in Nat
    PROVE  RowTimes(arity, d, e, i, j, k + 1) =
              Multiply(Multiply(d.w, e.w),
                       Add(RowTimes(arity, Kid(M, d, i, 0, k), Kid(arity, e, 0, j, k), i, j, k),
                           RowTimes(arity, Kid(M, d, i, Pow2[k], k), Kid(arity, e, Pow2[k], j, k), i, j, k)))
<1> DEFINE n == k + 1
           P == Pow2[k]
           d0 == Kid(M, d, i, 0, k)
           d1 == Kid(M, d, i, P, k)
           e0 == Kid(arity, e, 0, j, k)
           e1 == Kid(arity, e, P, j, k)
           f == Terms(arity, d, e, i, j, n)
           g == Terms(arity, d0, e0, i, j, k)
           h == Terms(arity, d1, e1, i, j, k)
           c == Multiply(d.w, e.w)
<1>1. n \in Nat /\ n <= NumQubits /\ k <= NumQubits /\ M \in {V, M} /\ NumQubits \in Nat
  BY LevFacts
<1>2. P \in Nat /\ 0 < P /\ 0 \in Nat
  BY Pow2Def
<1>3. d0 \in Lev(M, k) /\ d1 \in Lev(M, k) /\ d.w \in Weight
  BY <1>1, <1>2, PartType
<1>4. e0 \in Lev(arity, k) /\ e1 \in Lev(arity, k) /\ e.w \in Weight
  BY <1>1, <1>2, PartType
<1>5. Bit(0, k) = 0 /\ Bit(P, k) = 1
  BY <1>2, HalfBits
<1>6. /\ f \in [Nat -> Weight]
      /\ \A t \in Nat : f[t] = Multiply(Read(M, d, i, t, n), Read(arity, e, t, j, n))
  <2> HIDE DEF n
  <2> QED BY <1>1, TermsType DEF n
<1> HIDE DEF d0, d1, e0, e1
<1>7. /\ g \in [Nat -> Weight] /\ h \in [Nat -> Weight]
      /\ \A t \in Nat : g[t] = Multiply(Read(M, d0, i, t, k), Read(arity, e0, t, j, k))
      /\ \A t \in Nat : h[t] = Multiply(Read(M, d1, i, t, k), Read(arity, e1, t, j, k))
  <2> HIDE DEF n, P, c, f
  <2>1. g \in [Nat -> Weight] /\ \A t \in Nat : g[t] = Multiply(Read(M, d0, i, t, k), Read(arity, e0, t, j, k))
    <3>1. k \in Nat /\ k <= NumQubits /\ d0 \in Lev(M, k) /\ e0 \in Lev(arity, k)
      BY <1>1, <1>3, <1>4
    <3> QED BY <3>1, TermsType DEF g
  <2>2. h \in [Nat -> Weight] /\ \A t \in Nat : h[t] = Multiply(Read(M, d1, i, t, k), Read(arity, e1, t, j, k))
    <3>1. k \in Nat /\ k <= NumQubits /\ d1 \in Lev(M, k) /\ e1 \in Lev(arity, k)
      BY <1>1, <1>3, <1>4
    <3> QED BY <3>1, TermsType DEF h
  <2> QED BY <2>1, <2>2
<1> HIDE DEF f, g, h
<1>8. ASSUME NEW t \in Nat, NEW s \in Nat, NEW r \in Nat, Bit(t, k) = Bit(r, k),
             \A q \in Nat : q < k => Bit(t, q) = Bit(s, q)
      PROVE  f[t] = Multiply(c, Multiply(Read(M, Kid(M, d, i, r, k), i, s, k),
                                         Read(arity, Kid(arity, e, r, j, k), s, j, k)))
  <2> DEFINE b == Kid(M, d, i, r, k)
             a0 == Kid(arity, e, r, j, k)
  <2>1. Kid(M, d, i, t, k) = b /\ Kid(arity, e, t, j, k) = a0
    BY <1>8 DEF Kid, Digit, Corner
  <2>2. b \in Lev(M, k)
    BY <1>1, PartType
  <2>3. a0 \in Lev(arity, k)
    BY PartType
  <2>4. Read(M, d, i, t, n) = Multiply(d.w, Read(M, Kid(M, d, i, t, k), i, t, k))
    BY <1>1, ReadKid
  <2>5. Read(arity, e, t, j, n) = Multiply(e.w, Read(arity, Kid(arity, e, t, j, k), t, j, k))
    BY <1>1, ReadKid
  <2> HIDE DEF b, a0
  <2>6. Read(M, b, i, t, k) = Read(M, b, i, s, k)
    BY <1>1, <1>8, <2>2, ReadBits
  <2>7. Read(arity, a0, t, j, k) = Read(arity, a0, s, j, k)
    BY <1>1, <1>8, <2>3, ReadBits
  <2>8. Read(M, b, i, s, k) \in Weight
    BY <1>1, <2>2, ReadType
  <2>9. Read(arity, a0, s, j, k) \in Weight
    BY <1>1, <2>3, ReadType
  <2>10. f[t] = Multiply(Multiply(d.w, Read(M, b, i, s, k)), Multiply(e.w, Read(arity, a0, s, j, k)))
    BY <1>6, <2>1, <2>4, <2>5, <2>6, <2>7
  <2>11. f[t] = Multiply(c, Multiply(Read(M, b, i, s, k), Read(arity, a0, s, j, k)))
    BY <1>3, <1>4, <2>8, <2>9, <2>10, FourFactors
  <2> QED BY <2>11 DEF b, a0
<1>9. \A t \in Nat : t < P => f[t] = Multiply(c, g[t]) /\ f[P + t] = Multiply(c, h[t])
  <2> SUFFICES ASSUME NEW t \in Nat, t < P
               PROVE  f[t] = Multiply(c, g[t]) /\ f[P + t] = Multiply(c, h[t])
    OBVIOUS
  <2>1. /\ Bit(t, k) = 0 /\ Bit(P + t, k) = 1 /\ P + t \in Nat
        /\ \A q \in Nat : q < k => Bit(P + t, q) = Bit(t, q)
    BY HalfBits
  <2> HIDE DEF P, c
  <2>2. f[t] = Multiply(c, Multiply(Read(M, d0, i, t, k), Read(arity, e0, t, j, k)))
    BY <1>2, <1>5, <1>8, <2>1 DEF d0, e0
  <2> DEFINE r == P + t
  <2>3. r \in Nat /\ Bit(r, k) = Bit(P, k) /\ \A q \in Nat : q < k => Bit(r, q) = Bit(t, q)
    BY <1>5, <2>1
  <2> HIDE DEF r
  <2>4. f[r] = Multiply(c, Multiply(Read(M, d1, i, t, k), Read(arity, e1, t, j, k)))
    BY <1>2, <1>5, <1>8, <2>3 DEF d1, e1
  <2> QED BY <1>7, <2>2, <2>4 DEF r
<1>10. c \in Weight
  BY <1>3, <1>4, WeightLaws
<1> DEFINE G == Total(g)[P]
           H == Total(h)[P]
<1>11. G \in Weight /\ H \in Weight
  <2> HIDE DEF P
  <2> QED BY <1>2, <1>7, TotalDef
<1>12. Total(f)[Pow2[k + 1]] = Add(Multiply(c, G), Multiply(c, H))
  <2>1. HalvesAre(f, k, c, g, c, h)
    BY <1>6, <1>7, <1>9, <1>10 DEF HalvesAre
  <2> HIDE DEF c
  <2> QED BY <2>1, TotalHalves DEF P
<1> HIDE DEF G, H, c
<1>13. Multiply(c, Add(G, H)) = Add(Multiply(c, G), Multiply(c, H))
  BY <1>10, <1>11, ThreeWeights
<1> QED BY <1>12, <1>13 DEF RowTimes, G, H, P, c, f, g, h, d0, d1, e0, e1

\* The entries of the edge that multiply makes are sums of two products of
\* children.
LEMMA MultiplyEntryLev ==
    ASSUME strategy \in Strategies, NEW arity \in {V, M}, NEW k \in Nat, k < NumQubits,
           NEW d \in Lev(M, k + 1), NEW e \in Lev(arity, k + 1), MultiplyRecurs(d, e), HigherVar(d.p, e.p) = k,
           NEW q \in 1..arity, NEW r \in {0, 1}
    PROVE  multiplyRec(arity)[MultiplyCall(arity, d, e, q, r)] \in Lev(arity, k)
<1> DEFINE nodes == Nodes(arity, 0)
           nodes1 == Nodes(M, 0)
           n == k + 1
<1>1. M \in {V, M} /\ n \in Nat /\ k <= NumQubits /\ NumQubits \in Nat
  BY QubitsAssumption
<1>2. Family(arity, "Any", nodes) /\ Family(M, "Any", nodes1)
  BY <1>1, LevFacts
<1>3. d \in EdgesTo(nodes1[n]) /\ e \in EdgesTo(nodes[n])
  BY DEF Lev
<1>4. Top(d, e) = k + 1
  BY DEF Top
<1>5. Top(d, e) - 1 = k
  BY <1>4
<1>6. Lev(arity, k) = EdgesTo(nodes[k]) /\ Lev(M, k) = EdgesTo(nodes1[k])
  BY DEF Lev
<1> HIDE DEF nodes, nodes1, n
<1>7. \E c \in EdgesTo(nodes1[Top(d, e) - 1]), f \in EdgesTo(nodes[Top(d, e) - 1]) :
         MultiplyCall(arity, d, e, q, r) = <<c, f>>
  BY <1>1, <1>2, <1>3, MultiplyCallEdges
<1>8. PICK c \in Lev(M, k), f \in Lev(arity, k) : MultiplyCall(arity, d, e, q, r) = <<c, f>>
  BY <1>5, <1>6, <1>7
<1>9. multiply(arity, c, f) \in Lev(arity, k)
  BY <1>1, MultiplyLev
<1> QED BY <1>8, <1>9 DEF multiply

\* What is read of the product of two edges is the row of the first times the
\* column of the second.
ReadsProducts(arity, i, j, k) ==
    \A d \in Lev(M, k), e \in Lev(arity, k) :
       Read(arity, multiply(arity, d, e), i, j, k) = RowTimes(arity, d, e, i, j, k)

\* ... of edges one of which has a node for the qubit k.
LEMMA ReadMultiplyNode ==
    ASSUME strategy \in Strategies, NEW arity \in {V, M}, NEW i \in Nat, NEW j \in Nat,
           NEW k \in Nat, k < NumQubits, ReadsProducts(arity, i, j, k),
           NEW d \in Lev(M, k + 1), NEW e \in Lev(arity, k + 1),
           HigherVar(d.p, e.p) = k, ~(d.p = Null /\ e.p = Null)
    PROVE  Read(arity, multiply(arity, d, e), i, j, k + 1) = RowTimes(arity, d, e, i, j, k + 1)
<1> DEFINE n == k + 1
           P == Pow2[k]
           s == multiply(arity, d, e)
           c == Multiply(d.w, e.w)
           d0 == Kid(M, d, i, 0, k)
           d1 == Kid(M, d, i, P, k)
           e0 == Kid(arity, e, 0, j, k)
           e1 == Kid(arity, e, P, j, k)
           X0 == RowTimes(arity, d0, e0, i, j, k)
           X1 == RowTimes(arity, d1, e1, i, j, k)
<1>1. n \in Nat /\ n <= NumQubits /\ k <= NumQubits /\ M \in {V, M} /\ NumQubits \in Nat
  BY LevFacts
<1>2. s \in Lev(arity, n) /\ s = multiplyStep(arity, multiplyRec(arity), d, e)
  <2> HIDE DEF n, s
  <2> QED BY <1>1, MultiplyLev DEF n, s
<1>3. d.w \in Weight /\ e.w \in Weight
  <2>1. d.w \in Weight
    BY <1>1, LevFacts
  <2>2. e.w \in Weight
    BY <1>1, LevFacts
  <2> QED BY <2>1, <2>2
<1>4. P \in Nat /\ 0 < P /\ 0 \in Nat
  BY Pow2Def
<1>5. Bit(0, k) = 0 /\ Bit(P, k) = 1
  BY <1>4, HalfBits
<1>6. d0 \in Lev(M, k) /\ d1 \in Lev(M, k)
  BY <1>1, <1>4, PartType
<1>7. e0 \in Lev(arity, k) /\ e1 \in Lev(arity, k)
  BY <1>1, <1>4, PartType
<1>8. X0 \in Weight /\ X1 \in Weight
  <2> HIDE DEF d0, d1, e0, e1
  <2> QED BY <1>1, <1>6, <1>7, RowTimesType
<1>9. RowTimes(arity, d, e, i, j, k + 1) = Multiply(c, Add(X0, X1))
  BY RowTimesKids
<1>10. CASE isZero(d.w) \/ isZero(e.w)
  <2>1. s = zero
    BY <1>2, <1>10, MultiplyStepAt
  <2>2. c = Zero
    <3>1. CASE isZero(d.w)
      BY <1>3, <3>1, WeightLaws
    <3>2. CASE isZero(e.w)
      BY <1>3, <3>2, WeightLaws
    <3> QED BY <1>10, <3>1, <3>2
  <2>3. Add(X0, X1) \in Weight
    <3> HIDE DEF X0, X1
    <3> QED BY <1>8, WeightLaws
  <2> HIDE DEF X0, X1, c, s
  <2>4. Multiply(c, Add(X0, X1)) = Zero
    BY <2>2, <2>3, WeightLaws
  <2>5. Read(arity, zero, i, j, n) = Zero
    BY <1>1, ReadZero
  <2> QED BY <1>9, <2>1, <2>4, <2>5 DEF s
<1>11. CASE ~(isZero(d.w) \/ isZero(e.w))
  <2> DEFINE cs == MultiplyEntries(arity, multiplyRec(arity), d, e)
             g == Digit(arity, i, j, k)
             f(q, r) == multiplyRec(arity)[MultiplyCall(arity, d, e, q, r)]
             made == makeEdge(arity, k, cs)
  <2>1. s = Rescaled(c, made)
    BY <1>2, <1>11, MultiplyStepAt
  <2>2. MultiplyRecurs(d, e)
    BY <1>11 DEF MultiplyRecurs
  <2>3. \A q \in 1..arity : f(q, 0) \in Lev(arity, k) /\ f(q, 1) \in Lev(arity, k)
    BY <2>2, MultiplyEntryLev
  <2>4. \A q \in 1..arity : cs[q] = addRec(arity)[<<f(q, 0), f(q, 1)>>]
    BY DEF MultiplyEntries
  <2> HIDE DEF cs, f
  <2>5. \A q \in 1..arity : cs[q] \in Lev(arity, k)
    BY <1>1, <2>3, <2>4, AddLev
  <2>6. /\ made \in Lev(arity, k + 1)
        /\ Read(arity, made, i, j, k + 1) = Read(arity, cs[g], i, j, k)
    BY <2>5, ReadMadeOf
  <2>7. g \in 1..arity
    BY DigitType
  <2>8. f(g, 0) = multiply(arity, d0, e0) /\ f(g, 1) = multiply(arity, d1, e1)
    <3>1. multiplyRec(arity)[MultiplyCall(arity, d, e, g, Bit(0, k))] = multiply(arity, d0, e0)
      BY <1>4, CallKids
    <3>2. multiplyRec(arity)[MultiplyCall(arity, d, e, g, Bit(P, k))] = multiply(arity, d1, e1)
      BY <1>4, CallKids
    <3> HIDE DEF d0, d1, e0, e1, P, g
    <3> QED BY <1>5, <3>1, <3>2 DEF f
  <2> HIDE DEF g, made, d0, d1, e0, e1, s
  <2>9. /\ Read(arity, multiply(arity, d0, e0), i, j, k) = X0
        /\ Read(arity, multiply(arity, d1, e1), i, j, k) = X1
    BY <1>6, <1>7 DEF ReadsProducts
  <2>10. Read(arity, cs[g], i, j, k) = Add(Read(arity, f(g, 0), i, j, k), Read(arity, f(g, 1), i, j, k))
    <3> DEFINE b0 == f(g, 0)
               b1 == f(g, 1)
    <3>1. b0 \in Lev(arity, k) /\ b1 \in Lev(arity, k) /\ cs[g] = addRec(arity)[<<b0, b1>>]
      BY <2>3, <2>4, <2>7
    <3> HIDE DEF b0, b1
    <3>2. Read(arity, cs[g], i, j, k) = Add(Read(arity, b0, i, j, k), Read(arity, b1, i, j, k))
      BY <1>1, <3>1, ReadAdd
    <3> QED BY <3>2 DEF b0, b1
  <2>11. Read(arity, cs[g], i, j, k) = Add(X0, X1)
    BY <2>8, <2>9, <2>10
  <2>12. Read(arity, s, i, j, n) = Multiply(c, Read(arity, made, i, j, n))
    <3>1. c \in Weight
      BY <1>3, WeightLaws
    <3>2. made \in Lev(arity, n) /\ Rescaled(c, made) \in Lev(arity, n)
      BY <1>2, <2>1, <2>6
    <3> HIDE DEF c, n
    <3> QED BY <1>1, <2>1, <3>1, <3>2, ReadRescaled
  <2> QED BY <1>9, <2>6, <2>11, <2>12 DEF s
<1> QED BY <1>10, <1>11

\* ... of edges that both skip the qubit k.
LEMMA ReadMultiplySkip ==
    ASSUME strategy \in Strategies, NEW arity \in {V, M}, NEW i \in Nat, NEW j \in Nat,
           NEW k \in Nat, k < NumQubits, ReadsProducts(arity, i, j, k),
           NEW d \in Lev(M, k), NEW e \in Lev(arity, k)
    PROVE  Read(arity, multiply(arity, d, e), i, j, k + 1) = RowTimes(arity, d, e, i, j, k + 1)
<1> DEFINE s == multiply(arity, d, e)
<1>1. k <= NumQubits
  BY LevFacts
<1>2. s \in Lev(arity, k)
  BY <1>1, MultiplyLev
<1>3. Read(arity, s, i, j, k) = RowTimes(arity, d, e, i, j, k)
  BY DEF ReadsProducts
<1> HIDE DEF s
<1>4. Read(arity, s, i, j, k + 1) = IF arity = V \/ Bit(i, k) = Bit(j, k) THEN Read(arity, s, i, j, k) ELSE Zero
  BY <1>2, ReadSkip
<1>5. RowTimes(arity, d, e, i, j, k + 1)
         = IF arity = V \/ Bit(i, k) = Bit(j, k) THEN RowTimes(arity, d, e, i, j, k) ELSE Zero
  BY RowTimesSkip
<1> QED BY <1>3, <1>4, <1>5 DEF s

\* ... of terminals.
LEMMA ReadMultiplyTerminals ==
    ASSUME strategy \in Strategies, NEW arity \in {V, M}, NEW i \in Nat, NEW j \in Nat
    PROVE  ReadsProducts(arity, i, j, 0)
<1> SUFFICES ASSUME NEW d \in Lev(M, 0), NEW e \in Lev(arity, 0)
             PROVE  Read(arity, multiply(arity, d, e), i, j, 0) = RowTimes(arity, d, e, i, j, 0)
  BY DEF ReadsProducts
<1> DEFINE s == multiply(arity, d, e)
           f == Terms(arity, d, e, i, j, 0)
<1>1. M \in {V, M} /\ 0 \in Nat /\ 0 <= NumQubits
  BY QubitsAssumption
<1>2. s \in Lev(arity, 0) /\ s = multiplyStep(arity, multiplyRec(arity), d, e)
  BY <1>1, MultiplyLev
<1>3. d.p = Null /\ e.p = Null
  BY <1>1, TerminalLev
<1>4. d.w \in Weight /\ e.w \in Weight
  <2>1. d.w \in Weight
    BY <1>1, LevFacts
  <2>2. e.w \in Weight
    BY <1>1, LevFacts
  <2> QED BY <2>1, <2>2
<1>5. s = IF isZero(d.w) \/ isZero(e.w) THEN zero ELSE terminal(Multiply(d.w, e.w))
  BY <1>2, <1>3, MultiplyStepAt
<1> HIDE DEF s
<1>6. s.w = Multiply(d.w, e.w)
  <2>1. zero.w = Zero /\ terminal(Multiply(d.w, e.w)).w = Multiply(d.w, e.w)
    BY DEF zero, terminal
  <2>2. CASE isZero(d.w) \/ isZero(e.w)
    <3>1. s.w = Zero
      BY <1>5, <2>1, <2>2
    <3>2. d.w = Zero \/ e.w = Zero
      BY <1>4, <2>2, WeightLaws
    <3>3. Multiply(d.w, e.w) = Zero
      BY <1>4, <3>2, ProductNotZero
    <3> QED BY <3>1, <3>3
  <2>3. CASE ~(isZero(d.w) \/ isZero(e.w))
    BY <1>5, <2>1, <2>3
  <2> QED BY <2>2, <2>3
<1>7. Read(arity, s, i, j, 0) = s.w
  BY <1>1, <1>2, ReadType
<1>8. f \in [Nat -> Weight] /\ f[0] = Multiply(d.w, e.w)
  <2>1. f \in [Nat -> Weight] /\ f[0] = Multiply(Read(M, d, i, 0, 0), Read(arity, e, 0, j, 0))
    BY <1>1, TermsType
  <2>2. Read(M, d, i, 0, 0) = d.w
    BY <1>1, ReadType
  <2>3. Read(arity, e, 0, j, 0) = e.w
    BY <1>1, ReadType
  <2> QED BY <2>1, <2>2, <2>3
<1> HIDE DEF f
<1>9. Total(f)[1] = f[0]
  <2>1. 1 \in Nat /\ 0 < 1 /\ \A k \in Nat : k < 1 /\ k # 0 => f[k] = Zero
    OBVIOUS
  <2> QED BY <1>1, <1>8, <2>1, TotalSingle
<1>10. Pow2[0] = 1
  BY <1>1, Pow2Def
<1> QED BY <1>6, <1>7, <1>8, <1>9, <1>10 DEF RowTimes, f, s

(***************************************************************************)
(* multiply: what is read of the product is a row times a column.          *)
(***************************************************************************)
LEMMA ReadMultiply ==
    ASSUME strategy \in Strategies, NEW arity \in {V, M}, NEW n \in Nat, n <= NumQubits,
           NEW d \in Lev(M, n), NEW e \in Lev(arity, n), NEW i \in Nat, NEW j \in Nat
    PROVE  Read(arity, multiply(arity, d, e), i, j, n) = RowTimes(arity, d, e, i, j, n)
<1> DEFINE S == {k \in 0..NumQubits : ReadsProducts(arity, i, j, k)}
<1>1. NumQubits \in Nat /\ 0 <= NumQubits /\ 0 \in Nat
  BY QubitsAssumption
<1>2. 0 \in S
  BY <1>1, ReadMultiplyTerminals
<1>3. \A k \in 0..NumQubits : k # 0 /\ k - 1 \in S => k \in S
  <2> SUFFICES ASSUME NEW k \in 0..NumQubits, k # 0, k - 1 \in S PROVE ReadsProducts(arity, i, j, k)
    OBVIOUS
  <2> DEFINE l == k - 1
  <2>1. l \in Nat /\ l < NumQubits /\ k = l + 1 /\ l \in S
    BY <1>1
  <2>2. ReadsProducts(arity, i, j, l)
    BY <2>1
  <2> HIDE DEF l
  <2>3. ASSUME NEW b \in Lev(M, l + 1), NEW c \in Lev(arity, l + 1)
        PROVE Read(arity, multiply(arity, b, c), i, j, l + 1) = RowTimes(arity, b, c, i, j, l + 1)
    <3>1. M \in {V, M}
      OBVIOUS
    <3>2. \/ b \in Lev(M, l) /\ c \in Lev(arity, l)
          \/ HigherVar(b.p, c.p) = l /\ ~(b.p = Null /\ c.p = Null)
      BY <2>1, <3>1, SkippingLev
    <3>3. CASE b \in Lev(M, l) /\ c \in Lev(arity, l)
      BY <2>1, <2>2, <3>3, ReadMultiplySkip
    <3>4. CASE HigherVar(b.p, c.p) = l /\ ~(b.p = Null /\ c.p = Null)
      BY <2>1, <2>2, <3>4, ReadMultiplyNode
    <3> QED BY <3>2, <3>3, <3>4
  <2> QED BY <2>1, <2>3 DEF ReadsProducts
<1> HIDE DEF S
<1>4. 0..NumQubits \subseteq S
  BY <1>1, <1>2, <1>3, CountInduction
<1>5. n \in S
  BY <1>1, <1>4
<1> QED BY <1>5 DEF S, ReadsProducts

=============================================================================
