---------------------------- MODULE DwCalculator ----------------------------
(***************************************************************************)
(* A client of DwPackage with two vector edges and a matrix edge, which it *)
(* replaces by the results of the package's operations in any order.       *)
(***************************************************************************)
EXTENDS DwGates

CONSTANTS
    Strategy,       \* the strategies the package may be constructed with
    BasisInput,     \* BasisStates of the qubits from a first one on
    RandomInput,    \* names of gates, as makeRandomSingleQubitState draws them
    VectorInput,    \* amplitudes of all basis states
    MatrixInput,    \* square matrices
    Request,        \* gates: a matrix, its targets, and controls
    MaxOps          \* bound: operations on one set of edges

ASSUME StrategyAssumption == Strategy \subseteq {"None", "Inverse", "Gcd"}
ASSUME BasisAssumption ==
    \A b \in BasisInput : /\ b.state \in Seq(BasisState) /\ b.start \in Nat
                         /\ b.start + Len(b.state) <= NumQubits
ASSUME RandomAssumption == \A names \in RandomInput : names \in Seq(DOMAIN byName) /\ NumQubits > 0
ASSUME VectorAssumption == VectorInput \subseteq [1..Pow2[NumQubits] -> Weight]
ASSUME MatrixAssumption ==
    MatrixInput \subseteq [1..Pow2[NumQubits] -> [1..Pow2[NumQubits] -> Weight]]
ASSUME RequestAssumption ==
    \A r \in Request : /\ r.targets \in Seq(Nat) /\ r.controls \in Seq(Nat)
                       /\ \/ Len(r.targets) = 1 /\ r.matrix \in [1..4 -> Weight]
                          \/ Len(r.targets) = 2 /\ r.matrix \in [1..16 -> Weight]

VARIABLES x, y,     \* vector edges
          m,        \* a matrix edge
          u, v, a,  \* the entries that x, y and m represent
          op, ops   \* the last operation, and the number of them
vars == <<strategy, x, y, m, u, v, a, op, ops>>

Qubit == 0..NumQubits - 1

\* The builder for a request, which throws unless the request is accepted.
Accepted(r) == TargetsAccepted(r.targets) /\ ControlsAccepted(r.controls, Range(r.targets))

Gate(r) ==
    IF Len(r.targets) = 1
       THEN makeControlledSingleQubitGateDD(r.controls, r.targets[1], r.matrix)
       ELSE makeControlledTwoQubitGateDD(r.controls, r.targets[1], r.targets[2], r.matrix)

\* What amplitude and matrixEntry read back.
Vector(edge) == Listed([i \in 1..Pow2[NumQubits] |-> amplitude(edge, i - 1)])
Matrix(edge) ==
    LET RowOf(i) == Listed([j \in 1..Pow2[NumQubits] |-> matrixEntry(edge, i - 1, j - 1)])
    IN  Listed([i \in 1..Pow2[NumQubits] |-> RowOf(i)])

Init ==
    /\ strategy \in Strategy
    /\ x \in {makeBasisState(b.state, b.start) : b \in BasisInput}
                \cup {makeStateFromVector(amps) : amps \in VectorInput}
    /\ y \in {makeRandomSingleQubitState(0, names) : names \in RandomInput}
    /\ m \in {makeDDFromMatrix(matrix) : matrix \in MatrixInput}
    /\ u = Vector(x) /\ v = Vector(y) /\ a = Matrix(m)
    /\ op = <<>> /\ ops = 0

\* A call does one operation, op, and its result replaces an edge.
Step(o) == ops < MaxOps /\ ops' = ops + 1 /\ op' = o /\ UNCHANGED strategy

VectorBecomes(o, edge) ==
    Step(o) /\ x' = edge /\ u' = Vector(edge) /\ UNCHANGED <<y, m, v, a>>
MatrixBecomes(o, edge) ==
    Step(o) /\ m' = edge /\ a' = Matrix(edge) /\ UNCHANGED <<x, y, u, v>>

addVectors == VectorBecomes(<<"add">>, add(x, y))
applyMatrix == VectorBecomes(<<"apply">>, multiply(V, m, x))

\* ExactDDSimulation's gates: g is the operator of r.
applyGate(r, g) == VectorBecomes(<<"applyGate", r>>, multiply(V, g, x))
makeGate(r, g) == MatrixBecomes(<<"makeGate", r>>, g)
multiplyMatrices(r, g) == MatrixBecomes(<<"multiply", r>>, multiply(M, g, m))

measure(qubit, outcome) ==
    VectorBecomes(<<"measure", qubit, outcome>>, measureOneQubit(x, qubit, outcome).state)

outer == MatrixBecomes(<<"outer">>, outerProduct(x, y))

\* y "occupying the low qubit range" is for the caller to see to, and so are
\* disjoint ranges without incIdx.
kroneckerVectors(k) ==
    /\ topVar(y.p) < k
    /\ kroneckerFits(x, k, TRUE)
    /\ VectorBecomes(<<"kronecker", k>>, kronecker(V, x, y, k, TRUE))

kroneckerInPlace(k) ==
    /\ topVar(y.p) < k /\ x.p \in Nodes(V, k)[NumQubits]
    /\ kroneckerFits(x, k, FALSE)
    /\ VectorBecomes(<<"kroneckerInPlace">>, kronecker(V, x, y, k, FALSE))

kroneckerMatrices(r, g, k) ==
    /\ topVar(g.p) < k
    /\ kroneckerFits(m, k, TRUE)
    /\ MatrixBecomes(<<"kroneckerMatrices", r, k>>, kronecker(M, m, g, k, TRUE))

swap == /\ Step(<<"swap">>)
        /\ x' = y /\ y' = x /\ u' = v /\ v' = u
        /\ UNCHANGED <<m, a>>

\* The client may stop.
finished == ops = MaxOps /\ UNCHANGED vars

Next ==
    \/ addVectors \/ applyMatrix \/ outer \/ swap
    \/ /\ ops < MaxOps
       /\ \E qubit \in Qubit, outcome \in BOOLEAN : measure(qubit, outcome)
    \/ /\ ops < MaxOps
       /\ \E k \in 1..NumQubits - 1 : kroneckerVectors(k) \/ kroneckerInPlace(k)
    \/ /\ ops < MaxOps
       /\ \E r \in {q \in Request : Accepted(q)} : \E g \in {Gate(r)} :
            \/ applyGate(r, g) \/ makeGate(r, g) \/ multiplyMatrices(r, g)
            \/ \E k \in 1..NumQubits - 1 : kroneckerMatrices(r, g, k)
    \/ finished

Spec == Init /\ [][Next]_vars
-----------------------------------------------------------------------------
\* The amplitudes of |0> and |1> after some gates.
Turn(f, g) == <<Add(Multiply(g[1], f[1]), Multiply(g[2], f[2])),
                Add(Multiply(g[3], f[1]), Multiply(g[4], f[2]))>>
turnStep(names, upTo, n) ==
    IF n = 0 THEN <<One, Zero>> ELSE Turn(upTo[n - 1], byName[names[n]])

Turned(names) ==
    LET upTo[n \in 0..Len(names)] == turnStep(names, upTo, n)
    IN  upTo[Len(names)]

Algebra == INSTANCE DenseAlgebra
    WITH Factors <- {[q \in b.start..b.start + Len(b.state) - 1 |->
                          BasisWeights(b.state[q - b.start + 1])] : b \in BasisInput},
         Others <- {[q \in {0} |-> Turned(names)] : names \in RandomInput},
         Given <- VectorInput,
         GivenOperator <- MatrixInput,
         Request <- {r \in Request : Accepted(r)}

(***************************************************************************)
(* Whatever edges are shared, skipped or normalized, each operation yields *)
(* the vector or the matrix that it is named for, exactly.                 *)
(***************************************************************************)
ImplementsAlgebra == Algebra!Spec

(***************************************************************************)
(* The diagrams are ordered and reduced: along each edge the variable goes *)
(* down, a zero weight has no node below it, no node is redundant, and     *)
(* under Inverse the leftmost weight of a node other than 0 is 1.          *)
(***************************************************************************)
Kept(arity, es, norm) ==
    /\ arity = V => es[1] # es[2]
    /\ arity = M => ~IdentityLike(es)
    /\ norm = "Inverse" => es[Leftmost(es)].w = One

ReducedNodes(arity, norm) ==
    LET below[n \in Nat] ==
            IF n = 0 THEN {Null}
            ELSE below[n - 1] \cup {p \in NodesOver(arity, n - 1, below[n - 1]) :
                                        Kept(arity, p.e, norm)}
    IN  below

ReducedEdge(arity, norm) == EdgesTo(ReducedNodes(arity, norm)[NumQubits])

AlwaysReduced ==
    /\ x \in ReducedEdge(V, strategy) /\ y \in ReducedEdge(V, strategy)
    /\ m \in ReducedEdge(M, strategy)

(***************************************************************************)
(* "submatrices which differ only by a scalar factor collapse to one       *)
(* shared node" (DwPackage.hpp:65-66), and the factor is the weight of the *)
(* edge: in whatever way vectors and operators were computed, equal ones   *)
(* are equal edges, and proportional ones have the same node.              *)
(***************************************************************************)
Proportional(p, q) ==
    \A i, j \in DOMAIN p : Multiply(p[i], q[j]) = Multiply(p[j], q[i])

EqualEdges ==
    /\ makeStateFromVector(u) = x
    /\ makeDDFromMatrix(a) = m
    /\ ~isZero(x.w) /\ ~isZero(y.w) => (Proportional(u, v) <=> x.p = y.p)

InverseIsCanonical == strategy = "Inverse" => EqualEdges

(***************************************************************************)
(* The inner product is the sum over all amplitudes, also where both       *)
(* diagrams skip a level; it bounds fidelity by 1, and fidelity divides by *)
(* zero exactly if one of the vectors is zero.                             *)
(***************************************************************************)
\* z >= 0 for a real z = s + t sqrt(2), up to a positive factor.
NonNegative(z) ==
    LET s == z.t[1]
        t == z.t[2]
    IN  \/ s >= 0 /\ (t >= 0 \/ s * s >= 2 * t * t)
        \/ t > 0 /\ 2 * t * t >= s * s

Conjugates(p) == [i \in DOMAIN p |-> conjugate(p[i])]

InnerProductsExact ==
    /\ innerProduct(x, y) = Algebra!Dot(Conjugates(u), v)
    /\ LET f == fidelity(x, y)
       IN  /\ NonNegative(f.num) /\ NonNegative(Subtract(f.denom, f.num))
           /\ isZero(f.denom) <=> isZero(x.w) \/ isZero(y.w)

(***************************************************************************)
(* The outcomes of a measurement exhaust the norm, and measuring again     *)
(* gives the same outcome with certainty.                                  *)
(***************************************************************************)
Probabilities(edge, qubit) ==
    [outcome \in BOOLEAN |-> measureOneQubit(edge, qubit, outcome).probability]

MeasurementsComplete ==
    \A qubit \in Qubit : \A p \in {Probabilities(x, qubit)} :
        /\ Add(p[FALSE], p[TRUE]) = innerProduct(x, x)
        /\ op # <<>> /\ op[1] = "measure" /\ op[2] = qubit => isZero(p[~op[3]])

(***************************************************************************)
(* A gate is unitary: whatever its targets, its controls and their order,  *)
(* applying it leaves the norm as it is, exactly.                          *)
(***************************************************************************)
NormPreserved ==
    [][op'[1] = "applyGate" =>
          \A after \in {x'} : innerProduct(after, after) = innerProduct(x, x)]_vars

(***************************************************************************)
(* The matrices of DwGateMatrixDefinitions.cpp are those of the gates they *)
(* are named for, and the builders agree on which target and control is    *)
(* which: well-known circuits are equal, on each of the states begun with. *)
(***************************************************************************)
\* A circuit is a list of gates, each a name and its qubits; cx has a control
\* and a target.
On(gate, qubits) ==
    [controls |-> IF gate = "cx" THEN <<qubits[1]>> ELSE <<>>,
     targets |-> IF gate = "cx" THEN <<qubits[2]>> ELSE qubits,
     matrix |-> CASE gate = "cx" -> byName["x"]
                  [] gate # "cx" /\ Len(qubits) = 1 -> byName[gate]
                  [] gate # "cx" /\ Len(qubits) = 2 -> twoQubitByName[gate]]

\* The state after a circuit.
After(circuit) ==
    Vector(FoldLeft(LAMBDA e, g : multiply(V, Gate(On(g[1], g[2])), e), x, circuit))

SingleQubitIdentities(q) ==
    LET Gates(names) == [i \in DOMAIN names |-> <<names[i], <<q>>>>]
    IN  {{Gates(<<"s", "s">>), Gates(<<"z">>)},
         {Gates(<<"t", "t">>), Gates(<<"s">>)},
         {Gates(<<"sx", "sx">>), Gates(<<"x">>), Gates(<<"v", "v", "z", "y", "x">>)},
         {Gates(<<"h", "s", "h">>), Gates(<<"sx">>)},
         {<<>>, Gates(<<"i">>), Gates(<<"s", "sdg">>), Gates(<<"t", "tdg">>),
          Gates(<<"v", "vdg">>), Gates(<<"sx", "sxdg">>)}}

TwoQubitIdentities(p, q) ==
    LET pq == <<"cx", <<p, q>>>>
        qp == <<"cx", <<q, p>>>>
    IN  {{<<<<"dcx", <<p, q>>>>>>, <<pq, qp>>},
         {<<<<"swap", <<p, q>>>>>>, <<pq, qp, pq>>},
         {<<<<"iswap", <<p, q>>>>>>,
          <<<<"s", <<p>>>>, <<"s", <<q>>>>, <<"h", <<p>>>>, pq, qp, <<"h", <<q>>>>>>},
         {<<>>, <<<<"iswap", <<p, q>>>>, <<"iswapdg", <<p, q>>>>>>}}

GateIdentities ==
    op = <<>> => \A p, q \in Qubit :
        \A equal \in IF p = q THEN SingleQubitIdentities(q) ELSE TwoQubitIdentities(p, q) :
            Cardinality({After(circuit) : circuit \in equal}) = 1
=============================================================================
