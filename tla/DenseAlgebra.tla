---------------------------- MODULE DenseAlgebra ----------------------------
(***************************************************************************)
(* What a DwPackage promises: two vectors and an operator on NumQubits     *)
(* qubits, combined as vectors and matrices are, over any numbers that can *)
(* be added, multiplied and conjugated.  Index i - 1 in binary has the bit *)
(* of qubit q at place q.                                                  *)
(***************************************************************************)
EXTENDS Naturals, Sequences

CONSTANTS
    Zero, One, Add(_, _), Multiply(_, _), conjugate(_),
    NumQubits,
    Factors,    \* product states: the amplitudes of |0> and |1> of some qubits
    Others,     \* the product states that v may be
    Given,      \* vectors given amplitude by amplitude
    GivenOperator,
    Request     \* gates: a matrix, its targets, and controls

VARIABLES u, v, a,
          op          \* the last operation

Qubit == 0..NumQubits - 1
\* 2^n
Size[n \in Nat] == IF n = 0 THEN 1 ELSE 2 * Size[n - 1]
Index == 1..Size[NumQubits]
Bit(i, q) == ((i - 1) \div Size[q]) % 2

Dot(p, q) ==
    LET sum[i \in 0..Len(p)] == IF i = 0 THEN Zero ELSE Add(sum[i - 1], Multiply(p[i], q[i]))
    IN  sum[Len(p)]

Sum(p, q) == [i \in Index |-> Add(p[i], q[i])]
Pointwise(p, q) == [i \in Index |-> Multiply(p[i], q[i])]
Apply(b, p) == [i \in Index |-> Dot(b[i], p)]
Product(b, c) == LET Column(j) == [i \in Index |-> c[i][j]]
                 IN  [i \in Index |-> [j \in Index |-> Dot(b[i], Column(j))]]
Outer(p, q) == [i \in Index |-> [j \in Index |-> Multiply(p[i], conjugate(q[j]))]]

\* The state of the qubits from k on is p's, of those below k it is q's.
High(i, k) == ((i - 1) \div Size[k]) + 1
Low(i, k) == ((i - 1) % Size[k]) + 1
Tensor(p, q, k) == [i \in Index |-> Multiply(p[High(i, k)], q[Low(i, k)])]
TensorOperator(b, c, k) ==
    [i \in Index |-> [j \in Index |->
        Multiply(b[High(i, k)][High(j, k)], c[Low(i, k)][Low(j, k)])]]

Projection(p, q, bit) == [i \in Index |-> IF Bit(i, q) = bit THEN p[i] ELSE Zero]

\* The amplitudes do not depend on the qubits that f has no factor for.
ProductState(f) ==
    [i \in Index |->
        LET product[n \in 0..NumQubits] ==
                IF n = 0 THEN One
                ELSE IF n - 1 \in DOMAIN f
                        THEN Multiply(product[n - 1], f[n - 1][Bit(i, n - 1) + 1])
                ELSE product[n - 1]
        IN  product[NumQubits]]

Identity == [i \in Index |-> [j \in Index |-> IF i = j THEN One ELSE Zero]]

\* The bits of the targets, the first being the most significant.
Selected(i, targets) ==
    LET sub[k \in 0..Len(targets)] == IF k = 0 THEN 0 ELSE 2 * sub[k - 1] + Bit(i, targets[k])
    IN  sub[Len(targets)]

\* The gate acts on its targets where all controls are 1.
Operator(r) ==
    LET Fires(i) == \A k \in DOMAIN r.controls : Bit(i, r.controls[k]) = 1
        Spectators == Qubit \ {r.targets[k] : k \in DOMAIN r.targets}
        Entry(i, j) ==
            IF \E q \in Spectators : Bit(i, q) # Bit(j, q) THEN Zero
            ELSE IF Fires(i)
               THEN r.matrix[Size[Len(r.targets)] * Selected(i, r.targets) + Selected(j, r.targets) + 1]
            ELSE Identity[i][j]
    IN  [i \in Index |-> [j \in Index |-> Entry(i, j)]]

Init ==
    /\ u \in {ProductState(f) : f \in Factors} \cup Given
    /\ v \in {ProductState(f) : f \in Others}
    /\ a \in GivenOperator
    /\ op = <<>>

VectorBecomes(o, p) == op' = o /\ u' = p /\ UNCHANGED <<v, a>>
OperatorBecomes(o, b) == op' = o /\ a' = b /\ UNCHANGED <<u, v>>

Next ==
    \/ VectorBecomes(<<"add">>, Sum(u, v))
    \/ VectorBecomes(<<"apply">>, Apply(a, u))
    \/ VectorBecomes(<<"kroneckerInPlace">>, Pointwise(u, v))
    \/ OperatorBecomes(<<"outer">>, Outer(u, v))
    \/ op' = <<"swap">> /\ u' = v /\ v' = u /\ UNCHANGED a
    \/ \E q \in Qubit, outcome \in BOOLEAN :
          VectorBecomes(<<"measure", q, outcome>>, Projection(u, q, IF outcome THEN 1 ELSE 0))
    \/ \E k \in 1..NumQubits - 1 : VectorBecomes(<<"kronecker", k>>, Tensor(u, v, k))
    \/ \E r \in Request :
          \/ VectorBecomes(<<"applyGate", r>>, Apply(Operator(r), u))
          \/ OperatorBecomes(<<"makeGate", r>>, Operator(r))
          \/ OperatorBecomes(<<"multiply", r>>, Product(Operator(r), a))
          \/ \E k \in 1..NumQubits - 1 :
                OperatorBecomes(<<"kroneckerMatrices", r, k>>, TensorOperator(a, Operator(r), k))

Spec == Init /\ [][Next]_<<u, v, a, op>>
=============================================================================
