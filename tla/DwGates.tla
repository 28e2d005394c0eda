------------------------------ MODULE DwGates ------------------------------
(***************************************************************************)
(* The gate matrices (src/dd/exact/DwGateMatrixDefinitions.cpp), row by    *)
(* row, and the builders that embed one into an operator on NumQubits      *)
(* qubits, with any number of controls (src/dd/exact/DwPackage.cpp).       *)
(***************************************************************************)
EXTENDS DwDiagram

halfSqrt2 == canonicalize(<<0, 1, 0, -1>>, 2, 1)
invSqrt2PlusI == canonicalize(<<1, 0, 1, 0>>, 2, 1)     \* (1 + i)/2

byName ==
    LET root == conjugate(invSqrt2PlusI)
        offDiag == Multiply(Negate(iUnit), halfSqrt2)
    IN  [i    |-> <<One, Zero, Zero, One>>,
         x    |-> <<Zero, One, One, Zero>>,
         y    |-> <<Zero, Negate(iUnit), iUnit, Zero>>,
         z    |-> <<One, Zero, Zero, Negate(One)>>,
         h    |-> <<halfSqrt2, halfSqrt2, halfSqrt2, Negate(halfSqrt2)>>,
         s    |-> <<One, Zero, Zero, iUnit>>,
         sdg  |-> <<One, Zero, Zero, Negate(iUnit)>>,
         t    |-> <<One, Zero, Zero, omega>>,
         tdg  |-> <<One, Zero, Zero, conjugate(omega)>>,
         v    |-> <<halfSqrt2, offDiag, offDiag, halfSqrt2>>,
         vdg  |-> <<halfSqrt2, Negate(offDiag), Negate(offDiag), halfSqrt2>>,
         sx   |-> <<invSqrt2PlusI, root, root, invSqrt2PlusI>>,
         sxdg |-> <<root, invSqrt2PlusI, invSqrt2PlusI, root>>]

\* The matrix with a non-zero entry per row, in the columns given.
Monomial(columns, weights) ==
    [k \in 1..16 |-> LET row == (k - 1) \div 4
                     IN  IF (k - 1) % 4 = columns[row + 1] THEN weights[row + 1] ELSE Zero]

twoQubitByName ==
    [swap    |-> Monomial(<<0, 2, 1, 3>>, <<One, One, One, One>>),
     iswap   |-> Monomial(<<0, 2, 1, 3>>, <<One, iUnit, iUnit, One>>),
     iswapdg |-> Monomial(<<0, 2, 1, 3>>, <<One, Negate(iUnit), Negate(iUnit), One>>),
     dcx     |-> Monomial(<<0, 2, 3, 1>>, <<One, One, One, One>>)]
-----------------------------------------------------------------------------
(***************************************************************************)
(* The builders throw unless the targets are distinct qubits, and          *)
(* checkedControls unless the controls are, and none of them a target.     *)
(***************************************************************************)
TargetsAccepted(targets) ==
    /\ \A i \in DOMAIN targets : targets[i] < NumQubits
    /\ \A i, j \in DOMAIN targets : i # j => targets[i] # targets[j]

ControlsAccepted(controls, targets) ==
    /\ \A i \in DOMAIN controls : controls[i] < NumQubits /\ controls[i] \notin targets
    /\ \A i, j \in DOMAIN controls : i # j => controls[i] # controls[j]

Lower(p, q) == IF p < q THEN p ELSE q
Higher(p, q) == IF p < q THEN q ELSE p

\* (mutant) every block is the identity where the control is 0
wrapWithIdentity(ctrl, active, diagonal) ==
    makeMEdge(ctrl, <<identity, zero, zero, active>>)

\* Where the control is 0 a block is that of the identity operator.
wrapWithControl(ctrl, active, diagonal) ==
    makeMEdge(ctrl, <<IF diagonal THEN identity ELSE zero, zero, zero, active>>)

wrapStep(blocks, diagonal, controls, lo, upTo, q) ==
    LET em == upTo[q - 1]
    IN  IF q = lo THEN blocks
        ELSE IF q - 1 \in Range(controls)
           THEN Listed([i \in DOMAIN em |-> wrapWithControl(q - 1, em[i], i \in diagonal)])
        ELSE em

\* All blocks below a target, wrapped with the controls among the qubits from lo
\* to hi - 1, upwards; those in diagonal are blocks of the gate's diagonal.
Wrapped(blocks, diagonal, controls, lo, hi) ==
    LET upTo[q \in lo..hi] == wrapStep(blocks, diagonal, controls, lo, upTo, q)
    IN  upTo[hi]

\* The gate, wrapped with the controls above its targets.
WrappedGate(edge, controls, lo) == Wrapped(<<edge>>, {1}, controls, lo, NumQubits)[1]

Terminals(matrix) == [i \in DOMAIN matrix |-> terminal(matrix[i])]

makeControlledSingleQubitGateDD(controls, target, matrix) ==
    WrappedGate(makeMEdge(target, Wrapped(Terminals(matrix), {1, 4}, controls, 0, target)),
                controls, target + 1)

makeSingleQubitGateDD(target, matrix) ==
    makeControlledSingleQubitGateDD(<<>>, target, matrix)

\* The nodes of the lower target, one for each pair of bits of the higher, whose
\* bit is the more significant one of an index into the matrix or not.
CollapsedBy(em, low, highFirst) ==
    LET Index(h, l) == IF highFirst THEN 2 * h + l ELSE 2 * l + h
    IN  [i \in 1..M |->
            makeMEdge(low, [j \in 1..M |->
                em[4 * Index(Row(i), Row(j)) + Index(Col(i), Col(j)) + 1]])]

\* (mutant) the higher target always has the more significant bit
LowerBlocksUnordered(em, target0, target1) == CollapsedBy(em, Lower(target0, target1), TRUE)

\* target0 has the more significant bit.
LowerBlocks(em, target0, target1) ==
    CollapsedBy(em, Lower(target0, target1), target1 < target0)

makeControlledTwoQubitGateDD(controls, target0, target1, matrix) ==
    LET low == Lower(target0, target1)
        high == Higher(target0, target1)
    IN  WrappedGate(
            makeMEdge(high,
                Wrapped(LowerBlocks(Wrapped(Terminals(matrix), {1, 6, 11, 16}, controls, 0, low),
                                    target0, target1),
                        {1, 4}, controls, low + 1, high)),
            controls, high + 1)

makeTwoQubitGateDD(target0, target1, matrix) ==
    makeControlledTwoQubitGateDD(<<>>, target0, target1, matrix)
-----------------------------------------------------------------------------
(***************************************************************************)
(* measureOneQubit: a projector applied, and the exact probability.        *)
(***************************************************************************)
\* (mutant) the entry of outcome 1 is off the diagonal
ProjectorOffDiagonal(outcome) ==
    IF outcome THEN <<Zero, Zero, One, Zero>> ELSE <<One, Zero, Zero, Zero>>

Projector(outcome) ==
    IF outcome THEN <<Zero, Zero, Zero, One>> ELSE <<One, Zero, Zero, Zero>>

Measured(projected) ==
    [state |-> projected, probability |-> innerProduct(projected, projected)]

measureOneQubit(v, qubit, outcome) ==
    Measured(multiply(V, makeSingleQubitGateDD(qubit, Projector(outcome)), v))

randomStep(qubit, names, after, n) ==
    IF n = 0 THEN makeBasisState(<<"Zero">>, qubit)
    ELSE multiply(V, makeSingleQubitGateDD(qubit, byName[names[n]]), after[n - 1])

\* The state of one qubit after the gates that rng happens to choose.
makeRandomSingleQubitState(qubit, names) ==
    LET after[n \in 0..Len(names)] == randomStep(qubit, names, after, n)
    IN  after[Len(names)]
=============================================================================
