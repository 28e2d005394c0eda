--------------------------- MODULE MCDwCalculator ---------------------------
\* DwCalculator on three qubits, with a gate on each combination of targets
\* and controls.
EXTENDS DwCalculator

MCBasis == {[state |-> <<"Plus", "One">>, start |-> 0], [state |-> <<"Left", "Minus">>, start |-> 1]}
MCRandom == {<<"h", "t", "sx">>}

\* No qubit factors out.
third == inverse(Integral(<<3, 0, 0, 0>>))
MCVectors == {<<Zero, iUnit, omega, third, One, Zero, Negate(omega), iUnit>>}

\* An operator on qubits 0 and 1, not unitary and with a row of zeros.
block == <<<<One, omega, Zero, iUnit>>, <<Zero, sqrt2, One, Zero>>,
           <<Zero, Zero, Zero, Zero>>, <<omega, Zero, Zero, third>>>>
MCMatrices ==
    {[i \in 1..8 |-> [j \in 1..8 |->
        IF (i <= 4) = (j <= 4) THEN block[((i - 1) % 4) + 1][((j - 1) % 4) + 1] ELSE Zero]]}

Controls(targets) ==
    LET others == Qubit \ Range(targets)
    IN  {<<>>} \cup {<<c>> : c \in others}
               \cup {cs \in others \X others : cs[1] > cs[2]}

Single(name, targets) ==
    {[controls |-> cs, targets |-> targets, matrix |-> byName[name]] : cs \in Controls(targets)}
Double(name, targets) ==
    {[controls |-> cs, targets |-> targets, matrix |-> twoQubitByName[name]]
        : cs \in Controls(targets)}

\* Equal targets and a repeated control are not accepted.
MCRequest ==
    UNION {Single("y", <<q>>) : q \in Qubit}
    \cup UNION {Double("dcx", <<p, q>>) : p \in Qubit, q \in Qubit}
    \cup {[r EXCEPT !.controls = <<2, 0, 2>>] : r \in Single("h", <<1>>)}
=============================================================================
