------------------------------ MODULE MCDwRing ------------------------------
\* Small instances of DwRing: constants of the gate matrices, and a third.
EXTENDS DwRing

Over(p, k, e) == [t |-> p, k |-> k, e |-> e]

\* 0, 1, sqrt(2), w, 1/sqrt(2), 2 and 1/3, as their constructors leave them.
MCConstant == {Zero, One, Over(<<0, 1, 0, -1>>, 0, 1), Over(<<0, 1, 0, 0>>, 0, 1),
               Over(<<1, 0, 0, 0>>, 1, 1), Over(<<2, 0, 0, 0>>, 0, 1),
               Over(<<1, 0, 0, 0>>, 0, 3)}
=============================================================================
