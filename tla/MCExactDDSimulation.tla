------------------------ MODULE MCExactDDSimulation ------------------------
\* A simulation of two qubits; one more root is held through package().
EXTENDS ExactDDSimulation, TLC

Symmetry == Permutations(VAddr)
=============================================================================
