\* None, Inverse and Gcd on three qubits, at the widest.
CONSTANTS
    NumQubits = 3
    Strategy = {"None", "Inverse", "Gcd"}
    BasisInput <- MCBasis
    RandomInput <- MCRandom
    VectorInput <- MCVectors
    MatrixInput <- MCMatrices
    Request <- MCRequest
    MaxOps = 1
SPECIFICATION Spec
INVARIANTS
    AlwaysReduced
    InverseIsCanonical
    InnerProductsExact
    MeasurementsComplete
    GateIdentities
PROPERTIES
    ImplementsAlgebra
    NormPreserved
