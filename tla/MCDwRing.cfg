CONSTANTS
    Constant <- MCConstant
    MaxSum = 3
    MaxK = 2
    MaxE = 3
SPECIFICATION Spec
INVARIANTS
    AlwaysCanonical
    EqualityIsExact
    NormsMultiply
PROPERTY ImplementsField
