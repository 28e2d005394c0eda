CONSTANTS
    Input <- MCInput
    Divisor <- MCDivisor
SPECIFICATION Spec
INVARIANT CanonicalAssociate
