CONSTANTS
    Input <- MCInput
    Divisor <- MCDivisor
SPECIFICATION Spec
INVARIANT CommonDivisorsKept
PROPERTIES
    RemainderShrinks
    Returns
