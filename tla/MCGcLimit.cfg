CONSTANTS
    Kind <- MCKind
    InitialGcLimit = 4096
    Size <- MCSize
SPECIFICATION Spec
INVARIANT LimitAtLeastInitial
PROPERTY HeadroomAfterSweep
