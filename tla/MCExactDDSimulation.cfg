CONSTANTS
    VAddr = {v1, v2, v3, v4}
    MAddr = {}
    Null = Null
    Empty = Empty
    Level = {0, 1}
    Label = {1}
    VArity = 2
    MArity = 4
    Handle = {State, h1}
    Result = Result
    State = State
    NumQubits = 2
    ZeroWeights = 1
    MaxRefCount = 3
    InitialGcLimit = 2
    MaxCached = 0
    AllocationMayFail = FALSE
SYMMETRY Symmetry
SPECIFICATION SimSpec
INVARIANTS
    SimTypeOK
    StateIsRooted
    StateIsLive
PROPERTY BalancedClient
