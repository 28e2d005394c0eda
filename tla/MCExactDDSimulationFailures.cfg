\* get() may throw; a client may go on with the simulation after that.
CONSTANTS
    VAddr = {v1, v2, v3}
    MAddr = {}
    Null = Null
    Empty = Empty
    Level = {0}
    Label = {1}
    VArity = 2
    MArity = 4
    Handle = {State, h1}
    Result = Result
    State = State
    NumQubits = 1
    ZeroWeights = 1
    MaxRefCount = 3
    InitialGcLimit = 2
    MaxCached = 0
    AllocationMayFail = TRUE
SPECIFICATION FairSimSpec
PROPERTIES
    OnlyFailedResetLosesState
    CallsReturn
CHECK_DEADLOCK FALSE
