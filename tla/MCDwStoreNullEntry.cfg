\* get() may throw while it makes a node.
CONSTANTS
    VAddr = {v1, v2}
    MAddr = {}
    Null = Null
    Empty = Empty
    Level = {0}
    Label = {1}
    VArity = 2
    MArity = 4
    Handle = {h1, h2}
    Result = Result
    MaxRefCount = 4
    InitialGcLimit = 2
    MaxCached = 0
    AllocationMayFail = TRUE
SYMMETRY Symmetry
SPECIFICATION Spec
INVARIANT NoNullEntry
