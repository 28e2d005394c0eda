\* Vector and matrix nodes, and the cache of products of both.
CONSTANTS
    VAddr = {v1, v2}
    MAddr = {m1}
    Null = Null
    Empty = Empty
    Level = {0}
    Label = {1}
    VArity = 2
    MArity = 4
    Handle = {h1}
    Result = Result
    MaxRefCount = 5
    InitialGcLimit = 2
    MaxCached = 1
    AllocationMayFail = FALSE
SYMMETRY Symmetry
SPECIFICATION Spec
INVARIANT CachesNameLiveNodes
PROPERTY ImplementsStore
