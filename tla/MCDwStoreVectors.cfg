\* Vector nodes only: deep sharing, saturation, two clients' roots, and get()
\* may throw; the program ends at the first sweep after that.
CONSTANTS
    VAddr = {v1, v2, v3}
    MAddr = {}
    Null = Null
    Empty = Empty
    Level = {0}
    Label = {1}
    VArity = 2
    MArity = 4
    Handle = {h1, h2}
    Result = Result
    MaxRefCount = 3
    InitialGcLimit = 2
    MaxCached = 0
    AllocationMayFail = TRUE
SYMMETRY Symmetry
CONSTRAINT FewEntries
SPECIFICATION Spec
INVARIANTS
    TypeOK
    RefCountExact
    NoDanglingPointer
    NoUnderflow
    ActiveEntriesExact
    Acyclic
    OnlyReachableInUse
PROPERTY ImplementsStore
PROPERTY ImplementsThreshold
CHECK_DEADLOCK FALSE
