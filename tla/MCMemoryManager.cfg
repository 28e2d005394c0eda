CONSTANTS
    InitialAllocationSize = 1
    GrowthFactor = 2
    MaxInUse = 5
    Null = Null
SPECIFICATION Spec
INVARIANTS
    TypeOK
    FreeListExact
    EverySlotAccountedFor
    CountersExact
PROPERTY ImplementsPool
