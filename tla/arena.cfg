SPECIFICATION Spec
CONSTANTS
    Values = {v1}
    NoValue = NoValue
    SlotLimit = 3
    MaxGeneration = 2
    MaxBudget = 2
INVARIANTS
    FreeListExact
    KeysResolve
    SlicesFaithful
    WalkExact
PROPERTY
    ImplementsStore
