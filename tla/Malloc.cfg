SPECIFICATION Spec
CONSTANTS
    SizeT = 4096
    HeapLo = 8
    MAX_HEAP = 320
    Ids = {b1, b2, b3}
    Sizes = {40, 112}
    MaxTraces = 2
SYMMETRY IdsSymmetry
CONSTRAINT OneBlockInLaterTraces
CHECK_DEADLOCK FALSE
INVARIANTS
    HeapTiled
    FreeListsExact
    NoAdjacentFree
    AllocatedAreHeld
PROPERTIES
    GrowsOnlyWhenNoneFits
    ImplementsAllocator
