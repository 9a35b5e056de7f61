SPECIFICATION Spec
CONSTANTS
    SizeT = 4096
    HeapLo = 8
    MAX_HEAP = 176
    Ids = {b1, b2}
    Sizes = {8, 24, 40}
    MaxTraces = 1
SYMMETRY IdsSymmetry
CHECK_DEADLOCK FALSE
INVARIANT ReportsExhaustion
