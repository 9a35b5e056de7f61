SPECIFICATION BothSpec
CONSTANTS
    WordBytes = 1
    Half = 128
    MemLen = 32
    Encode <- ByteEncode
    Decode <- ByteDecode
    And <- ByteAnd
    Xor <- ByteXor
    Images <- MCImages
    FetchReach = 1
    Reach = 2
    ProgLen = 20
    Named <- PipeNamed
    Free = 2
CHECK_DEADLOCK FALSE
INVARIANTS
    PipeTypeOK
    NoConflictingControl
    ForwardingIsCurrent
    BranchesCompare
    StallsAreBounded
PROPERTIES
    SeqImplementsY86
    ImplementsY86
