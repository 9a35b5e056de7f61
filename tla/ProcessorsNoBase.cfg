SPECIFICATION BothSpec
CONSTANTS
    WordBytes = 1
    Half = 128
    MemLen = 32
    Encode <- ByteEncode
    Decode <- ByteDecode
    And <- ByteAnd
    Xor <- ByteXor
    Images <- NoBaseImages
    FetchReach = 1
    Reach = 2
    ProgLen = 20
    Named = {}
    Free = 2
CHECK_DEADLOCK FALSE
PROPERTIES
    ImplementsY86
