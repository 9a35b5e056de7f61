SPECIFICATION RSpec
CONSTANTS
    MaxBytes = 5
    Chars = {"a", "b", "nl"}
    Streams <- MCStreams
    Lengths = {1, 2, 3}
    BufSize = 2
    Capacity = 2
CHECK_DEADLOCK FALSE
INVARIANTS
    NothingLost
PROPERTIES
    NoOverflow
    ImplementsByteStream
    CallsReturn
