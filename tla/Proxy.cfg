SPECIFICATION Spec
CONSTANTS
    Clients = {c1, c2}
    Requests <- MCRequests
    Sizes <- MCSizes
    MAXLINE = 16
    Garbage <- MCGarbage
CHECK_DEADLOCK FALSE
INVARIANTS
    RequestForwarded
    RepliesMatch
    DescriptorsClosed
PROPERTIES
    EveryoneAnswered
