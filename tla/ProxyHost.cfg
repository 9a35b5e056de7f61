SPECIFICATION Spec
CONSTANTS
    Clients = {c1}
    Requests <- MCRequests
    Sizes <- MCSizes
    MAXLINE = 16
    Garbage <- MCGarbage
CHECK_DEADLOCK FALSE
INVARIANTS
    OneHost
