SPECIFICATION Spec
CONSTANTS
    Pids = {p1, p2, p3}
    MAXJOBS = 2
    MaxJid = 3
    MaxKeys = 1
SYMMETRY Symmetry
INVARIANTS
    TypeOK
    PidListedOnce
    ForegroundIsWaitedFor
    NoGhostJob
    StoppedAgrees
    NoLostReport
    JobPointerValid
    NextJidFree
PROPERTIES
    ImplementsJobControl
