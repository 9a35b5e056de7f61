SPECIFICATION Spec
CONSTANTS
    Pids = {p1, p2, p3}
    MAXJOBS = 2
    MaxJid = 3
    MaxKeys = 0
SYMMETRY Symmetry
INVARIANTS
    NeverCrashes
