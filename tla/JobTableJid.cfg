SPECIFICATION Spec
CONSTANTS
    Pids = {p1, p2, p3, p4, p5}
    MAXJOBS = 4
    MaxJid = 4
SYMMETRY Symmetry
INVARIANTS
    JidNamesOneJob
