SPECIFICATION FairSpec
CONSTANTS
    Pids = {p1, p2}
    MAXJOBS = 2
    MaxJid = 2
    MaxKeys = 2
INVARIANTS
    KeysHitTheWaitedJob
    KeysWorkAtPrompt
PROPERTIES
    ForegroundWaitEnds
    ReapedWhileWaiting
