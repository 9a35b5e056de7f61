SPECIFICATION HFairSpec
CONSTANTS
    Sets = {0, 1}
    Tags = {0, 1, 2}
    Addr = {a1, a2, a3}
    MaxLines = 2
    MaxEntries = 4
CONSTRAINT OneBlockInLaterSets
INVARIANTS
    ListLinked
    OldestFirst
    LinesAreRecent
    SearchMissesNothing
PROPERTIES
    ImplementsLRU
    SearchEnds
