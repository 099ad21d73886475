SPECIFICATION Spec
CONSTANTS
    HeaderSize = 3
    SegmentSize = 5
    SegmentData = 4
    NameSize = 7
    TBSize = 11
    RelSize = 4
    InsnSize = 2
    WordMax = 99
    Files <- MCFiles
INVARIANTS
    NothingOverwritten
    OnlyGapsLeft
    ReadsBackBlocks
    ReadsBackRels
CHECK_DEADLOCK FALSE
