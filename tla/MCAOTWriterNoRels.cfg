SPECIFICATION Spec
CONSTANTS
    HeaderSize = 3
    SegmentSize = 5
    SegmentData = 4
    NameSize = 7
    TBSize = 11
    RelSize = 4
    InsnSize = 2
    WordMax = 99
    Files <- MCFiles
INVARIANT
    NoRelsReadWithoutValidRel
CHECK_DEADLOCK FALSE
