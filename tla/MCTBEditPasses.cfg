SPECIFICATION PrintSpec
CONSTANTS
    MaxLen = 6
    MaxPlain = 2
    MaxAdded = 0
    Blocks <- MCBlocks
INVARIANTS
    BranchesIndexed
    PipeholeFresh
    NeverPastEnd
    RelsShown
    JumpsShown
CHECK_DEADLOCK FALSE
