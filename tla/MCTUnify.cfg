SPECIFICATION Spec
CONSTANTS
    NumTBs = 3
    Files <- MCFiles
INVARIANTS
    TracesKept
    RelsFollowCode
    BranchesIndexed
    NeverAborts
    RecursionBounded
    NothingMissed
PROPERTIES
    OnlyInlines
    Terminates
CHECK_DEADLOCK FALSE
