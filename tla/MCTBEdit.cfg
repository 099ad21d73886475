SPECIFICATION Spec
CONSTANTS
    MaxLen = 3
    MaxAdded = 1
    Blocks <- MCBlocks
INVARIANTS
    TypeOK
    RelsAnchored
    TargetsAnchored
PROPERTY
    OnlyTouchedRelsGivenUp
CHECK_DEADLOCK FALSE
