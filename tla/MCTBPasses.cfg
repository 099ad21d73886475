SPECIFICATION Spec
CONSTANT
    Blocks <- MCBlocks
INVARIANTS
    NeverAborts
    OnlyNopsAndTailsRemoved
    DestinationsKept
    RelsFollowTails
PROPERTY
    Terminates
CHECK_DEADLOCK FALSE
