SPECIFICATION Spec
CONSTANT
    Words <- MCWords
    Counts <- MCCounts
    Differences <- MCDifferences
    Offsets <- MCOffsets
    Registers <- MCRegisters
INVARIANTS
    RoundTrip
    Reread
    TablesAgreeHere
CHECK_DEADLOCK FALSE
