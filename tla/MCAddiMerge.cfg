SPECIFICATION AddiSpec
CONSTANTS
    Regs <- MCRegs
    OriBits = 2
    LowBits = 4
    Limit <- MCLimit
    Blocks <- MCBlocks
INVARIANTS
    CountInStep
    NothingElseMoved
    MachineKept
CHECK_DEADLOCK FALSE
