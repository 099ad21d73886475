SPECIFICATION Spec
CONSTANTS
    Regs <- MCRegs
    OriBits = 2
    LowBits = 4
    Blocks <- MCBlocks
INVARIANTS
    InStep
    RegistersKept
    KeptWhereverPlaced
CHECK_DEADLOCK FALSE
