SPECIFICATION ListSpec
CONSTANTS
    MaxNodes = 5
    HeadNode = HeadNode
    TailNode = TailNode
    NullPtr = NullPtr
INVARIANTS
    SameBackwards
    SizeCounts
PROPERTY
    IsList
CHECK_DEADLOCK FALSE
