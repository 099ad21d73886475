SPECIFICATION Spec
CONSTANTS
    Width = 4
    Files <- MCFiles
INVARIANT
    DuplicateCheckExact
CHECK_DEADLOCK FALSE
