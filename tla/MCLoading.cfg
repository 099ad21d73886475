SPECIFICATION Spec
CONSTANTS
    Width = 4
    Files <- MCFiles
INVARIANTS
    LinksExact
    ParentsAreLinks
CHECK_DEADLOCK FALSE
