SPECIFICATION Spec
CONSTANTS
    Versions <- MCVersions
    Silent = TRUE
    NoRange = NoRange
    NoNum = NoNum
    BadNum = BadNum
    None = None
CHECK_DEADLOCK FALSE
INVARIANTS
    PartOfMarked
    SavesWhole
PROPERTIES
    ProgressKept
    GetEnds
