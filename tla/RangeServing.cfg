SPECIFICATION Spec
CONSTANTS
    Lengths <- MCLengths
    Numbers <- MCNumbers
    Chunk = 2
    Block = 2
    NoRange = NoRange
    NoNum = NoNum
    BadNum = BadNum
CHECK_DEADLOCK FALSE
INVARIANTS
    AnswersAsked
    InOrder
    AsAnnounced
PROPERTIES
    RequestEnds
