SPECIFICATION Spec
CONSTANTS
    Jobs = {"cli", "page"}
    Web = {"page"}
    Setups <- MCSetups
    Others = {"bob"}
    File <- MCFile
    Length = 2
    Chunk = 1
    Ids = {1, 2, 3}
    MaxTokens = 2
    MaxLate = 1
    None = None
CHECK_DEADLOCK FALSE
INVARIANTS
    FileWhole
    ActsAsConfigured
PROPERTIES
    SuccessPublished
    PutEnds
