SPECIFICATION FairSpec
CONSTANTS
    Ids = {u1, u2}
    Paths <- MCSharedPaths
    RawPaths <- MCSharedPaths
    Canonical <- MCCanonical
    Home <- MCHome
    Users <- MCTwoUsers
    Admins <- MCAdmins
    DeclaredSizes = {1}
    MaxSize = 1
    MaxConcurrent = 2
    MaxPerUser = 1
    IdleSupersede = 1
    UploadTtl = 1
    Faults = {"init", "install", "overlap"}
    None = None
CHECK_DEADLOCK FALSE
PROPERTIES
    FinalizeEnds
    AbandonedCollected
    ServiceSpec
