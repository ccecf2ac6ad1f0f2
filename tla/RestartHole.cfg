SPECIFICATION CrashSpec
CONSTANTS
    Ids = {u1, u2}
    Paths <- MCPaths
    RawPaths <- MCPaths
    Canonical <- MCCanonical
    Home <- MCHome
    Users <- MCTwoUsers
    Admins <- MCAdmins
    DeclaredSizes = {1, 2}
    MaxSize = 2
    MaxConcurrent = 2
    MaxPerUser = 1
    IdleSupersede = 1
    UploadTtl = 1
    Faults = {}
    None = None
SYMMETRY IdSymmetry
CHECK_DEADLOCK FALSE
INVARIANTS
    CommittedWhole
