SPECIFICATION CrashSpec
CONSTANTS
    Ids = {u1, u2}
    Paths <- MCBothPaths
    RawPaths <- MCBothPaths
    Canonical <- MCCanonical
    Home <- MCHome
    Users <- MCOneUser
    Admins <- MCNoAdmins
    DeclaredSizes = {1}
    MaxSize = 1
    MaxConcurrent = 1
    MaxPerUser = 1
    IdleSupersede = 1
    UploadTtl = 1
    Faults = {"overlap"}
    None = None
SYMMETRY IdSymmetry
CHECK_DEADLOCK FALSE
INVARIANTS
    OwnedUnderEncryption
    NoStaleFinalizing
PROPERTIES
    UploadsSurvive
