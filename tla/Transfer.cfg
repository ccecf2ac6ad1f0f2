SPECIFICATION Spec
CONSTANTS
    Ids = {u1, u2}
    Paths <- MCBothPaths
    RawPaths <- MCBothRawPaths
    Canonical <- MCCanonical
    Home <- MCHome
    Users <- MCUsers
    Admins <- MCAdmins
    DeclaredSizes = {0, 2, 3}
    MaxSize = 2
    MaxConcurrent = 2
    MaxPerUser = 1
    IdleSupersede = 1
    UploadTtl = 1
    Faults = {}
    None = None
SYMMETRY IdSymmetry
CHECK_DEADLOCK FALSE
INVARIANTS
    TypeOK
    OnePerPath
    SavedCopy
    WithinQuota
PROPERTIES
    PartialsKept
