SPECIFICATION Spec
CONSTANTS
    Paths <- MCOnePath
    Versions <- MCVersions
    Clients = {"w1", "w2", "r1"}
    Makes <- MCWriters
    Chunk = 2
    Overhead = 3
    Faults = {"encrypt", "index", "meta"}
    Crashes = TRUE
    None = None
CHECK_DEADLOCK FALSE
INVARIANTS
    TypeOK
    SettledMatch
    AloneServesWhole
