SPECIFICATION Spec
CONSTANTS
    Paths <- MCPaths
    Versions <- MCTwoVersions
    Clients = {"writer", "r1"}
    Makes <- MCOneWriter
    Chunk = 2
    Overhead = 3
    Faults = {"encrypt", "move"}
    Crashes = TRUE
    None = None
CHECK_DEADLOCK FALSE
INVARIANTS
    Together
    AloneServesWhole
PROPERTIES
    RetryRepairs
