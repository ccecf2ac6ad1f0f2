SPECIFICATION FairSpec
CONSTANTS
    Users <- MCUsers
    Admins <- MCAdmins
    Shared = "shared"
    Clients = {"c1", "c2"}
    Tools = {"init-keys"}
    Boot = "boot"
    Ids = {1}
    MaxFiles = 1
    MaxPairs = 3
    TTL = 1
    None = None
    Empty = Empty
CHECK_DEADLOCK FALSE
INVARIANTS
    PairMatches
    OwnerReads
    SharedKeyReads
PROPERTIES
    SessionsEnd
