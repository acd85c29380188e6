SPECIFICATION FairSpec

CONSTANTS
    c1 = c1
    c2 = c2
    Conn = {c1, c2}
    Requests <- AllRequests
    BufferSize = 2
    ErrorSize = 1

INVARIANTS
    TypeOK
    LengthKept
    NobodyWaitsUntimed
    MembersAlive
    OneListener

PROPERTIES
    HandedOverForGood
    IdleEnds
    RequestEnds
