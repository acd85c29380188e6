SPECIFICATION FairSpec
CONSTANTS
    c1 = c1
    Conn = {c1}
    Lengths = {100, 1000}
    SizeValues = 1024
    MaxMessageSize = 250
    IdleTimeout = TRUE
    MaxMessages = 2
    MaxFrames = 3
INVARIANTS
    TypeOK
    PongsAnswerPings
    MessagesIntact
    
    CloseIsLast
PROPERTIES
    ImplementsRelay
    HandshakeBounded
    DownReleased
CHECK_DEADLOCK FALSE
