SPECIFICATION DisplaySpec

CONSTANTS
    c1 = c1
    Conn = {c1}
    Lengths = {1}
    SizeValues = 1024
    MaxMessageSize = 100
    IdleTimeout = FALSE
    MaxFrames = 2
    MaxReceived = 2
    MaxSent = 2

INVARIANTS
    ReferencesValid
    RelayedInOrder
    CommandsInOrder

PROPERTIES
    ReceivedRelayed
    LinkRestored
    BusReachesClients
