SPECIFICATION Spec

CONSTANTS
    c1 = c1
    c2 = c2
    Conn = {c1, c2}
    Lengths = {1}
    SizeValues = 1024
    MaxMessageSize = 100
    IdleTimeout = FALSE
    MaxMessages = 2
    MaxFrames = 1

SYMMETRY ConnSymmetry

INVARIANTS
    OneWriteInFlight
    RegisteredIffReading
    Gapless

CHECK_DEADLOCK FALSE
