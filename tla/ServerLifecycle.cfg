SPECIFICATION LifecycleSpec

CONSTANTS
    c1 = c1
    c2 = c2
    c3 = c3
    Conn = {c1, c2, c3}
    MaxStarts = 2

INVARIANTS
    DestructorCloses
    KeepsAccepting

PROPERTIES
    ConnectionsEnd

CHECK_DEADLOCK FALSE
