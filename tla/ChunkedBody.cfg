SPECIFICATION BodySpec

CONSTANTS
    Bodies <- AllBodies
    LineSize = 4
    MaxSize = 7

INVARIANTS
    ContentIntact

PROPERTIES
    BodyIsRead

CHECK_DEADLOCK FALSE
