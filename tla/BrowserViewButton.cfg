SPECIFICATION Spec

CONSTANTS
    t1 = t1
    NoTrain = NoTrain
    Trains = {t1}
    Blocks = {1, 2, 3}
    Switches = {3, 4}
    MaxEvents = 1
    MaxPages = 1
    MaxBreaks = 0

INVARIANTS
    NotausStops

CHECK_DEADLOCK FALSE
