SPECIFICATION Spec

CONSTANTS
    t1 = t1
    t2 = t2
    NoTrain = NoTrain
    Trains = {t1, t2}
    Blocks = {1, 2, 3}
    Switches = {3, 4}
    MaxEvents = 0
    MaxPages = 1
    MaxBreaks = 0

INVARIANTS
    TrainListTaken

CHECK_DEADLOCK FALSE
