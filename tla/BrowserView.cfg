SPECIFICATION Spec

CONSTANTS
    t1 = t1
    t2 = t2
    NoTrain = NoTrain
    Trains = {t1, t2}
    Blocks = {1, 2, 3}
    Switches = {3}
    MaxEvents = 1
    MaxPages = 1
    MaxBreaks = 1

SYMMETRY TrainSymmetry

INVARIANTS
    TrainsShown
    TrainsFoundAgain
    SwitchesShown

CHECK_DEADLOCK FALSE
