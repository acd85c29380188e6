SPECIFICATION FairSpec

CONSTANTS
    Handlers = {h1, h2, h3}
    Stoppers = {s1, s2}

INVARIANTS
    TypeOK
    CountExact
    StopExcludesHandlers

PROPERTIES
    StopReturns
    ContinueLockReturns
