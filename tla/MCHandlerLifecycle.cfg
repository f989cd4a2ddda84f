SPECIFICATION FairSpec
CONSTANTS
    MaxConns = 2
    MaxTasks = 3
    MaxRounds = 3
    PoolCapacity = 1
    CanFail = TRUE
    PartsMayFail = TRUE
INVARIANTS
    LayersHold
    OkMeansStored
PROPERTY
    ShutdownEnds
