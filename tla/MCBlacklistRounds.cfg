SPECIFICATION MCSpec
CONSTANTS
    k1 = k1
    k2 = k2
    Keys <- TwoKeys
    Clients <- MCClients
    ReadCount = 2
    Capacity = 2
    BatchSize = 2
    CounterMax = 3
    Times <- MCTimes
    TTL = 1
    InitialRows <- NoRows
    Commands <- AllCommands
    MaxCommands = 2
    MaxRequests = 2
    Events <- NoEvents
    MaxEvents = 0
    MaxFaults = 1
    Batches <- MCBatches
    Aliens <- MCAliens
    MaxEffort = 3
INVARIANTS
    SnapshotIsAtomic
    PublishedIsVisible
    BarrierFlushes
    ResetConverged
