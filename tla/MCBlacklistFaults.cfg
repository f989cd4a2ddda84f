SPECIFICATION MCFairSpec
CONSTANTS
    k1 = k1
    k2 = k2
    Keys <- OneKey
    Clients <- MCClients
    ReadCount = 2
    Capacity = 2
    BatchSize = 2
    CounterMax = 3
    Times <- MCTimes
    TTL = 1
    InitialRows <- OneRow
    Commands <- AllCommands
    MaxCommands = 1
    MaxRequests = 2
    Events <- AllEvents
    MaxEvents = 2
    MaxFaults = 1
    Batches <- MCBatches
    Aliens <- MCAliens
    MaxEffort = 3
INVARIANTS
    AckAfterStream
    CleanStopLosesNothing
PROPERTIES
    ImplementsWriteBehind
    Settles
