SPECIFICATION MCSpec
CONSTANTS
    k1 = k1
    k2 = k2
    MaxId = 2
    Keys <- MCKeys
    Candidates <- MCCandidates
    Capacity = 4
    BatchSize = 3
    CounterMax = 4
    MaxSubmits = 9
    Entities <- MCKeys
    Times <- MCTimes
    Batches <- MCBatches
    Aliens <- MCAliens
INVARIANTS
    TakenCovered
    Converges
