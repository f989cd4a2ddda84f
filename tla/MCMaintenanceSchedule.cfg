SPECIFICATION Spec
CONSTANTS
    Capacity = 3
    SeqCycle = 3
    MaxFull = 1
INVARIANTS
    RoundsMerge
    OneLiveTick
    FinalIsLast
PROPERTY
    KeepsTicking
