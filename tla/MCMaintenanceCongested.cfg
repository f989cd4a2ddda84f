SPECIFICATION Spec
CONSTANTS
    Capacity = 3
    SeqCycle = 3
    MaxFull = 2
PROPERTY KeepsTicking
