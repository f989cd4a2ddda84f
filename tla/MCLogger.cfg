SPECIFICATION FairSpec
CONSTANTS
    Producers = {p1, p2}
    Joiners = {j1, j2}
    Capacity = 2
    MaxCalls = 4
    CanFail = TRUE
INVARIANTS
    WrittenInOrder
    StoppedComplete
PROPERTIES
    AcceptedIsWritten
    StopEnds
