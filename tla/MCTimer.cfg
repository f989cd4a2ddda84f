SPECIFICATION FairSpec
CONSTANTS
    Callers = {c1, c2}
    Joiners = {j1, j2}
    MaxTimers = 2
    MaxTime = 1
    CommandCapacity = 1
    TimerCapacity = 2
    CanFail = TRUE
INVARIANTS
    DispatchSound
PROPERTIES
    AcceptedFires
    StopEnds
