SPECIFICATION MCFairSpec
CONSTANTS
    LoopCount = 2
    MaxConnections = 2
    MaxPerLoop = 1
    QueueCapacity = 1
    MaxSockets = 2
    Owner = Owner
    Stopper = Stopper
    CanFail = TRUE
    MaxConnects = 3
    MaxExhaustions = 2
    HeaderSize = 2
    ByteBase = 2
    MaxPayload = 2
    MaxFrame = 2
    InputWatermark = 2
    MaxInput = 5
    OutputWatermark = 2
    MaxOutput = 2
    Streams <- BitStreams
    MaxChunk = 6
INVARIANTS
    VerdictsAreTrue
    RequestsMatch
    ClosesForCause
PROPERTIES
    CallsReturn
    BacklogServed
