SPECIFICATION FairSpec
CONSTANTS
    HeaderSize = 1
    ByteBase = 2
    MaxPayload = 1
    MaxFrame = 1
    InputWatermark = 1
    MaxInput = 2
    OutputWatermark = 1
    MaxOutput = 2
    CompletionCapacity = 1
    CompletionBytes = 2
    MaxCompletion = 2
    TimeoutCapacity = 1
    ConnectionCapacity = 1
    Fds = {1}
    ReadScratch = 2
    MaxRoom = 1
    Settings <- MCSettings
INVARIANTS
    AnswersOwnRequest
    NoLostWakeUp
    NothingLeaks
PROPERTY
    EverySessionEnds
