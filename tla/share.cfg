SPECIFICATION MCSpec
CONSTANTS
    kim = kim
    lee = lee
    None = None
    Sizes = {1, 2}
    TsSpace = 12
    FirstTs = 10
    InFlight = 2
    QueueDepth = 1
    Keyframes = {1, 3}
    MaxPictures = 3
    Viewers = {kim, lee}
    Settings = {300, 421, 1000}
    Seconds <- MCSeconds
    MaxSeconds = 1
    MaxTurns = 3
    Pieces <- MCPieces
    MaxPieces = 6
    FrameSamples = 2
    MaxRead = 9
    MaxBytes = 35
    MaxBad = 1
    Rates = {1000, 16000}
    Datagrams = {60, 1200}
    Pauses = {0, 90000, 3000000}
    Lates = {0, 60000}
    MaxDatagrams = 4
    MaxIdle = 3000000
    Room = 1
    KeyEvery = 3
    MaxFrames = 3
    MaxRejects = 1
    MaxWants = 1
    MaxStalls = 1
    MaxStarts = 2
    Nals <- MCNals
    ParameterSets <- MCParameterSets
    MaxNals = 3
    Base = 4
    HeardDepth = 2
    MaxFramesHeard = 2
    MaxBuffers = 3
INVARIANTS
    ShareSound
PROPERTIES
    OldestGivenUp Yields KeyframeComes Recovers DropEnds
CHECK_DEADLOCK FALSE
