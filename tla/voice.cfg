SPECIFICATION MCSpec
CONSTANTS
    bob = bob
    bobTalks = bobTalks
    bobShows = bobShows
    Nobody = Nobody
    NoStream = NoStream
    None = None
    Size = 4
    MaxSamples = 9
    Users = {bob}
    Streams = {bobTalks, bobShows}
    Sounds = {bobShows}
    Owner <- MCOwner
    Present = {bobTalks, bobShows}
    Sent <- MCSent
    SeqSpace = 16
    MaxConceal = 1
    Speakers = 1
    Prime = 2
    Take = 2
    Volumes = {"full", "low"}
    Chosen <- MCChosen
    MaxPackets <- MCPackets
    MaxShares = 1
    MaxAdjusts = 1
    MaxRepeats = 1
    Spoilt <- MCSpoilt
    Hangs = {0, 2}
    FramesPerPacket = 2
    MaxFrames = 6
    MaxChanges = 2
    MaxFailures = 1
    me = me
    MaxSessions = 3
    MaxMishaps = 2
    MixRate = 480
    DeviceRates = {160, 441, 480, 960}
    Asked = {1, 16, 48}
    Slack = 8
    MaxCalls = 8
    People = {me, bob}
    Me = me
    MaxDecoders = 3
    MaxDecoded = 1
    ClientEvery = 3
    ServerEvery = 3
    TypingTtl = 5
    SpeakingTtl = 2
    MaxDelay = 1
    MaxWire = 2
INVARIANTS
    OwnSlots InOrder Microphone HeldAndShown
PROPERTIES
    OnlyPastDropped Queueing FramesWhole
CHECK_DEADLOCK FALSE
