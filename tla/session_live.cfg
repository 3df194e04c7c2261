SPECIFICATION FairSessionSpec
CONSTANTS
    alice = alice
    bob = bob
    lobby = lobby
    den = den
    a1 = a1
    a2 = a2
    a3 = a3
    b1 = b1
    NoAddr = NoAddr
    Idle = Idle
    NoCreds = NoCreds
    Users = {alice, bob}
    Channels = {lobby}
    Addrs = {}
    AddrsOf <- MCNoAddrs
    VoiceFlags = {}
    SsrcSpace = 5
    MaxJoins = 3
    Conns = {a1, b1}
    UserOf <- MCUserOf
    Newcomers = {bob}
    Overlapping = FALSE
    MaxAsks = 4
INVARIANTS
    HubInv
PROPERTIES
    DeparturesTold
CHECK_DEADLOCK FALSE
