SPECIFICATION SessionSpec
CONSTANTS
    alice = alice
    bob = bob
    lobby = lobby
    den = den
    a1 = a1
    a2 = a2
    b1 = b1
    a3 = a3
    NoAddr = NoAddr
    Idle = Idle
    NoCreds = NoCreds
    Users = {alice, bob}
    Channels = {lobby, den}
    Addrs = {}
    AddrsOf <- MCNoAddrs
    VoiceFlags = {}
    SsrcSpace = 9
    MaxJoins = 2
    Conns = {a1, b1}
    UserOf <- MCUserOf
    Newcomers = {}
    Overlapping = FALSE
    MaxAsks = 2
INVARIANTS
    BlindlyApplied
CHECK_DEADLOCK FALSE
