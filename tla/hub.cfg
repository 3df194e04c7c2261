SPECIFICATION HubSpec
CONSTANTS
    alice = alice
    bob = bob
    carol = carol
    lobby = lobby
    den = den
    a1 = a1
    b1 = b1
    c1 = c1
    NoAddr = NoAddr
    Idle = Idle
    Users = {alice, bob, carol}
    Channels = {lobby, den}
    Addrs = {a1, b1, c1}
    AddrsOf <- MCFixed
    VoiceFlags <- Unmuted
    SsrcSpace = 9
    MaxJoins = 3
SYMMETRY Tenants
INVARIANTS
    ForwardedOpens
    MediaAddrIsOwn
PROPERTIES
    NextCallNewKey
    JoinsUnwatched
CHECK_DEADLOCK FALSE
