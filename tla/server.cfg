SPECIFICATION MCSpec
CONSTANTS
    alice = alice
    bob = bob
    lobby = lobby
    den = den
    a1 = a1
    a2 = a2
    b1 = b1
    a3 = a3
    NoAddr = NoAddr
    Idle = Idle
    NoCreds = NoCreds
    Users = {alice, bob}
    Channels = {lobby, den}
    Addrs = {}
    AddrsOf <- MCNoAddrs
    VoiceFlags <- MCFlags
    SsrcSpace = 9
    MaxJoins = 2
    Conns = {a1, a2, b1}
    UserOf <- MCUserOf
    Newcomers = {bob}
    Overlapping = FALSE
    MaxAsks = 3
    a = a
    b = b
    ada = ada
    eve = eve
    NoNonce = NoNonce
    Clients = {a, b}
    Readers = {b}
    AccountOf <- MCAccountOf
    Before <- MCBefore
    Limit = 1
    MaxId = 4
    Budget <- MCBudget
    MaxThings = 3
INVARIANTS
    NobodyLeftBehind
    ClientsAgree
    CredentialsCurrent
    MessagesAgree
    PageOwed
CHECK_DEADLOCK FALSE
