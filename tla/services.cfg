SPECIFICATION MCSpec
CONSTANTS
    a = a
    b = b
    ourServer = ourServer
    otherServer = otherServer
    ada = ada
    eve = eve
    None = None
    NoOne = NoOne
    Servers = {ourServer, otherServer}
    OpenServers = {otherServer}
    Names = {ada, eve}
    Others <- MCOthers
    Passwords = {good, poor}
    Acceptable = {good}
    MaxRequests = 2
    MaxTokens = 2
    MaxTroubles = 1
    Peers = {a, b}
    Senders = {a}
    FileNames = {f}
    MaxCopies = 3
    MaxJobs = 2
    MaxAways = 1
    MaxCancels = 1
    Attached = {i, j}
    MaxFetches = 3
    MaxKills = 1
    MaxSaves = 3
    MaxFaults = 4
INVARIANTS
    TokenOfItsServer
    FirstSeeds
    BusyMeansWaiting
    TransfersShown
    Stored
CHECK_DEADLOCK FALSE
