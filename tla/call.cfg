SPECIFICATION FairSpec
CONSTANTS
    lobby = lobby
    den = den
    Channels = {lobby, den}
    FirstMics = {"muted"}
    MaxActs = 3
    MaxFaults = 1
    None = None
    Nobody = Nobody
INVARIANTS
    CallSound ShownAgrees
PROPERTIES
    Rejoins
CHECK_DEADLOCK FALSE
