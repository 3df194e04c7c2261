SPECIFICATION FairSpec
CONSTANTS
    Contents = {a}
    Uploads = {u1, u2}
    Shown = {u1}
    Ttl = 1
    MaxTime = 2
    MaxCrashes = 1
    MaxFailures = 1
INVARIANTS
    KeptForThreeDays StoredWhole GoneIsOver
PROPERTIES
    JanitorCatchesUp
CHECK_DEADLOCK FALSE
