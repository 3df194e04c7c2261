SPECIFICATION Spec
CONSTANTS
    Contents = {a}
    Uploads = {u1, u2}
    Shown = {u1}
    Ttl = 1
    MaxTime = 2
    MaxCrashes = 0
    MaxFailures = 0
INVARIANTS
    NewerKept
CHECK_DEADLOCK FALSE
