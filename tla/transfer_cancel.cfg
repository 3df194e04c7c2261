SPECIFICATION TransferSpec
CONSTANTS
    Peers = {a, b}
    Senders = {a}
    FileNames = {f}
    MaxCopies = 3
    MaxJobs = 2
    MaxAways = 1
    MaxCancels = 1
    NoOne = NoOne
INVARIANTS
    CancelHeard
CHECK_DEADLOCK FALSE
