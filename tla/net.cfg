SPECIFICATION FairSpec
CONSTANTS
    MaxCommands = 3
    MaxFailures = 2
    MaxUploads = 1
    NoLink = NoLink
INVARIANTS
    StatusTruthful
PROPERTIES
    LinkKept Reconnects ReplacedStop
CHECK_DEADLOCK FALSE
