SPECIFICATION FairSpec
CONSTANTS
    Id = {a}
    MaxStamp = 2
    Writer = {w1}
    Poller = {p1}
    Main = main
    Peer = {q}
    Shared = {a}
    MaxCrashes = 0
    None = None
PROPERTY
    FreshnessIsAutomatic
CHECK_DEADLOCK FALSE
