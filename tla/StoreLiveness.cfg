SPECIFICATION FairSpec
CONSTANTS
    Id = {a}
    MaxStamp = 2
    Writer = {w1}
    Poller = {p1, p2}
    Main = main
    Peer = {q}
    Shared = {a}
    MaxCrashes = 0
    None = None
PROPERTIES
    WriteReturns
    PeerChangesArrive
CHECK_DEADLOCK FALSE
