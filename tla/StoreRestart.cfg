SPECIFICATION Spec
CONSTANTS
    Id = {a}
    MaxStamp = 2
    Writer = {w1}
    Poller = {p1}
    Main = main
    Peer = {q}
    Shared = {a}
    MaxCrashes = 1
    None = None
INVARIANT
    DeletedStaysDeleted
CHECK_DEADLOCK FALSE
