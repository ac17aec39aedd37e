SPECIFICATION Spec
CONSTANTS
    Id = {a}
    MaxStamp = 4
    Writer = {w1}
    Poller = {p1}
    Main = main
    Peer = {q}
    Shared = {a}
    MaxCrashes = 0
    None = None
INVARIANT
    EveryChangeCanBeWritten
CHECK_DEADLOCK FALSE
