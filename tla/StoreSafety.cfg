SPECIFICATION Spec
CONSTANTS
    Id = {a, b}
    MaxStamp = 3
    Writer = {w1, w2}
    Poller = {p1}
    Main = main
    Peer = {q}
    Shared = {a}
    MaxCrashes = 1
    None = None
SYMMETRY Symmetry
INVARIANTS
    TypeOK
    QuietReplicaHoldsDocument
    ShownIsDurable
    HistoryInCommitOrder
    HistoryIsTheCommits
    SeenIsMerged
PROPERTIES
    StoreIsDurable
CHECK_DEADLOCK FALSE
