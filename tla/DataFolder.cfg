SPECIFICATION Spec
CONSTANTS
    Default = d
    Chosen = c
    File = {x, y}
    Old = {x}
    PeerHasOld = FALSE
    Reselect = FALSE
    MaxEdit = 1
    MaxMoves = 2
    MaxCrashes = 1
    MaxId = 2
    Gone = Gone
    None = None
INVARIANTS
    TypeOK
    NothingVanishes
    ReopenedStoreHolds
    AttachmentsResolve
PROPERTIES
    MissingFolderUntouched
CHECK_DEADLOCK FALSE
