SPECIFICATION Spec
CONSTANTS
    Default = d
    Chosen = c
    File = {x, y}
    Old = {x}
    PeerHasOld = TRUE
    Reselect = FALSE
    MaxEdit = 2
    MaxMoves = 0
    MaxCrashes = 0
    MaxId = 2
    Gone = Gone
    None = None
INVARIANTS
    OldAttachmentsResolve
CHECK_DEADLOCK FALSE
