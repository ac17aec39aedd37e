SPECIFICATION FairSpec
CONSTANTS
    Folder = {f, g}
    Peer = {p}
    Phone = phone
    MaxEdit = 2
    Deletions = {2}
    MaxPicks = 2
    MaxCrashes = 1
    PickBeside = FALSE
    None = None
INVARIANTS
    TypeOK
    SeedOverwritesNothing
    
    

    
    
    
CHECK_DEADLOCK FALSE
